--------------------------- MODULE ConversionProofs ---------------------------
(***************************************************************************)
(* Proofs about Printf and Strtol, as parts of Routines: for all formats,  *)
(* arguments and buffers, and for all strings and a long of any width.     *)
(***************************************************************************)
EXTENDS Routines, Lemmas, SequenceTheorems

-----------------------------------------------------------------------------
(* Sequences one after the other.                                          *)

\* joined is the last value of such a function.
LEMMA JoinedHas ==
  ASSUME NEW A, NEW seqs \in Seq(Seq(A))
  PROVE  \E f \in [0 .. Len(seqs) -> Seq(A)] :
           Joins(f, seqs) /\ P!joined(seqs) = f[Len(seqs)]
<1>0. PICK n \in Nat : n = Len(seqs)
  OBVIOUS
<1>5. PICK f \in [0 .. n -> Seq(A)] : Joins(f, seqs)
  BY <1>0, JoinsExists
<1>6. f[0] = <<>> /\ \A i \in 1 .. n : f[i] = f[i - 1] \o seqs[i]
  BY <1>0, <1>5 DEF Joins
<1>1. n \in Nat
  OBVIOUS
<1>41. \A i \in 1 .. n : i \in 0 .. n /\ i - 1 \in 0 .. n /\ i # 0
  OBVIOUS
<1> DEFINE Upto(g) == g = [i \in 0 .. n |-> IF i = 0 THEN <<>> ELSE g[i - 1] \o seqs[i]]
           upto == CHOOSE g : Upto(g)
<1>7. Upto(f)
  <2>1. f = [i \in 0 .. n |-> f[i]]
    BY <1>5
  <2>2. ASSUME NEW i \in 0 .. n
        PROVE  f[i] = IF i = 0 THEN <<>> ELSE f[i - 1] \o seqs[i]
    <3>1. CASE i = 0
      BY <1>6, <3>1
    <3>2. CASE i # 0
      <4>1. i \in 1 .. n
        BY <1>1, <3>2
      <4> QED BY <1>6, <3>2, <4>1
    <3> QED BY <3>1, <3>2
  <2> QED BY <2>1, <2>2
<1>8. Upto(upto)
  BY <1>7, Zenon
<1>9. P!joined(seqs) = upto[n]
  BY <1>0 DEF P!joined
<1> HIDE DEF upto
<1>10. upto[0] = <<>> /\ \A i \in 1 .. n : upto[i] = upto[i - 1] \o seqs[i]
  <2> DEFINE along == [i \in 0 .. n |-> IF i = 0 THEN <<>> ELSE upto[i - 1] \o seqs[i]]
  <2>1. upto = along
    BY <1>8
  <2>2. \A i \in 0 .. n : along[i] = IF i = 0 THEN <<>> ELSE upto[i - 1] \o seqs[i]
    OBVIOUS
  <2>3. along[0] = <<>>
    BY <1>1, <2>2
  <2>4. ASSUME NEW i \in 1 .. n
        PROVE  along[i] = upto[i - 1] \o seqs[i]
    BY <1>41, <2>2
  <2> HIDE DEF along
  <2> QED BY <2>1, <2>3, <2>4
<1>11. \A i \in 0 .. n : upto[i] = f[i]
  <2> DEFINE T == {k \in 0 .. n : upto[k] = f[k]}
  <2>1. 0 <= n => 0 \in T
    BY <1>1, <1>6, <1>10
  <2>2. ASSUME NEW k \in 0 .. n - 1, k \in T
        PROVE  k + 1 \in T
    <3>1. k + 1 \in 1 .. n /\ k + 1 \in 0 .. n /\ (k + 1) - 1 = k
      BY <1>1
    <3>2. upto[k + 1] = upto[k] \o seqs[k + 1] /\ f[k + 1] = f[k] \o seqs[k + 1]
      BY <3>1, <1>6, <1>10
    <3> QED BY <2>2, <3>1, <3>2
  <2>3. 0 .. n \subseteq T
    <3> HIDE DEF T
    <3>1. 0 \in Int /\ n \in Int
      BY <1>1
    <3> QED BY <2>1, <2>2, <3>1, IntervalInduction
  <2> QED BY <2>3
<1>12. P!joined(seqs) = f[n]
  BY <1>1, <1>9, <1>11
<1> QED BY <1>0, <1>5, <1>6, <1>12 DEF Joins

\* Nothing joined is nothing.
LEMMA JoinedEmpty == P!joined(<<>>) = <<>>
<1>1. PICK s_ \in Seq(Seq({})) : s_ = <<>> /\ Len(s_) = 0
  <2>1. <<>> \in Seq(Seq({})) /\ Len(<<>>) = 0
    OBVIOUS
  <2> QED BY <2>1
<1>2. PICK f : Joins(f, s_) /\ P!joined(s_) = f[Len(s_)]
  BY JoinedHas
<1>3. f[0] = <<>>
  BY <1>2 DEF Joins
<1> QED BY <1>1, <1>2, <1>3

\* The first sequence comes first.
LEMMA JoinedHead ==
  ASSUME NEW A, NEW seqs \in Seq(Seq(A)), seqs # <<>>
  PROVE  /\ P!joined(seqs) = Head(seqs) \o P!joined(Tail(seqs))
         /\ P!joined(seqs) \in Seq(A) /\ P!joined(Tail(seqs)) \in Seq(A)
<1>1. Tail(seqs) \in Seq(Seq(A))
  OBVIOUS
<1>2. PICK f \in [0 .. Len(seqs) -> Seq(A)] :
        Joins(f, seqs) /\ P!joined(seqs) = f[Len(seqs)]
  BY JoinedHas
<1>3. PICK g \in [0 .. Len(Tail(seqs)) -> Seq(A)] :
        Joins(g, Tail(seqs)) /\ P!joined(Tail(seqs)) = g[Len(Tail(seqs))]
  BY <1>1, JoinedHas
<1>4. f[Len(seqs)] = Head(seqs) \o g[Len(Tail(seqs))]
  BY <1>2, <1>3, JoinsHead
<1>5. Len(seqs) \in Nat /\ Len(Tail(seqs)) \in Nat
  BY <1>1
<1>6. P!joined(seqs) = Head(seqs) \o P!joined(Tail(seqs))
  BY <1>2, <1>3, <1>4
<1>7. P!joined(seqs) \in Seq(A) /\ P!joined(Tail(seqs)) \in Seq(A)
  <2>1. Len(seqs) \in 0 .. Len(seqs) /\ Len(Tail(seqs)) \in 0 .. Len(Tail(seqs))
    BY <1>5
  <2> QED BY <1>2, <1>3, <2>1
<1> QED BY <1>6, <1>7

-----------------------------------------------------------------------------
(* The loops of vsnprintf.                                                 *)

Loops == [kind : {"plain", "once", "bounded"}, chars : Seq(Chars), left : Nat]

\* The loop l after a turn that takes a character.
TurnedOn(l) == [l EXCEPT !.chars = Tail(@), !.left = @ - 1]

\* What a loop stands for.
LEMMA MeantIs ==
  ASSUME NEW l \in Loops
  PROVE  /\ P!meant(l) \in Seq(Chars)
         /\ Len(P!meant(l)) = IF l.left < Len(l.chars) THEN l.left ELSE Len(l.chars)
         /\ \A i \in 1 .. Len(P!meant(l)) : P!meant(l)[i] = l.chars[i]
<1>1. PICK chars \in Seq(Chars) : chars = l.chars
  BY DEF Loops
<1>2. PICK n \in Nat : n = IF l.left < Len(l.chars) THEN l.left ELSE Len(l.chars)
  <2>1. l.left \in Nat /\ Len(l.chars) \in Nat
    BY DEF Loops
  <2> QED BY <2>1
<1>3. n <= Len(chars) /\ n \in Nat
  <2>1. l.left \in Nat /\ Len(l.chars) \in Nat
    BY DEF Loops
  <2> QED BY <2>1, <1>1, <1>2
<1>4. /\ SubSeq(chars, 1, n) \in Seq(Chars) /\ Len(SubSeq(chars, 1, n)) = n
      /\ \A i \in 1 .. n : SubSeq(chars, 1, n)[i] = chars[i]
  <2>1. chars \in Seq(Chars)
    OBVIOUS
  <2> QED BY ONLY <2>1, <1>3
<1>5. P!meant(l) = SubSeq(chars, 1, n)
  BY <1>1, <1>2 DEF P!meant
<1> QED BY <1>1, <1>2, <1>4, <1>5

\* A loop that is at its end stands for nothing; a turn takes the first
\* character.
LEMMA MeantTurn ==
  ASSUME NEW l \in Loops
  PROVE  /\ ~P!goes_on(l) => P!meant(l) = <<>>
         /\ P!goes_on(l) =>
              /\ TurnedOn(l) \in Loops /\ Head(l.chars) \in Chars
              /\ P!meant(l) = <<Head(l.chars)>> \o P!meant(TurnedOn(l))
<1>1. PICK chars \in Seq(Chars), left_ \in Nat : chars = l.chars /\ left_ = l.left
  BY DEF Loops
<1>2. ASSUME ~P!goes_on(l)
      PROVE  P!meant(l) = <<>>
  <2>1. Len(P!meant(l)) = 0 /\ P!meant(l) \in Seq(Chars)
    <3>1. chars = <<>> \/ left_ = 0
      BY <1>1, <1>2 DEF P!goes_on
    <3>2. Len(chars) \in Nat
      OBVIOUS
    <3> QED BY <1>1, <3>1, <3>2, MeantIs
  <2> QED BY ONLY <2>1
<1>3. ASSUME P!goes_on(l)
      PROVE  /\ TurnedOn(l) \in Loops /\ Head(l.chars) \in Chars
             /\ P!meant(l) = <<Head(l.chars)>> \o P!meant(TurnedOn(l))
  <2>1. chars # <<>> /\ left_ > 0
    BY <1>1, <1>3 DEF P!goes_on
  <2>2. /\ Tail(chars) \in Seq(Chars) /\ Head(chars) \in Chars /\ left_ - 1 \in Nat
        /\ Len(chars) \in Nat /\ Len(chars) > 0 /\ Len(Tail(chars)) = Len(chars) - 1
        /\ Head(chars) = chars[1]
        /\ \A i \in 1 .. Len(chars) - 1 : Tail(chars)[i] = chars[i + 1]
    <3>1. chars \in Seq(Chars) /\ left_ \in Nat
      OBVIOUS
    <3> QED BY ONLY <2>1, <3>1
  <2> DEFINE t == TurnedOn(l)
  <2>3. t \in Loops /\ t.chars = Tail(chars) /\ t.left = left_ - 1
    BY <1>1, <2>2 DEF Loops, TurnedOn
  <2> HIDE DEF t
  <2>4. PICK x, y : x = P!meant(l) /\ y = P!meant(t)
    OBVIOUS
  <2>5. /\ x \in Seq(Chars) /\ y \in Seq(Chars)
        /\ Len(x) = IF left_ < Len(chars) THEN left_ ELSE Len(chars)
        /\ Len(y) = IF left_ - 1 < Len(chars) - 1 THEN left_ - 1 ELSE Len(chars) - 1
        /\ \A i \in 1 .. Len(x) : x[i] = chars[i]
        /\ \A i \in 1 .. Len(y) : y[i] = Tail(chars)[i]
    BY <1>1, <2>2, <2>3, <2>4, MeantIs
  <2>6. Len(x) = Len(y) + 1 /\ Len(y) \in Nat /\ Len(y) <= Len(chars) - 1
    <3>1. PICK m \in Nat : m = Len(chars) /\ m > 0
      BY <2>2
    <3>2. CASE left_ < m
      BY <2>1, <2>5, <3>1, <3>2
    <3>3. CASE ~(left_ < m)
      BY <2>1, <2>5, <3>1, <3>3
    <3> QED BY <3>2, <3>3
  <2>7. x[1] = Head(chars) /\ \A i \in 1 .. Len(y) : x[i + 1] = y[i]
    <3>1. x[1] = chars[1]
      BY <2>5, <2>6
    <3>2. ASSUME NEW i \in 1 .. Len(y)
          PROVE  x[i + 1] = y[i]
      <4>1. i + 1 \in 1 .. Len(x) /\ i \in 1 .. Len(chars) - 1
        BY <2>2, <2>6
      <4> QED BY <2>2, <2>5, <4>1
    <3> QED BY <2>2, <3>1, <3>2
  <2>8. x = <<Head(chars)>> \o y
    <3>1. Head(chars) \in Chars
      BY <2>2
    <3> QED BY ONLY <2>5, <2>6, <2>7, <3>1, Prefixed
  <2> QED BY <1>1, <2>2, <2>3, <2>4, <2>8 DEF t
<1> QED BY <1>2, <1>3

\* What each of some loops stands for.
Meants(ls) == [i \in DOMAIN ls |-> P!meant(ls[i])]

\* What they stand for together.
LEMMA MeantsIs ==
  ASSUME NEW ls \in Seq(Loops)
  PROVE  /\ Meants(ls) \in Seq(Seq(Chars)) /\ P!joined(Meants(ls)) \in Seq(Chars)
         /\ ls # <<>> =>
              /\ Head(ls) \in Loops /\ Tail(ls) \in Seq(Loops)
              /\ P!joined(Meants(Tail(ls))) \in Seq(Chars)
              /\ P!joined(Meants(ls)) = P!meant(Head(ls)) \o P!joined(Meants(Tail(ls)))
<1>1. ASSUME NEW ms \in Seq(Loops)
      PROVE  /\ Meants(ms) \in Seq(Seq(Chars)) /\ Len(Meants(ms)) = Len(ms)
             /\ \A i \in 1 .. Len(ms) : Meants(ms)[i] = P!meant(ms[i])
  <2>1. \A i \in 1 .. Len(ms) : P!meant(ms[i]) \in Seq(Chars)
    BY MeantIs
  <2>2. DOMAIN ms = 1 .. Len(ms) /\ Len(ms) \in Nat
    OBVIOUS
  <2>3. \A i \in 1 .. Len(ms) : Meants(ms)[i] = P!meant(ms[i])
    BY <2>2 DEF Meants
  <2>4. Meants(ms) = [i \in 1 .. Len(ms) |-> Meants(ms)[i]]
    BY <2>2 DEF Meants
  <2>5. Meants(ms) \in Seq(Seq(Chars)) /\ Len(Meants(ms)) = Len(ms)
    BY ONLY <2>1, <2>2, <2>3, <2>4
  <2> QED BY <2>3, <2>5
<1>2. Meants(ls) \in Seq(Seq(Chars)) /\ Len(Meants(ls)) = Len(ls)
  BY <1>1
<1>3. CASE ls = <<>>
  <2>1. P!joined(Meants(ls)) = <<>>
    <3>1. Meants(ls) = <<>>
      <4>1. Len(Meants(ls)) = 0
        BY <1>2, <1>3
      <4> QED BY ONLY <1>2, <4>1
    <3> QED BY <3>1, JoinedEmpty
  <2> QED BY <1>2, <1>3, <2>1
<1>4. CASE ls # <<>>
  <2>1. /\ Head(ls) \in Loops /\ Tail(ls) \in Seq(Loops) /\ Len(Tail(ls)) = Len(ls) - 1
        /\ Len(ls) \in Nat /\ Len(ls) > 0 /\ Head(ls) = ls[1]
        /\ \A i \in 1 .. Len(ls) - 1 : Tail(ls)[i] = ls[i + 1]
    BY <1>4
  <2>2. PICK x, y : x = Meants(ls) /\ y = Meants(Tail(ls))
    OBVIOUS
  <2>3. /\ x \in Seq(Seq(Chars)) /\ y \in Seq(Seq(Chars))
        /\ Len(x) = Len(ls) /\ Len(y) = Len(ls) - 1
    BY <1>1, <2>1, <2>2
  <2>4. \A i \in 1 .. Len(y) : y[i] = x[i + 1]
    <3> SUFFICES ASSUME NEW i \in 1 .. Len(y)
                 PROVE  y[i] = x[i + 1]
      OBVIOUS
    <3>1. i \in 1 .. Len(ls) - 1 /\ i \in 1 .. Len(Tail(ls)) /\ i + 1 \in 1 .. Len(ls)
      BY <2>1, <2>3
    <3>2. y[i] = P!meant(Tail(ls)[i]) /\ x[i + 1] = P!meant(ls[i + 1])
      BY <1>1, <2>1, <2>2, <3>1
    <3> QED BY <2>1, <3>1, <3>2
  <2>5. x # <<>> /\ Head(x) = P!meant(Head(ls))
    <3>1. x[1] = P!meant(ls[1])
      BY <1>1, <2>1, <2>2
    <3>2. x # <<>> /\ Head(x) = x[1]
      BY ONLY <2>1, <2>3
    <3> QED BY <2>1, <3>1, <3>2
  <2>6. Tail(x) = y
    <3>1. Len(y) = Len(x) - 1
      BY <2>3
    <3>2. x # <<>>
      BY <2>5
    <3> QED BY ONLY <2>3, <2>4, <3>1, <3>2, TailIs
  <2>7. /\ P!joined(x) = Head(x) \o P!joined(y)
        /\ P!joined(x) \in Seq(Chars) /\ P!joined(y) \in Seq(Chars)
    BY ONLY <2>3, <2>5, <2>6, JoinedHead
  <2> QED BY <1>2, <2>1, <2>2, <2>5, <2>7
<1> QED BY <1>3, <1>4

-----------------------------------------------------------------------------
(* The digits of a number.                                                 *)

\* The digit for k.
Symbol(upper, k) == (IF upper THEN P!UPPER ELSE P!LOWER)[1 + k]

\* A digit is a character; that of 0 is "0".
LEMMA SymbolIs ==
  ASSUME NEW upper \in BOOLEAN, NEW k \in 0 .. 15
  PROVE  Symbol(upper, k) \in Chars /\ Symbol(upper, 0) = "0"
<1>1. 1 + k \in 1 .. 16
  OBVIOUS
<1>2. P!LOWER[1 + k] \in Chars /\ P!UPPER[1 + k] \in Chars
  BY <1>1, CharsAssumption
<1>3. P!LOWER[1 + 0] = "0" /\ P!UPPER[1 + 0] = "0"
  BY DEF P!LOWER, P!UPPER
<1> QED BY <1>2, <1>3 DEF Symbol

\* f[n] is n in digits, but for 0.
Spells(f, b, upper, num) ==
  /\ f[0] = <<>>
  /\ \A n \in 1 .. num : f[n] = Append(f[n \div b], Symbol(upper, n % b))

\* digits is the last value of such a function.
LEMMA DigitsHas ==
  ASSUME NEW num \in Nat, NEW b \in {10, 16}, NEW upper \in BOOLEAN
  PROVE  \E f \in [0 .. num -> Seq(Chars)] :
           /\ Spells(f, b, upper, num)
           /\ P!digits(num, b, upper) = IF num = 0 THEN <<"0">> ELSE f[num]
<1> DEFINE V == Seq(Chars)
           start == <<>>
           e == [i \in 1 .. num |-> i \div b]
           G == [i \in 1 .. num |-> [v \in V |-> Append(v, Symbol(upper, i % b))]]
<1>1. \A i \in 1 .. num : /\ i \div b \in Nat /\ i \div b < i /\ i % b \in 0 .. 15
                          /\ i \div b \in 0 .. num
  <2> SUFFICES ASSUME NEW i \in 1 .. num
               PROVE  /\ i \div b \in Nat /\ i \div b < i /\ i % b \in 0 .. 15
                      /\ i \div b \in 0 .. num
    OBVIOUS
  <2>1. i \in Nat /\ b \in Nat /\ b > 1 /\ b <= 16
    OBVIOUS
  <2>2. i \div b \in Nat /\ i % b \in 0 .. b - 1 /\ i \div b < i
    BY <2>1, Division
  <2> QED BY <2>1, <2>2
<1>2. /\ G \in [1 .. num -> [V -> V]]
      /\ \A i \in 1 .. num : \A v \in V : G[i][v] = Append(v, Symbol(upper, i % b))
  <2>1. \A i \in 1 .. num : \A v \in V : Append(v, Symbol(upper, i % b)) \in V
    <3> SUFFICES ASSUME NEW i \in 1 .. num, NEW v \in V
                 PROVE  Append(v, Symbol(upper, i % b)) \in V
      OBVIOUS
    <3>1. Symbol(upper, i % b) \in Chars
      BY <1>1, SymbolIs
    <3> QED BY <3>1
  <2> QED BY <2>1
<1>3. e \in [1 .. num -> Nat] /\ \A i \in 1 .. num : e[i] < i /\ e[i] = i \div b
  BY <1>1
<1>4. start \in V /\ start = <<>>
  OBVIOUS
<1> HIDE DEF G, e, start
<1>5. PICK f \in [0 .. num -> V] : Recurs(f, num, start, e, G)
  BY <1>2, <1>3, <1>4, RecursionExists, Zenon
<1>6. f[0] = <<>> /\ \A i \in 1 .. num : f[i] = Append(f[i \div b], Symbol(upper, i % b))
  <2>1. f[0] = start /\ \A i \in 1 .. num : f[i] = G[i][f[e[i]]]
    BY <1>5 DEF Recurs
  <2>2. \A i \in 1 .. num : f[i] = G[i][f[i \div b]] /\ f[i \div b] \in V
    BY <1>1, <1>3, <1>5, <2>1
  <2> QED BY <1>2, <1>4, <2>1, <2>2
<1> DEFINE Upto(g) ==
             g = [n \in 0 .. num |->
                    IF n = 0 THEN <<>>
                    ELSE Append(g[n \div b], (IF upper THEN P!UPPER ELSE P!LOWER)[1 + (n % b)])]
           upto == CHOOSE g : Upto(g)
<1>7. Upto(f)
  <2>1. f = [n \in 0 .. num |-> f[n]]
    BY <1>5
  <2>2. ASSUME NEW n \in 0 .. num
        PROVE  f[n] = IF n = 0 THEN <<>>
                      ELSE Append(f[n \div b],
                                  (IF upper THEN P!UPPER ELSE P!LOWER)[1 + (n % b)])
    <3>1. CASE n = 0
      BY <1>6, <3>1
    <3>2. CASE n # 0
      <4>1. n \in 1 .. num
        BY <3>2
      <4> QED BY <1>6, <3>2, <4>1 DEF Symbol
    <3> QED BY <3>1, <3>2
  <2> QED BY <2>1, <2>2
<1>8. Upto(upto)
  BY <1>7, Zenon
<1>9. P!digits(num, b, upper) = IF num = 0 THEN <<"0">> ELSE upto[num]
  BY DEF P!digits
<1> HIDE DEF upto
<1>10. /\ upto[0] = <<>>
       /\ \A n \in 1 .. num : upto[n] = Append(upto[n \div b], Symbol(upper, n % b))
  <2> DEFINE along == [n \in 0 .. num |->
                         IF n = 0 THEN <<>> ELSE Append(upto[n \div b], Symbol(upper, n % b))]
  <2>1. upto = along
    BY <1>8 DEF Symbol
  <2>2. \A n \in 0 .. num :
          along[n] = IF n = 0 THEN <<>> ELSE Append(upto[n \div b], Symbol(upper, n % b))
    OBVIOUS
  <2>3. along[0] = <<>>
    BY <2>2
  <2>4. ASSUME NEW n \in 1 .. num
        PROVE  along[n] = Append(upto[n \div b], Symbol(upper, n % b))
    <3>1. n \in 0 .. num /\ n # 0
      OBVIOUS
    <3> QED BY <2>2, <3>1
  <2> HIDE DEF along
  <2> QED BY <2>1, <2>3, <2>4
<1>11. \A n \in 0 .. num : upto[n] = f[n]
  <2> DEFINE T == {k \in 0 .. num : \A n \in 0 .. k : upto[n] = f[n]}
  <2>1. 0 \in T
    BY <1>6, <1>10
  <2>2. ASSUME NEW k \in 0 .. num - 1, k \in T
        PROVE  k + 1 \in T
    <3>1. k + 1 \in 1 .. num /\ k + 1 \in 0 .. num
      OBVIOUS
    <3>2. upto[k + 1] = f[k + 1]
      <4>1. (k + 1) \div b \in 0 .. k
        BY <1>1, <3>1
      <4>2. upto[(k + 1) \div b] = f[(k + 1) \div b]
        BY <2>2, <4>1
      <4> QED BY <1>6, <1>10, <3>1, <4>2
    <3>3. ASSUME NEW n \in 0 .. k + 1
          PROVE  upto[n] = f[n]
      <4>1. CASE n = k + 1
        BY <3>2, <4>1
      <4>2. CASE n # k + 1
        <5>1. n \in 0 .. k
          BY <4>2
        <5> QED BY <2>2, <5>1
      <4> QED BY <4>1, <4>2
    <3> QED BY <3>1, <3>3
  <2>3. 0 .. num \subseteq T
    <3> HIDE DEF T
    <3>1. 0 \in Int /\ num \in Int
      OBVIOUS
    <3> QED BY <2>1, <2>2, <3>1, IntervalInduction
  <2>4. num \in T
    <3>1. num \in 0 .. num
      OBVIOUS
    <3> HIDE DEF T
    <3> QED BY <2>3, <3>1
  <2> QED BY <2>4
<1>12. P!digits(num, b, upper) = IF num = 0 THEN <<"0">> ELSE f[num]
  <2>1. num \in 0 .. num
    OBVIOUS
  <2> QED BY <1>9, <1>11, <2>1
<1> QED BY <1>5, <1>6, <1>12 DEF Spells

\* What stands in a field apart from digits and blanks on the right.
Blank == " "
Fillers == {"0", Blank, "-", "+", "x"}

\* A digit is neither the blank nor a sign nor the "x" of a prefix.
LEMMA SymbolsDiffer ==
  ASSUME NEW upper \in BOOLEAN, NEW k \in 0 .. 15
  PROVE  Symbol(upper, k) \notin {Blank, "-", "+", "x"}
<1>1. 1 + k \in 1 .. 16
  OBVIOUS
<1>2. \A i \in 1 .. 16 :
        P!LOWER[i] # Blank /\ P!LOWER[i] # "-" /\ P!LOWER[i] # "+" /\ P!LOWER[i] # "x"
  <2>1. \A i \in 1 .. 16 : P!LOWER[i] # Blank
    <3>2. /\ "0" # Blank /\ "1" # Blank /\ "2" # Blank /\ "3" # Blank /\ "4" # Blank /\ "5" # Blank
          /\ "6" # Blank /\ "7" # Blank /\ "8" # Blank /\ "9" # Blank /\ "a" # Blank /\ "b" # Blank
          /\ "c" # Blank /\ "d" # Blank /\ "e" # Blank /\ "f" # Blank
      BY Zenon DEF Blank
    <3>3. \A i \in 1 .. 16 : P!LOWER[i] # Blank
      BY ONLY <3>2 DEF P!LOWER
    <3> QED BY <3>3
  <2>2. \A i \in 1 .. 16 : P!LOWER[i] # "-"
    BY DEF P!LOWER
  <2>3. \A i \in 1 .. 16 : P!LOWER[i] # "+"
    BY DEF P!LOWER
  <2>4. \A i \in 1 .. 16 : P!LOWER[i] # "x"
    BY DEF P!LOWER
  <2> QED BY ONLY <2>1, <2>2, <2>3, <2>4
<1>3. \A i \in 1 .. 16 :
        P!UPPER[i] # Blank /\ P!UPPER[i] # "-" /\ P!UPPER[i] # "+" /\ P!UPPER[i] # "x"
  <2>1. \A i \in 1 .. 16 : P!UPPER[i] # Blank
    <3>2. /\ "0" # Blank /\ "1" # Blank /\ "2" # Blank /\ "3" # Blank /\ "4" # Blank /\ "5" # Blank
          /\ "6" # Blank /\ "7" # Blank /\ "8" # Blank /\ "9" # Blank /\ "A" # Blank /\ "B" # Blank
          /\ "C" # Blank /\ "D" # Blank /\ "E" # Blank /\ "F" # Blank
      BY Zenon DEF Blank
    <3>3. \A i \in 1 .. 16 : P!UPPER[i] # Blank
      BY ONLY <3>2 DEF P!UPPER
    <3> QED BY <3>3
  <2>2. \A i \in 1 .. 16 : P!UPPER[i] # "-"
    BY DEF P!UPPER
  <2>3. \A i \in 1 .. 16 : P!UPPER[i] # "+"
    BY DEF P!UPPER
  <2>4. \A i \in 1 .. 16 : P!UPPER[i] # "x"
    BY DEF P!UPPER
  <2> QED BY ONLY <2>1, <2>2, <2>3, <2>4
<1> QED BY <1>1, <1>2, <1>3 DEF Symbol

\* The fillers are characters.
LEMMA FillersTyped == Fillers \subseteq Chars
<1>1. Symbol(TRUE, 0) = "0" /\ Symbol(TRUE, 0) \in Chars
  <2>1. TRUE \in BOOLEAN /\ 0 \in 0 .. 15
    OBVIOUS
  <2> QED BY <2>1, SymbolIs
<1> QED BY <1>1, CharsAssumption DEF Fillers, Blank

\* A digit is read as what it stands for, a filler as nothing.
LEMMA DigitRead ==
  ASSUME NEW upper \in BOOLEAN, NEW k \in 0 .. 15
  PROVE  P!digit_value(Symbol(upper, k)) = k
<1> DEFINE c == Symbol(upper, k)
           K == {i \in 1 .. 16 : c \in {P!LOWER[i], P!UPPER[i]}}
<1>1. \A i, j \in 1 .. 16 :
        /\ P!LOWER[i] = P!LOWER[j] => i = j
        /\ P!UPPER[i] = P!UPPER[j] => i = j
        /\ P!LOWER[i] = P!UPPER[j] => i = j
  BY DEF P!LOWER, P!UPPER
<1>2. 1 + k \in 1 .. 16 /\ (c = P!LOWER[1 + k] \/ c = P!UPPER[1 + k])
  BY DEF Symbol
<1> HIDE DEF c
<1>3. 1 + k \in K
  BY <1>2
<1>4. ASSUME NEW i \in K
      PROVE  i = 1 + k
  <2>1. i \in 1 .. 16 /\ (c = P!LOWER[i] \/ c = P!UPPER[i])
    OBVIOUS
  <2> QED BY <1>1, <1>2, <2>1
<1>5. P!digit_value(c) = IF K = {} THEN -1 ELSE (CHOOSE i \in K : TRUE) - 1
  BY DEF P!digit_value
<1> HIDE DEF K
<1>6. (CHOOSE i \in K : TRUE) \in K
  BY <1>3
<1>7. P!digit_value(c) = k
  BY <1>3, <1>4, <1>5, <1>6
<1> QED BY <1>7 DEF c

\* The reader takes the filler "0" for a digit, and no other.
LEMMA FillerRead ==
  ASSUME NEW c \in Fillers
  PROVE  P!digit_value(c) = IF c = "0" THEN 0 ELSE -1
<1>1. CASE c = "0"
  <2>0. TRUE \in BOOLEAN /\ 0 \in 0 .. 15
    OBVIOUS
  <2>1. Symbol(TRUE, 0) = "0"
    BY <2>0, SymbolIs
  <2>2. P!digit_value(Symbol(TRUE, 0)) = 0
    BY <2>0, DigitRead
  <2> QED BY <1>1, <2>1, <2>2
<1>2. CASE c # "0"
  <2> DEFINE K == {i \in 1 .. 16 : c \in {P!LOWER[i], P!UPPER[i]}}
  <2>1. \A i \in 1 .. 16 : P!LOWER[i] # c /\ P!UPPER[i] # c
    <3> SUFFICES ASSUME NEW i \in 1 .. 16
                 PROVE  P!LOWER[i] # c /\ P!UPPER[i] # c
      OBVIOUS
    <3>1. FALSE \in BOOLEAN /\ TRUE \in BOOLEAN /\ i - 1 \in 0 .. 15 /\ 1 + (i - 1) = i
      OBVIOUS
    <3>2. Symbol(FALSE, i - 1) = P!LOWER[i] /\ Symbol(TRUE, i - 1) = P!UPPER[i]
      BY <3>1 DEF Symbol
    <3>3. c \in {Blank, "-", "+", "x"}
      BY <1>2 DEF Fillers
    <3> QED BY <3>1, <3>2, <3>3, SymbolsDiffer
  <2>2. K = {}
    BY <2>1
  <2>3. P!digit_value(c) = IF K = {} THEN -1 ELSE (CHOOSE i \in K : TRUE) - 1
    BY DEF P!digit_value
  <2> HIDE DEF K
  <2> QED BY <1>2, <2>2, <2>3
<1> QED BY <1>1, <1>2

\* A character is read as a digit of a base up to 16, or as none.
LEMMA DigitValueTyped ==
  ASSUME NEW c
  PROVE  P!digit_value(c) \in -1 .. 15
<1> DEFINE K == {i \in 1 .. 16 : c \in {P!LOWER[i], P!UPPER[i]}}
<1>1. P!digit_value(c) = IF K = {} THEN -1 ELSE (CHOOSE i \in K : TRUE) - 1
  BY DEF P!digit_value
<1>2. K \subseteq 1 .. 16
  OBVIOUS
<1> HIDE DEF K
<1>3. CASE K = {}
  BY <1>1, <1>3
<1>4. CASE K # {}
  <2>1. (CHOOSE i \in K : TRUE) \in K
    BY <1>4
  <2> QED BY <1>1, <1>2, <1>4, <2>1
<1> QED BY <1>3, <1>4

\* U[i] is what a reader has after i characters of x, but for the sign.
Reads(U, x, b) ==
  /\ U[0] = 0
  /\ \A i \in 1 .. Len(x) :
       U[i] = IF P!digit_value(x[i]) = -1 THEN U[i - 1]
              ELSE U[i - 1] * b + P!digit_value(x[i])

\* read_back is the last value of such a function.
LEMMA ReadHas ==
  ASSUME NEW x \in Seq(Chars), NEW b \in Nat
  PROVE  \E U \in [0 .. Len(x) -> Int] :
           /\ Reads(U, x, b)
           /\ P!read_back(x, b) =
                IF \E i \in DOMAIN x : x[i] = "-" THEN -U[Len(x)] ELSE U[Len(x)]
<1>0. PICK n \in Nat : n = Len(x)
  OBVIOUS
<1> DEFINE start == 0
           e == [i \in 1 .. n |-> i - 1]
           on(i, v) == IF P!digit_value(x[i]) = -1 THEN v ELSE v * b + P!digit_value(x[i])
           G == [i \in 1 .. n |-> [v \in Int |-> on(i, v)]]
<1>1. \A i \in 1 .. n : /\ i - 1 \in Nat /\ i - 1 < i /\ i - 1 \in 0 .. n
                        /\ i \in 0 .. n /\ i # 0
  OBVIOUS
<1>2. \A i \in 1 .. n : \A v \in Int : on(i, v) \in Int
  <2> SUFFICES ASSUME NEW i \in 1 .. n, NEW v \in Int
               PROVE  on(i, v) \in Int
    OBVIOUS
  <2>1. P!digit_value(x[i]) \in Int
    BY DigitValueTyped
  <2> QED BY <2>1
<1>3. /\ G \in [1 .. n -> [Int -> Int]]
      /\ \A i \in 1 .. n : \A v \in Int : G[i][v] = on(i, v)
  BY <1>2
<1>4. e \in [1 .. n -> Nat] /\ \A i \in 1 .. n : e[i] < i /\ e[i] = i - 1
  BY <1>1
<1>5. start \in Int /\ start = 0
  OBVIOUS
<1> HIDE DEF G, e, start
<1>6. PICK U \in [0 .. n -> Int] : Recurs(U, n, start, e, G)
  BY <1>3, <1>4, <1>5, RecursionExists, Zenon
<1>7. U[0] = 0 /\ \A i \in 1 .. n : U[i] = on(i, U[i - 1])
  <2>1. U[0] = start /\ \A i \in 1 .. n : U[i] = G[i][U[e[i]]]
    BY <1>6 DEF Recurs
  <2> HIDE DEF on
  <2>2. \A i \in 1 .. n : U[i] = G[i][U[i - 1]] /\ U[i - 1] \in Int
    BY <1>1, <1>4, <1>6, <2>1
  <2> QED BY <1>3, <1>5, <2>1, <2>2
<1> DEFINE Upto(g) ==
             g = [i \in 0 .. n |->
                    IF i = 0 THEN 0
                    ELSE IF P!digit_value(x[i]) = -1 THEN g[i - 1]
                    ELSE g[i - 1] * b + P!digit_value(x[i])]
           upto == CHOOSE g : Upto(g)
<1>8. Upto(U)
  <2>1. U = [i \in 0 .. n |-> U[i]]
    BY <1>6
  <2>2. ASSUME NEW i \in 0 .. n
        PROVE  U[i] = IF i = 0 THEN 0
                      ELSE IF P!digit_value(x[i]) = -1 THEN U[i - 1]
                      ELSE U[i - 1] * b + P!digit_value(x[i])
    <3>1. CASE i = 0
      BY <1>7, <3>1
    <3>2. CASE i # 0
      <4>1. i \in 1 .. n
        BY <3>2
      <4> QED BY <1>7, <3>2, <4>1
    <3> QED BY <3>1, <3>2
  <2> QED BY <2>1, <2>2
<1>9. Upto(upto)
  BY <1>8, Zenon
<1>10. P!read_back(x, b) = IF \E i \in DOMAIN x : x[i] = "-" THEN -upto[n] ELSE upto[n]
  BY <1>0 DEF P!read_back
<1> HIDE DEF upto
<1>11. upto[0] = 0 /\ \A i \in 1 .. n : upto[i] = on(i, upto[i - 1])
  <2> DEFINE along == [i \in 0 .. n |-> IF i = 0 THEN 0 ELSE on(i, upto[i - 1])]
  <2>1. upto = along
    BY <1>9
  <2> HIDE DEF on
  <2>2. \A i \in 0 .. n : along[i] = IF i = 0 THEN 0 ELSE on(i, upto[i - 1])
    OBVIOUS
  <2>3. along[0] = 0
    BY <2>2
  <2>4. ASSUME NEW i \in 1 .. n
        PROVE  along[i] = on(i, upto[i - 1])
    BY <1>1, <2>2
  <2> HIDE DEF along
  <2> QED BY <2>1, <2>3, <2>4
<1>12. \A i \in 0 .. n : upto[i] = U[i]
  <2> DEFINE T == {k \in 0 .. n : upto[k] = U[k]}
  <2>1. 0 <= n => 0 \in T
    BY <1>7, <1>11
  <2>2. ASSUME NEW k \in 0 .. n - 1, k \in T
        PROVE  k + 1 \in T
    <3>1. k + 1 \in 1 .. n /\ k + 1 \in 0 .. n /\ (k + 1) - 1 = k
      OBVIOUS
    <3> HIDE DEF on
    <3>2. upto[k + 1] = on(k + 1, upto[k]) /\ U[k + 1] = on(k + 1, U[k])
      BY <3>1, <1>7, <1>11
    <3> QED BY <2>2, <3>1, <3>2
  <2>3. 0 .. n \subseteq T
    <3> HIDE DEF T
    <3>1. 0 \in Int /\ n \in Int
      OBVIOUS
    <3> QED BY <2>1, <2>2, <3>1, IntervalInduction
  <2> QED BY <2>3
<1>13. n \in 0 .. n
  OBVIOUS
<1>14. Reads(U, x, b)
  BY <1>0, <1>7 DEF Reads
<1> QED BY <1>0, <1>6, <1>10, <1>12, <1>13, <1>14

\* y stands in x behind its p-th character.
Stands(y, x, p) == p + Len(y) <= Len(x) /\ \A k \in 1 .. Len(y) : x[p + k] = y[k]

\* U reads x, which has the digits of num, the last value of f.
Reading(num, b, upper, f, x, U) ==
  /\ num \in Nat /\ b \in {10, 16} /\ upper \in BOOLEAN
  /\ f \in [0 .. num -> Seq(Chars)] /\ Spells(f, b, upper, num)
  /\ x \in Seq(Chars) /\ U \in [0 .. Len(x) -> Int] /\ Reads(U, x, b)

\* After i characters it has v.
Has(U, i, v) == U[i] = v

\* The digits of n from the p-th character of x on are read as n.
LEMMA DigitsRead ==
  ASSUME NEW num, NEW b, NEW upper, NEW f, NEW x, NEW U, NEW p,
         Reading(num, b, upper, f, x, U), p \in Nat, Stands(f[num], x, p), Has(U, p, 0)
  PROVE  Has(U, p + Len(f[num]), num)
<1> USE DEF Reading, Has
<1> DEFINE Good(n) == Stands(f[n], x, p) => U[p + Len(f[n])] = n
           T == {m \in 0 .. num : \A n \in 0 .. m : Good(n)}
<1>1. 0 \in T
  <2>1. f[0] = <<>> /\ Len(<<>>) = 0 /\ p + 0 = p
    BY DEF Spells
  <2>2. Good(0)
    BY <2>1
  <2>3. ASSUME NEW i \in 0 .. 0
        PROVE  Good(i)
    <3>1. i = 0
      OBVIOUS
    <3> HIDE DEF Good
    <3> QED BY <2>2, <3>1
  <2>4. 0 \in 0 .. num
    OBVIOUS
  <2> HIDE DEF Good
  <2> QED BY <2>3, <2>4
<1>2. ASSUME NEW m \in 0 .. num - 1, m \in T
      PROVE  m + 1 \in T
  <2>1. m + 1 \in 1 .. num /\ m + 1 \in 0 .. num /\ b \in Nat /\ b > 1 /\ b <= 16
    OBVIOUS
  <2> DEFINE n == m + 1
             q == n \div b
             r == n % b
  <2>2. /\ q \in 0 .. m /\ r \in 0 .. b - 1 /\ n = q * b + r /\ q \in 0 .. num
        /\ n \in 1 .. num /\ r \in 0 .. 15
    <3>1. n \in Nat /\ n > 0
      OBVIOUS
    <3> HIDE DEF n
    <3>2. q \in Nat /\ r \in 0 .. b - 1 /\ n = q * b + r /\ q < n
      BY <2>1, <3>1, Division
    <3> HIDE DEF q, r
    <3> QED BY <2>1, <3>2 DEF n
  <2>3. f[n] = Append(f[q], Symbol(upper, r))
    BY <2>2 DEF Spells
  <2>4. f[q] \in Seq(Chars) /\ Symbol(upper, r) \in Chars /\ f[n] \in Seq(Chars)
    <3>1. n \in 0 .. num
      BY <2>1
    <3> HIDE DEF n, q, r
    <3> QED BY <2>2, <3>1, SymbolIs
  <2>41. P!digit_value(Symbol(upper, r)) = r
    BY <2>2, DigitRead
  <2>42. Good(q)
    BY <1>2, <2>2
  <2> HIDE DEF n, q, r
  <2>5. PICK y, z, c : y = f[q] /\ z = f[n] /\ c = Symbol(upper, r)
    OBVIOUS
  <2>6. /\ z = Append(y, c) /\ y \in Seq(Chars) /\ c \in Chars
        /\ P!digit_value(c) = r
    BY <2>3, <2>4, <2>41, <2>5
  <2>7. /\ Len(z) = Len(y) + 1 /\ Len(y) \in Nat /\ z[Len(y) + 1] = c
        /\ \A k \in 1 .. Len(y) : z[k] = y[k]
    BY ONLY <2>6
  <2>8. Good(n)
    <3> SUFFICES ASSUME p + Len(z) <= Len(x), \A k \in 1 .. Len(z) : x[p + k] = z[k]
                 PROVE  U[p + Len(z)] = n
      BY <2>5 DEF Stands
    <3>0. Len(x) \in Nat
      OBVIOUS
    <3>1. p + Len(y) <= Len(x) /\ \A k \in 1 .. Len(y) : x[p + k] = y[k]
      <4>1. \A k \in 1 .. Len(y) : k \in 1 .. Len(z)
        BY <2>7
      <4> QED BY <2>7, <3>0, <4>1
    <3>2. U[p + Len(y)] = q
      BY <2>42, <2>5, <3>1 DEF Stands
    <3>3. x[p + (Len(y) + 1)] = c
      <4>1. Len(y) + 1 \in 1 .. Len(z)
        BY <2>7
      <4> QED BY <2>7, <4>1
    <3>4. p + (Len(y) + 1) \in 1 .. Len(x) /\ p + (Len(y) + 1) - 1 = p + Len(y)
      BY <2>7, <3>0
    <3>5. U[p + (Len(y) + 1)] = q * b + r
      <4>1. r # -1
        BY <2>2
      <4>2. U[p + (Len(y) + 1)] =
              IF P!digit_value(x[p + (Len(y) + 1)]) = -1 THEN U[p + (Len(y) + 1) - 1]
              ELSE U[p + (Len(y) + 1) - 1] * b + P!digit_value(x[p + (Len(y) + 1)])
        <5>1. \A i \in 1 .. Len(x) :
                U[i] = IF P!digit_value(x[i]) = -1 THEN U[i - 1]
                       ELSE U[i - 1] * b + P!digit_value(x[i])
          BY DEF Reads
        <5>2. PICK at : at = p + (Len(y) + 1)
          OBVIOUS
        <5>3. at \in 1 .. Len(x)
          BY <3>4, <5>2
        <5>4. U[at] = IF P!digit_value(x[at]) = -1 THEN U[at - 1]
                      ELSE U[at - 1] * b + P!digit_value(x[at])
          BY ONLY <5>1, <5>3
        <5> QED BY <5>2, <5>4
      <4>3. P!digit_value(x[p + (Len(y) + 1)]) = r
        BY <2>6, <3>3
      <4>4. U[p + (Len(y) + 1) - 1] = q
        BY <3>2, <3>4
      <4> QED BY ONLY <4>1, <4>2, <4>3, <4>4
    <3> QED BY <2>2, <2>7, <3>5
  <2>9. ASSUME NEW i \in 0 .. n
        PROVE  Good(i)
    <3>1. CASE i = n
      BY <2>8, <3>1
    <3>2. CASE i # n
      <4>1. i \in 0 .. m
        BY <3>2 DEF n
      <4> QED BY <1>2, <4>1
    <3> QED BY <3>1, <3>2
  <2> HIDE DEF Good
  <2> QED BY <2>1, <2>9 DEF n
<1>3. 0 .. num \subseteq T
  <2> HIDE DEF T
  <2>1. 0 \in Int /\ num \in Int
    OBVIOUS
  <2> QED BY <1>1, <1>2, <2>1, IntervalInduction
<1>4. Good(num)
  <2>1. num \in 0 .. num
    OBVIOUS
  <2> HIDE DEF Good
  <2> QED BY <1>3, <2>1
<1> QED BY <1>4

\* There is nothing but digits in them.
LEMMA DigitsAre ==
  ASSUME NEW num \in Nat, NEW b \in {10, 16}, NEW upper \in BOOLEAN
  PROVE  /\ P!digits(num, b, upper) \in Seq(Chars)
         /\ \A k \in 1 .. Len(P!digits(num, b, upper)) :
              P!digits(num, b, upper)[k] \in {Symbol(upper, j) : j \in 0 .. 15}
<1> DEFINE Q == {Symbol(upper, j) : j \in 0 .. 15}
<1>1. PICK f \in [0 .. num -> Seq(Chars)] :
        /\ Spells(f, b, upper, num)
        /\ P!digits(num, b, upper) = IF num = 0 THEN <<"0">> ELSE f[num]
  BY DigitsHas
<1> DEFINE T == {m \in 0 .. num : \A n \in 0 .. m : f[n] \in Seq(Q)}
<1>2. 0 \in T
  <2>1. f[0] = <<>> /\ 0 \in 0 .. num
    BY <1>1 DEF Spells
  <2>2. <<>> \in Seq(Q)
    OBVIOUS
  <2>3. ASSUME NEW n \in 0 .. 0
        PROVE  f[n] \in Seq(Q)
    <3>1. n = 0
      OBVIOUS
    <3> QED BY <2>1, <2>2, <3>1
  <2> QED BY <2>1, <2>3
<1>3. ASSUME NEW m \in 0 .. num - 1, m \in T
      PROVE  m + 1 \in T
  <2>1. m + 1 \in 1 .. num /\ m + 1 \in 0 .. num /\ b \in Nat /\ b > 1 /\ b <= 16
    OBVIOUS
  <2>2. (m + 1) \div b \in 0 .. m /\ (m + 1) % b \in 0 .. 15
    <3>1. m + 1 \in Nat /\ m + 1 > 0
      OBVIOUS
    <3>2. (m + 1) \div b \in Nat /\ (m + 1) % b \in 0 .. b - 1 /\ (m + 1) \div b < m + 1
      BY <2>1, <3>1, Division
    <3> QED BY <2>1, <3>2
  <2>3. PICK y, c : y = f[(m + 1) \div b] /\ c = Symbol(upper, (m + 1) % b)
    OBVIOUS
  <2>4. y \in Seq(Q) /\ c \in Q /\ f[m + 1] = Append(y, c)
    <3>1. f[m + 1] = Append(f[(m + 1) \div b], Symbol(upper, (m + 1) % b))
      BY <1>1, <2>1 DEF Spells
    <3>2. y \in Seq(Q)
      BY <1>3, <2>2, <2>3
    <3>3. c \in Q
      BY <2>2, <2>3
    <3> QED BY <2>3, <3>1, <3>2, <3>3
  <2> HIDE DEF Q
  <2>5. Append(y, c) \in Seq(Q)
    BY ONLY <2>4
  <2>6. ASSUME NEW n \in 0 .. m + 1
        PROVE  f[n] \in Seq(Q)
    <3>1. CASE n = m + 1
      BY <2>4, <2>5, <3>1
    <3>2. CASE n # m + 1
      <4>1. n \in 0 .. m
        BY <3>2
      <4> QED BY <1>3, <4>1
    <3> QED BY <3>1, <3>2
  <2> QED BY <2>1, <2>6
<1>4. 0 .. num \subseteq T
  <2> HIDE DEF T
  <2>1. 0 \in Int /\ num \in Int
    OBVIOUS
  <2> QED BY <1>2, <1>3, <2>1, IntervalInduction
<1>5. f[num] \in Seq(Q)
  <2>1. num \in 0 .. num /\ num \in T
    <3>1. num \in 0 .. num
      OBVIOUS
    <3> HIDE DEF T
    <3> QED BY <1>4, <3>1
  <2> QED BY <2>1
<1>6. Symbol(upper, 0) = "0" /\ Symbol(upper, 0) \in Q
  <2>1. 0 \in 0 .. 15
    OBVIOUS
  <2> QED BY <2>1, SymbolIs
<1>7. Q \subseteq Chars
  <2>1. \A j \in 0 .. 15 : Symbol(upper, j) \in Chars
    BY SymbolIs
  <2> QED BY <2>1
<1> HIDE DEF Q
<1>8. PICK x : x = P!digits(num, b, upper)
  OBVIOUS
<1>9. x \in Seq(Q)
  <2>1. "0" \in Q
    BY <1>6
  <2>2. <<"0">> \in Seq(Q)
    BY ONLY <2>1
  <2> QED BY <1>1, <1>5, <1>8, <2>2
<1>10. x \in Seq(Chars) /\ \A k \in 1 .. Len(x) : x[k] \in Q
  BY ONLY <1>7, <1>9
<1> QED BY <1>8, <1>10 DEF Q

\* A field x: p fillers, the digits y of num, and blanks.
Field(num, b, upper, y, x, p) ==
  /\ num \in Nat /\ b \in {10, 16} /\ upper \in BOOLEAN
  /\ y \in Seq(Chars) /\ y = P!digits(num, b, upper)
  /\ x \in Seq(Chars) /\ p \in Nat /\ Stands(y, x, p)
  /\ \A i \in 1 .. p : x[i] \in Fillers
  /\ \A i \in p + Len(y) + 1 .. Len(x) : x[i] = Blank

\* It is read as num, with the sign that the fillers have.
IsRead(num, b, x, p) ==
  P!read_back(x, b) = IF \E i \in 1 .. p : x[i] = "-" THEN -num ELSE num

\* Every field is.
LEMMA FieldRead ==
  ASSUME NEW num, NEW b, NEW upper, NEW y, NEW x, NEW p, Field(num, b, upper, y, x, p)
  PROVE  IsRead(num, b, x, p)
<1>0. /\ num \in Nat /\ b \in {10, 16} /\ upper \in BOOLEAN
      /\ y \in Seq(Chars) /\ y = P!digits(num, b, upper)
      /\ x \in Seq(Chars) /\ p \in Nat /\ Stands(y, x, p)
      /\ \A i \in 1 .. p : x[i] \in Fillers
      /\ \A i \in p + Len(y) + 1 .. Len(x) : x[i] = Blank
  BY DEF Field
<1> USE <1>0
<1>1. PICK n \in Nat, m \in Nat : n = Len(x) /\ m = Len(y)
  OBVIOUS
<1>11. p + m <= n /\ \A k \in 1 .. m : x[p + k] = y[k]
  BY <1>1 DEF Stands
<1>2. b \in Nat
  OBVIOUS
<1>3. PICK U \in [0 .. n -> Int] :
        /\ Reads(U, x, b)
        /\ P!read_back(x, b) = IF \E i \in DOMAIN x : x[i] = "-" THEN -U[n] ELSE U[n]
  BY <1>1, <1>2, ReadHas
<1>4. U[p] = 0
  <2> DEFINE T == {k \in 0 .. p : U[k] = 0}
  <2>1. 0 <= p => 0 \in T
    BY <1>3 DEF Reads
  <2>2. ASSUME NEW k \in 0 .. p - 1, k \in T
        PROVE  k + 1 \in T
    <3>1. k + 1 \in 1 .. p /\ k + 1 \in 1 .. n /\ (k + 1) - 1 = k /\ k + 1 \in 0 .. p
      BY <1>1, <1>11
    <3>2. U[k + 1] = IF P!digit_value(x[k + 1]) = -1 THEN U[k]
                     ELSE U[k] * b + P!digit_value(x[k + 1])
      BY <1>1, <1>11, <1>3, <3>1 DEF Reads
    <3>3. P!digit_value(x[k + 1]) \in {-1, 0}
      BY <3>1, FillerRead
    <3>4. U[k] = 0
      BY <2>2
    <3>5. U[k + 1] = 0
      BY ONLY <1>2, <3>2, <3>3, <3>4
    <3> QED BY <3>1, <3>5
  <2>3. 0 .. p \subseteq T
    <3> HIDE DEF T
    <3>1. 0 \in Int /\ p \in Int
      OBVIOUS
    <3> QED BY <2>1, <2>2, <3>1, IntervalInduction
  <2>4. p \in 0 .. p
    OBVIOUS
  <2> QED BY <2>3, <2>4
<1>5. U[p + m] = num
  <2>1. PICK f \in [0 .. num -> Seq(Chars)] :
          Spells(f, b, upper, num) /\ y = IF num = 0 THEN <<"0">> ELSE f[num]
    BY DigitsHas
  <2>2. CASE num # 0
    <3>1. y = f[num]
      BY <2>1, <2>2
    <3>2. U[p + Len(f[num])] = num
      <4>1. U \in [0 .. Len(x) -> Int] /\ Reads(U, x, b) /\ U[p] = 0
        BY <1>1, <1>11, <1>3, <1>4
      <4>2. f \in [0 .. num -> Seq(Chars)] /\ Spells(f, b, upper, num) /\ Stands(f[num], x, p)
        BY <2>1, <3>1
      <4>3. Reading(num, b, upper, f, x, U)
        BY <4>1, <4>2 DEF Reading
      <4>4. Stands(f[num], x, p)
        BY <4>2
      <4>5. Has(U, p, 0)
        BY <4>1 DEF Has
      <4>6. p \in Nat
        OBVIOUS
      <4>7. Has(U, p + Len(f[num]), num)
        BY <4>3, <4>4, <4>5, <4>6, DigitsRead, Zenon
      <4> QED BY <4>7 DEF Has
    <3> QED BY <1>1, <1>11, <3>1, <3>2
  <2>3. CASE num = 0
    <3>1. y = <<"0">>
      BY <2>1, <2>3
    <3>2. m = 1 /\ y[1] = "0"
      BY <1>1, <1>11, <3>1
    <3>3. x[p + 1] = "0"
      <4>1. 1 \in 1 .. m
        BY <3>2
      <4> QED BY <1>11, <3>2, <4>1
    <3>4. p + 1 \in 1 .. n /\ (p + 1) - 1 = p
      BY <1>1, <1>11, <3>2
    <3>5. P!digit_value("0") = 0
      BY FillerRead DEF Fillers
    <3>6. U[p + 1] = U[p] * b + 0
      <4>1. U[p + 1] = IF P!digit_value(x[p + 1]) = -1 THEN U[p]
                       ELSE U[p] * b + P!digit_value(x[p + 1])
        BY <1>1, <1>11, <1>3, <3>4 DEF Reads
      <4> QED BY <3>3, <3>5, <4>1
    <3>7. U[p + 1] = 0
      BY ONLY <1>2, <1>4, <3>6
    <3> QED BY <2>3, <3>2, <3>7
  <2> QED BY <2>2, <2>3
<1>6. U[n] = num
  <2> DEFINE T == {k \in p + m .. n : U[k] = num}
  <2>0. p + m <= n /\ p + m \in Int /\ n \in Int
    BY <1>1, <1>11
  <2>1. p + m <= n => p + m \in T
    BY <1>5, <2>0
  <2>2. ASSUME NEW k \in p + m .. n - 1, k \in T
        PROVE  k + 1 \in T
    <3>1. /\ k + 1 \in p + m + 1 .. n /\ k + 1 \in 1 .. n /\ (k + 1) - 1 = k
          /\ k + 1 \in p + m .. n
      BY <2>0
    <3>2. U[k + 1] = IF P!digit_value(x[k + 1]) = -1 THEN U[k]
                     ELSE U[k] * b + P!digit_value(x[k + 1])
      BY <1>1, <1>11, <1>3, <3>1 DEF Reads
    <3>3. x[k + 1] = Blank
      BY <1>1, <1>11, <3>1
    <3>4. P!digit_value(Blank) = -1
      <4>1. Blank \in Fillers
        BY DEF Fillers
      <4>2. Blank # "0"
        BY Zenon DEF Blank
      <4> QED BY <4>1, <4>2, FillerRead
    <3>5. U[k + 1] = U[k]
      BY <3>2, <3>3, <3>4
    <3> QED BY <2>2, <3>1, <3>5
  <2>3. p + m .. n \subseteq T
    <3> HIDE DEF T
    <3> QED BY <2>0, <2>1, <2>2, IntervalInduction
  <2>4. n \in p + m .. n
    BY <2>0
  <2> QED BY <2>3, <2>4
<1>7. (\E i \in DOMAIN x : x[i] = "-") <=> (\E i \in 1 .. p : x[i] = "-")
  <2>1. DOMAIN x = 1 .. n /\ p <= n
    BY <1>1, <1>11
  <2>2. ASSUME NEW i \in 1 .. n, x[i] = "-"
        PROVE  i \in 1 .. p
    <3>1. CASE i \in p + 1 .. p + m
      <4>1. i - p \in 1 .. m /\ p + (i - p) = i
        BY <3>1
      <4>2. x[i] = y[i - p]
        BY <1>1, <1>11, <4>1
      <4>3. y[i - p] \in {Symbol(upper, j) : j \in 0 .. 15}
        BY <1>1, <1>11, <4>1, DigitsAre
      <4>4. \A j \in 0 .. 15 : Symbol(upper, j) # "-"
        BY SymbolsDiffer
      <4> QED BY <2>2, <4>2, <4>3, <4>4
    <3>2. CASE i \in p + m + 1 .. n
      <4>1. x[i] = Blank
        BY <1>1, <1>11, <3>2
      <4>2. Blank # "-"
        BY Zenon DEF Blank
      <4> QED BY <2>2, <4>1, <4>2
    <3> QED BY <3>1, <3>2
  <2>3. 1 .. p \subseteq 1 .. n
    BY <2>1
  <2> QED BY <2>1, <2>2, <2>3
<1> QED BY <1>3, <1>6, <1>7 DEF IsRead

\* The loops of sprint_int, with the names it gives to their parts.
Sign(num, flags) ==
  IF "sign" \in flags /\ num < 0 THEN <<"-">>
  ELSE IF "plus" \in flags
  THEN <<IF "space" \in flags THEN " " ELSE "+">>
  ELSE <<>>
Alternate(flags) == IF "alternate" \in flags THEN <<"0", "x">> ELSE <<>>
Prefix(num, flags) == Sign(num, flags) \o Alternate(flags)

\* The prefix has fillers only, and a "-" just for a negative number.
LEMMA PrefixIs ==
  ASSUME NEW num \in Int, NEW flags, num >= 0 \/ "sign" \in flags
  PROVE  /\ Prefix(num, flags) \in Seq(Fillers)
         /\ (\E i \in 1 .. Len(Prefix(num, flags)) : Prefix(num, flags)[i] = "-") <=> num < 0
<1>1. PICK x, y : x = Sign(num, flags) /\ y = Alternate(flags)
  OBVIOUS
<1>2. /\ "0" \in Fillers /\ Blank \in Fillers /\ "-" \in Fillers
      /\ "+" \in Fillers /\ "x" \in Fillers
  BY DEF Fillers
<1>3. /\ y \in Seq(Fillers) /\ \A i \in 1 .. Len(y) : y[i] # "-"
  <2>1. CASE "alternate" \in flags
    <3>1. y = <<"0", "x">>
      BY <1>1, <2>1 DEF Alternate
    <3> QED BY <1>2, <3>1
  <2>2. CASE "alternate" \notin flags
    <3>1. y = <<>>
      BY <1>1, <2>2 DEF Alternate
    <3> QED BY <3>1
  <2> QED BY <2>1, <2>2
<1>4. x \in Seq(Fillers) /\ ((\E i \in 1 .. Len(x) : x[i] = "-") <=> num < 0)
  <2>1. CASE num < 0
    <3>1. x = <<"-">>
      <4>1. "sign" \in flags
        BY <2>1
      <4> QED BY <1>1, <2>1, <4>1, Zenon DEF Sign
    <3>2. Len(x) = 1 /\ x[1] = "-" /\ 1 \in 1 .. 1
      BY <3>1
    <3> QED BY <1>2, <2>1, <3>1, <3>2
  <2>2. CASE num >= 0
    <3>1. x = <<Blank>> \/ x = <<"+">> \/ x = <<>>
      <4>1. ~(num < 0)
        BY <2>2
      <4> QED BY <1>1, <4>1, Zenon DEF Sign, Blank
    <3>2. Blank # "-"
      BY Zenon DEF Blank
    <3>3. x \in Seq(Fillers)
      <4>1. <<Blank>> \in Seq(Fillers) /\ <<"+">> \in Seq(Fillers)
        BY <1>2
      <4>2. CASE x = <<Blank>>
        BY <4>1, <4>2
      <4>3. CASE x = <<"+">>
        BY <4>1, <4>3
      <4>4. CASE x = <<>>
        BY <4>4
      <4> QED BY <3>1, <4>2, <4>3, <4>4
    <3>4. \A i \in 1 .. Len(x) : x[i] # "-"
      <4>1. CASE x = <<Blank>>
        BY <3>2, <4>1
      <4>2. CASE x = <<"+">>
        BY <4>2
      <4>3. CASE x = <<>>
        BY <4>3
      <4> QED BY <3>1, <4>1, <4>2, <4>3
    <3> QED BY <2>2, <3>3, <3>4
  <2> QED BY <2>1, <2>2
<1>5. PICK z : z = x \o y
  OBVIOUS
<1>6. /\ z \in Seq(Fillers) /\ Len(z) = Len(x) + Len(y) /\ Len(x) \in Nat /\ Len(y) \in Nat
      /\ \A i \in 1 .. Len(x) : z[i] = x[i]
      /\ \A i \in Len(x) + 1 .. Len(x) + Len(y) : i - Len(x) \in 1 .. Len(y) /\ z[i] = y[i - Len(x)]
  <2>1. x \in Seq(Fillers) /\ y \in Seq(Fillers)
    BY <1>3, <1>4
  <2> QED BY ONLY <2>1, <1>5, BothHave
<1>7. (\E i \in 1 .. Len(z) : z[i] = "-") <=> (\E i \in 1 .. Len(x) : x[i] = "-")
  <2>1. ASSUME NEW i \in 1 .. Len(x), x[i] = "-"
        PROVE  \E j \in 1 .. Len(z) : z[j] = "-"
    <3>1. i \in 1 .. Len(z) /\ z[i] = "-"
      BY <1>6, <2>1
    <3> QED BY <3>1
  <2>2. ASSUME NEW i \in 1 .. Len(z), z[i] = "-"
        PROVE  \E j \in 1 .. Len(x) : x[j] = "-"
    <3>1. CASE i \in 1 .. Len(x)
      BY <1>6, <2>2, <3>1
    <3>2. CASE i \notin 1 .. Len(x)
      <4>1. i \in Len(x) + 1 .. Len(x) + Len(y)
        BY <1>6, <3>2
      <4> QED BY <1>3, <1>6, <2>2, <4>1
    <3> QED BY <3>1, <3>2
  <2> QED BY <2>1, <2>2
<1>8. z = Prefix(num, flags)
  BY <1>1, <1>5 DEF Prefix
<1> QED BY <1>4, <1>6, <1>7, <1>8

\* The same character over and over.
LEMMA TimesIs ==
  ASSUME NEW A, NEW c \in A, NEW n \in Nat
  PROVE  /\ P!times(n, c) \in Seq(A) /\ Len(P!times(n, c)) = n
         /\ \A i \in 1 .. n : P!times(n, c)[i] = c
<1>1. PICK x : x = [i \in 1 .. n |-> c]
  OBVIOUS
<1>2. x \in Seq(A) /\ Len(x) = n /\ \A i \in 1 .. n : x[i] = c
  BY <1>1
<1>3. P!times(n, c) = x
  BY <1>1 DEF P!times
<1> QED BY <1>2, <1>3

\* The characters a number takes if the width asks for none.
Bare(num, b, pr, flags) ==
  Len(Prefix(num, flags))
    + P!largest(pr, Len(P!digits(IF num < 0 THEN -num ELSE num, b, "upper" \in flags)))

\* x, y and z are what the three loops of sprint_int print: fillers with a
\* minus if num is negative, the digits, and blanks.
Sprints(x, y, z, num, b, w, pr, flags) ==
  /\ x \in Seq(Chars) /\ y \in Seq(Chars) /\ z \in Seq(Chars)
  /\ P!sprint_int(num, b, w, pr, flags) =
       << P!loop("plain", x), P!loop("once", y), P!loop("plain", z) >>
  /\ y = P!digits(IF num < 0 THEN -num ELSE num, b, "upper" \in flags)
  /\ Len(x) + Len(y) + Len(z) = P!largest(w, Bare(num, b, pr, flags))
  /\ \A i \in 1 .. Len(x) : x[i] \in Fillers
  /\ (\E i \in 1 .. Len(x) : x[i] = "-") <=> num < 0
  /\ \A i \in 1 .. Len(z) : z[i] = Blank

\* sprint_int makes its number of three such pieces, whatever the flags
\* are.
LEMMA SprintIs ==
  ASSUME NEW num \in Int, NEW b \in {10, 16}, NEW w \in Nat, NEW pr \in Nat, NEW flags,
         num >= 0 \/ "sign" \in flags
  PROVE  \E x, y, z : Sprints(x, y, z, num, b, w, pr, flags)
<1> DEFINE negative == "sign" \in flags /\ num < 0
           y == P!digits(IF negative THEN -num ELSE num, b, "upper" \in flags)
           prefix == Prefix(num, flags)
           wanted == P!largest(pr, Len(y))
           fill == P!padding(w, prefix, wanted)
           before_ == IF "left" \in flags THEN 0 ELSE fill
           zero == IF "zeropad" \in flags THEN "0" ELSE " "
           zeros == P!times(before_ + wanted - Len(y), zero)
           x == prefix \o zeros
           z == P!times(fill - before_, " ")
<1>1. P!sprint_int(num, b, w, pr, flags) =
        << P!loop("plain", x), P!loop("once", y), P!loop("plain", z) >>
  BY Zenon DEF P!sprint_int, Sign, Alternate, Prefix
<1>2. /\ y = P!digits(IF num < 0 THEN -num ELSE num, b, "upper" \in flags)
      /\ y \in Seq(Chars)
  <2>1. negative <=> num < 0
    OBVIOUS
  <2>2. PICK absolute \in Nat : absolute = IF num < 0 THEN -num ELSE num
    OBVIOUS
  <2>3. y = P!digits(absolute, b, "upper" \in flags)
    BY <2>1, <2>2
  <2>4. ("upper" \in flags) \in BOOLEAN
    OBVIOUS
  <2> HIDE DEF y
  <2>5. y \in Seq(Chars)
    BY <2>3, <2>4, DigitsAre
  <2> QED BY <2>2, <2>3, <2>5
<1>3. /\ prefix \in Seq(Fillers)
      /\ (\E i \in 1 .. Len(prefix) : prefix[i] = "-") <=> num < 0
  BY PrefixIs
<1>4. zero \in Fillers \ {"-"} /\ " " = Blank /\ Blank \in Fillers
  <2>1. "0" # "-" /\ " " # "-" /\ Blank = " "
    BY Zenon DEF Blank
  <2> QED BY <2>1, Zenon DEF Fillers
<1>5. Bare(num, b, pr, flags) = Len(prefix) + wanted
  <2> HIDE DEF y
  <2> QED BY <1>2 DEF Bare
<1> HIDE DEF y, prefix, zero
<1>6. /\ Len(y) \in Nat /\ Len(prefix) \in Nat /\ wanted \in Nat /\ wanted >= Len(y)
      /\ fill \in Nat /\ before_ \in Nat /\ before_ <= fill
      /\ Len(prefix) + wanted + fill = P!largest(w, Len(prefix) + wanted)
  <2>1. Len(y) \in Nat /\ Len(prefix) \in Nat
    BY <1>2, <1>3
  <2>2. wanted \in Nat /\ wanted >= Len(y)
    BY <2>1 DEF P!largest
  <2> HIDE DEF wanted
  <2>3. fill = IF w - Len(prefix) - wanted < 0 THEN 0 ELSE w - Len(prefix) - wanted
    BY DEF P!padding, P!largest
  <2>4. fill \in Nat
    BY <2>1, <2>2, <2>3
  <2>5. Len(prefix) + wanted + fill = IF w < Len(prefix) + wanted THEN Len(prefix) + wanted ELSE w
    <3>1. PICK m, k, l : m = Len(prefix) /\ k = wanted /\ l = fill
      OBVIOUS
    <3>2. /\ m \in Nat /\ k \in Nat /\ w \in Nat
          /\ l = IF w - m - k < 0 THEN 0 ELSE w - m - k
      BY <2>1, <2>2, <2>3, <3>1
    <3>3. m + k + l = IF w < m + k THEN m + k ELSE w
      BY ONLY <3>2
    <3> HIDE DEF fill
    <3> QED BY <3>1, <3>3
  <2> HIDE DEF fill
  <2> QED BY <2>1, <2>2, <2>4, <2>5 DEF P!largest
<1> HIDE DEF wanted, fill, before_
<1>7. /\ zeros \in Seq(Fillers) /\ Len(zeros) = before_ + wanted - Len(y)
      /\ \A i \in 1 .. Len(zeros) : zeros[i] # "-"
  <2>0. before_ + wanted - Len(y) \in Nat
    BY <1>6
  <2>1. PICK n \in Nat : n = before_ + wanted - Len(y)
    BY <2>0
  <2>2. zeros = P!times(n, zero) /\ zero \in Fillers
    BY <2>1, <1>4
  <2> HIDE DEF zeros
  <2>3. /\ zeros \in Seq(Fillers) /\ Len(zeros) = n
        /\ \A i \in 1 .. n : zeros[i] = zero
    BY <2>2, TimesIs
  <2> QED BY <1>4, <2>1, <2>3
<1>8. /\ z \in Seq(Fillers) /\ Len(z) = fill - before_
      /\ \A i \in 1 .. Len(z) : z[i] = Blank
  <2>1. PICK n \in Nat : n = fill - before_
    BY <1>6
  <2>2. z = P!times(n, Blank) /\ Blank \in Fillers
    BY <2>1, <1>4, Zenon
  <2> HIDE DEF z
  <2>3. /\ z \in Seq(Fillers) /\ Len(z) = n
        /\ \A i \in 1 .. n : z[i] = Blank
    BY <2>2, TimesIs
  <2> QED BY <2>1, <2>3
<1> HIDE DEF zeros, z
<1>9. /\ x \in Seq(Fillers) /\ Len(x) = Len(prefix) + Len(zeros) /\ Len(zeros) \in Nat
      /\ \A i \in 1 .. Len(prefix) : x[i] = prefix[i]
      /\ \A i \in Len(prefix) + 1 .. Len(prefix) + Len(zeros) :
           i - Len(prefix) \in 1 .. Len(zeros) /\ x[i] = zeros[i - Len(prefix)]
  <2>1. prefix \in Seq(Fillers) /\ zeros \in Seq(Fillers)
    BY <1>3, <1>7
  <2> QED BY ONLY <2>1, BothHave DEF x
<1> HIDE DEF x
<1>10. (\E i \in 1 .. Len(x) : x[i] = "-") <=> num < 0
  <2>1. ASSUME NEW i \in 1 .. Len(prefix), prefix[i] = "-"
        PROVE  \E j \in 1 .. Len(x) : x[j] = "-"
    <3>1. i \in 1 .. Len(x) /\ x[i] = "-"
      BY <1>6, <1>9, <2>1
    <3> QED BY <3>1
  <2>2. ASSUME NEW i \in 1 .. Len(x), x[i] = "-"
        PROVE  \E j \in 1 .. Len(prefix) : prefix[j] = "-"
    <3>1. CASE i \in 1 .. Len(prefix)
      BY <1>9, <2>2, <3>1
    <3>2. CASE i \notin 1 .. Len(prefix)
      <4>1. i \in Len(prefix) + 1 .. Len(prefix) + Len(zeros)
        BY <1>6, <1>9, <3>2
      <4> QED BY <1>7, <1>9, <2>2, <4>1
    <3> QED BY <3>1, <3>2
  <2> QED BY <1>3, <2>1, <2>2
<1>11. \A i \in 1 .. Len(x) : x[i] \in Fillers
  BY <1>9
<1>12. x \in Seq(Chars) /\ z \in Seq(Chars)
  BY <1>8, <1>9, FillersTyped
<1>13. Len(x) + Len(y) + Len(z) = P!largest(w, Bare(num, b, pr, flags))
  <2>1. Len(x) + Len(y) + Len(z) = Len(prefix) + wanted + fill
    <3>1. PICK i, j, k, l : /\ i = Len(x) /\ j = Len(y) /\ k = Len(z) /\ l = Len(prefix)
                            /\ i = l + (before_ + wanted - j) /\ k = fill - before_
      BY <1>7, <1>8, <1>9
    <3>2. /\ j \in Nat /\ l \in Nat /\ wanted \in Nat /\ fill \in Nat /\ before_ \in Nat
      BY <1>6, <3>1
    <3> QED BY ONLY <3>1, <3>2
  <2> QED BY <1>5, <1>6, <2>1
<1>14. Sprints(x, y, z, num, b, w, pr, flags)
  BY <1>1, <1>2, <1>8, <1>10, <1>11, <1>12, <1>13 DEF Sprints
<1> QED BY <1>14

-----------------------------------------------------------------------------
(* Directives.                                                             *)

\* The argument arg is one that the directive dir can print.
Suits(dir, arg) ==
  P!takes(dir) => arg \in CASE dir.type = "c" -> Chars
                            [] dir.type = "s" -> Seq(Chars)
                            [] OTHER -> Int

\* The fields a directive has, by its type.
LEMMA DirectiveFields ==
  ASSUME NEW dir \in P!Directives
  PROVE  /\ dir.type \in {"char", "c", "s", "%", "?"} \cup P!Numbers
         /\ dir.type = "char" => dir.char \in Chars
         /\ dir.type = "s" => dir.precision \in Int \cup {NULL}
         /\ dir.type = "?" => dir.char \in Chars
         /\ dir.type \in P!Numbers =>
              /\ dir.flags \in SUBSET P!Flags /\ dir.length \in {1, 2, 4, 8}
              /\ dir.width \in Int \cup {NULL} /\ dir.precision \in Int \cup {NULL}
              /\ dir = [type |-> dir.type, flags |-> dir.flags, width |-> dir.width,
                        precision |-> dir.precision, length |-> dir.length]
<1>1. CASE dir \in [type : {"char"}, char : Chars \ {"%"}]
  BY <1>1 DEF P!Numbers
<1>2. CASE dir \in [type : P!Numbers, flags : SUBSET P!Flags, width : Int \cup {NULL},
                    precision : Int \cup {NULL}, length : {1, 2, 4, 8}]
  BY <1>2 DEF P!Numbers
<1>3. CASE dir \in [type : {"c", "%"}]
  BY <1>3 DEF P!Numbers
<1>4. CASE dir \in [type : {"s"}, precision : Int \cup {NULL}]
  BY <1>4 DEF P!Numbers
<1>5. CASE dir \in [type : {"?"}, char : Chars \ P!Known]
  BY <1>5 DEF P!Numbers
<1> QED BY <1>1, <1>2, <1>3, <1>4, <1>5 DEF P!Directives

\* What the length leaves of a number.
LEMMA TruncatedIs ==
  ASSUME NEW n \in Int, NEW bytes \in {1, 2, 4, 8}, NEW signed \in BOOLEAN
  PROVE  /\ P!truncated(n, bytes, signed) \in Int
         /\ ~signed => P!truncated(n, bytes, signed) >= 0
<1>1. ASSUME NEW m \in Nat, m > 0
      PROVE  LET r == n % m IN
               /\ (IF signed /\ r >= m \div 2 THEN r - m ELSE r) \in Int
               /\ ~signed => (IF signed /\ r >= m \div 2 THEN r - m ELSE r) >= 0
  <2>1. n % m \in Nat
    BY <1>1
  <2> QED BY <1>1, <2>1
<1>2. (2 ^ (4 * bytes)) * (2 ^ (4 * bytes)) \in Nat \ {0}
  <2>1. 2 ^ (4 * bytes) \in Nat /\ 2 ^ (4 * bytes) > 0
    <3>1. CASE bytes = 1
      BY <3>1
    <3>2. CASE bytes = 2
      BY <3>2
    <3>3. CASE bytes = 4
      BY <3>3
    <3>4. CASE bytes = 8
      BY <3>4
    <3> QED BY <3>1, <3>2, <3>3, <3>4
  <2>2. PICK h \in Nat : h = 2 ^ (4 * bytes) /\ h > 0
    BY <2>1
  <2>3. h * h \in Nat \ {0}
    BY <2>2
  <2> QED BY <2>2, <2>3
<1>3. PICK m : m = (2 ^ (4 * bytes)) * (2 ^ (4 * bytes))
  OBVIOUS
<1>4. P!truncated(n, bytes, signed) =
        LET r == n % m IN IF signed /\ r >= m \div 2 THEN r - m ELSE r
  BY <1>3, Zenon DEF P!truncated
<1>5. m \in Nat /\ m > 0
  BY <1>2, <1>3
<1> QED BY <1>1, <1>4, <1>5

\* How a number is printed.
LEMMA NumberIs ==
  ASSUME NEW dir \in P!Directives, dir.type \in P!Numbers
  PROVE  /\ P!number(dir)[1] \in {10, 16} /\ P!number(dir)[3] \in Nat
         /\ "sign" \in P!number(dir)[2] <=> dir.type = "d"
         /\ P!width(dir) \in Nat /\ P!given(dir, P!number(dir)[3]) \in Nat
<1>1. /\ dir.flags \subseteq P!Flags
      /\ dir.width \in Int \cup {NULL} /\ dir.precision \in Int \cup {NULL}
  BY DirectiveFields
<1>2. "sign" \notin dir.flags
  BY <1>1 DEF P!Flags
<1>3. "sign" \notin P!hex(dir.flags)
  BY <1>2 DEF P!hex
<1>4. /\ P!number(dir)[1] \in {10, 16} /\ P!number(dir)[3] \in Nat
      /\ "sign" \in P!number(dir)[2] <=> dir.type = "d"
  <2>1. CASE dir.type = "d"
    <3>1. P!number(dir) = <<10, dir.flags \cup {"sign"}, 0>>
      BY <2>1 DEF P!number
    <3> QED BY <2>1, <3>1
  <2>2. CASE dir.type = "u"
    <3>1. P!number(dir) = <<10, dir.flags, 0>>
      BY <2>2 DEF P!number
    <3> QED BY <1>2, <2>2, <3>1
  <2>3. CASE dir.type = "x"
    <3>1. P!number(dir) = <<16, P!hex(dir.flags), 0>>
      BY <2>3 DEF P!number
    <3> QED BY <1>3, <2>3, <3>1
  <2>4. CASE dir.type = "X"
    <3>1. P!number(dir) = <<16, P!hex(dir.flags) \cup {"upper"}, 0>>
      BY <2>4 DEF P!number
    <3> QED BY <1>3, <2>4, <3>1
  <2>5. CASE dir.type = "p"
    <3>1. P!number(dir) = <<16, P!hex(dir.flags) \cup {"upper", "alternate"}, 8>>
      BY <2>5 DEF P!number
    <3> QED BY <1>3, <2>5, <3>1
  <2> QED BY <2>1, <2>2, <2>3, <2>4, <2>5 DEF P!Numbers
<1>5. P!width(dir) \in Nat
  BY <1>1, NullAssumption DEF P!width
<1>6. P!given(dir, P!number(dir)[3]) \in Nat
  BY <1>1, <1>4, NullAssumption DEF P!given, P!largest
<1> QED BY <1>4, <1>5, <1>6

\* The number that dir prints of arg.
Printed(dir, arg) == P!truncated(arg, dir.length, dir.type = "d")

\* The loops of a number's directive print the three pieces of sprint_int.
LEMMA NumberPrinted ==
  ASSUME NEW dir \in P!Directives, dir.type \in P!Numbers, NEW arg \in Int
  PROVE  /\ Printed(dir, arg) \in Int
         /\ \E x, y, z :
              /\ Sprints(x, y, z, Printed(dir, arg), P!number(dir)[1], P!width(dir),
                         P!given(dir, P!number(dir)[3]), P!number(dir)[2])
              /\ P!directive(dir, arg) =
                   << P!loop("plain", x), P!loop("once", y), P!loop("plain", z) >>
<1>1. PICK num, b, w, pr, flags :
        /\ num = Printed(dir, arg) /\ b = P!number(dir)[1] /\ w = P!width(dir)
        /\ pr = P!given(dir, P!number(dir)[3]) /\ flags = P!number(dir)[2]
  OBVIOUS
<1>2. /\ b \in {10, 16} /\ w \in Nat /\ pr \in Nat
      /\ "sign" \in flags <=> dir.type = "d"
  BY <1>1, NumberIs
<1>3. num \in Int /\ (num >= 0 \/ "sign" \in flags)
  <2>1. dir.length \in {1, 2, 4, 8} /\ (dir.type = "d") \in BOOLEAN
    BY DirectiveFields
  <2> QED BY <1>1, <1>2, <2>1, TruncatedIs DEF Printed
<1>4. PICK x, y, z : Sprints(x, y, z, num, b, w, pr, flags)
  BY <1>2, <1>3, SprintIs
<1>5. P!directive(dir, arg) = P!sprint_int(num, b, w, pr, flags)
  <2>1. dir.type # "char"
    BY DEF P!Numbers
  <2>2. P!directive(dir, arg) =
          P!sprint_int(P!truncated(arg, dir.length, dir.type = "d"), P!number(dir)[1],
                       P!width(dir), P!given(dir, P!number(dir)[3]), P!number(dir)[2])
    BY <2>1 DEF P!directive, P!Numbers
  <2> QED BY <1>1, <2>2 DEF Printed
<1>6. P!directive(dir, arg) = << P!loop("plain", x), P!loop("once", y), P!loop("plain", z) >>
  BY <1>4, <1>5 DEF Sprints
<1> QED BY <1>1, <1>3, <1>4, <1>6

\* A loop as it starts stands for all its characters.
LEMMA LoopIs ==
  ASSUME NEW kind \in {"plain", "once", "bounded"}, NEW x \in Seq(Chars)
  PROVE  P!loop(kind, x) \in Loops /\ P!meant(P!loop(kind, x)) = x
<1>1. PICK l : l = P!loop(kind, x)
  OBVIOUS
<1>2. l \in Loops /\ l.chars = x /\ l.left = Len(x) /\ Len(x) \in Nat
  BY <1>1 DEF P!loop, Loops
<1>3. PICK y : y = P!meant(l)
  OBVIOUS
<1>4. y \in Seq(Chars) /\ Len(y) = Len(x) /\ \A i \in 1 .. Len(y) : y[i] = x[i]
  BY <1>2, <1>3, MeantIs
<1>5. y = x
  <2>1. x \in Seq(Chars)
    OBVIOUS
  <2> QED BY ONLY <1>4, <2>1, SeqEqual
<1> QED BY <1>1, <1>2, <1>3, <1>5

\* The loops of a directive, and what they stand for.
LEMMA DirectiveIs ==
  ASSUME NEW dir \in P!Directives, NEW arg, Suits(dir, arg)
  PROVE  /\ P!directive(dir, arg) \in Seq(Loops)
         /\ P!stands_for(dir, arg) = P!joined(Meants(P!directive(dir, arg)))
         /\ P!stands_for(dir, arg) \in Seq(Chars)
<1>1. P!stands_for(dir, arg) = P!joined(Meants(P!directive(dir, arg)))
  BY DEF P!stands_for, Meants
<1>2. ASSUME NEW l \in Loops
      PROVE  <<l>> \in Seq(Loops)
  OBVIOUS
<1>3. P!directive(dir, arg) \in Seq(Loops)
  <2>0. dir.type \in P!Numbers =>
          dir.type # "char" /\ dir.type # "c" /\ dir.type # "s" /\ dir.type # "%" /\ dir.type # "?"
    BY DEF P!Numbers
  <2>1. CASE dir.type = "char"
    <3>1. P!directive(dir, arg) = <<P!loop("plain", <<dir.char>>)>>
      <4>1. dir.type \notin P!Numbers
        BY <2>0, <2>1
      <4> QED BY <2>1, <4>1 DEF P!directive
    <3>2. <<dir.char>> \in Seq(Chars)
      <4>1. dir.char \in Chars
        BY <2>1, DirectiveFields
      <4> QED BY ONLY <4>1
    <3> QED BY <1>2, <3>1, <3>2, LoopIs
  <2>2. CASE dir.type \in P!Numbers
    <3>1. arg \in Int
      BY <2>0, <2>2 DEF Suits, P!takes
    <3>2. PICK x, y, z :
            /\ Sprints(x, y, z, Printed(dir, arg), P!number(dir)[1], P!width(dir),
                       P!given(dir, P!number(dir)[3]), P!number(dir)[2])
            /\ P!directive(dir, arg) =
                 << P!loop("plain", x), P!loop("once", y), P!loop("plain", z) >>
      BY <2>2, <3>1, NumberPrinted
    <3>3. /\ P!loop("plain", x) \in Loops /\ P!loop("once", y) \in Loops
          /\ P!loop("plain", z) \in Loops
      <4>1. x \in Seq(Chars) /\ y \in Seq(Chars) /\ z \in Seq(Chars)
        BY <3>2 DEF Sprints
      <4> QED BY <4>1, LoopIs
    <3> QED BY <3>2, <3>3, ThreeHave
  <2>3. CASE dir.type = "c"
    <3>1. P!directive(dir, arg) = <<P!loop("plain", <<arg>>)>>
      BY <2>0, <2>3 DEF P!directive
    <3>2. <<arg>> \in Seq(Chars)
      <4>1. arg \in Chars
        BY <2>3 DEF Suits, P!takes
      <4> QED BY ONLY <4>1
    <3> QED BY <1>2, <3>1, <3>2, LoopIs
  <2>4. CASE dir.type = "s"
    <3>1. arg \in Seq(Chars) /\ dir.precision \in Int \cup {NULL}
      BY <2>4, DirectiveFields DEF Suits, P!takes
    <3>2. CASE dir.precision = NULL
      <4>1. P!directive(dir, arg) = <<P!loop("once", arg)>>
        BY <2>0, <2>4, <3>2 DEF P!directive
      <4> QED BY <1>2, <3>1, <4>1, LoopIs
    <3>3. CASE dir.precision # NULL
      <4>1. PICK l : l = [P!loop("bounded", arg) EXCEPT !.left = P!given(dir, 0)]
        OBVIOUS
      <4>2. P!directive(dir, arg) = <<l>>
        BY <2>0, <2>4, <3>3, <4>1 DEF P!directive
      <4>3. P!given(dir, 0) \in Nat
        BY <3>1, <3>3 DEF P!given, P!largest
      <4>4. l \in Loops
        BY <3>1, <4>1, <4>3, LoopIs DEF Loops
      <4> QED BY <1>2, <4>2, <4>4
    <3> QED BY <3>2, <3>3
  <2>5. CASE dir.type = "%"
    <3>1. P!directive(dir, arg) = <<P!loop("plain", <<"%">>)>>
      BY <2>0, <2>5 DEF P!directive
    <3>2. <<"%">> \in Seq(Chars)
      <4>1. "%" \in Chars
        BY CharsAssumption
      <4> QED BY ONLY <4>1
    <3> QED BY <1>2, <3>1, <3>2, LoopIs
  <2>6. CASE dir.type = "?"
    <3>1. P!directive(dir, arg) = <<P!loop("once", <<"%">>), P!loop("plain", <<dir.char>>)>>
      BY <2>0, <2>6 DEF P!directive
    <3>2. <<"%">> \in Seq(Chars) /\ <<dir.char>> \in Seq(Chars)
      <4>1. "%" \in Chars /\ dir.char \in Chars
        BY <2>6, CharsAssumption, DirectiveFields
      <4> QED BY ONLY <4>1
    <3>3. P!loop("once", <<"%">>) \in Loops /\ P!loop("plain", <<dir.char>>) \in Loops
      BY <3>2, LoopIs
    <3> QED BY <3>1, <3>3, ThreeHave
  <2> QED BY <2>1, <2>2, <2>3, <2>4, <2>5, <2>6, DirectiveFields
<1> QED BY <1>1, <1>3, MeantsIs

\* What a number stands for.
LEMMA NumberStands ==
  ASSUME NEW dir \in P!Directives, dir.type \in P!Numbers, NEW arg \in Int
  PROVE  \E x, y, z :
           /\ Sprints(x, y, z, Printed(dir, arg), P!number(dir)[1], P!width(dir),
                      P!given(dir, P!number(dir)[3]), P!number(dir)[2])
           /\ P!stands_for(dir, arg) = x \o (y \o z)
<1>1. PICK x, y, z :
        /\ Sprints(x, y, z, Printed(dir, arg), P!number(dir)[1], P!width(dir),
                   P!given(dir, P!number(dir)[3]), P!number(dir)[2])
        /\ P!directive(dir, arg) =
             << P!loop("plain", x), P!loop("once", y), P!loop("plain", z) >>
  BY NumberPrinted
<1>2. x \in Seq(Chars) /\ y \in Seq(Chars) /\ z \in Seq(Chars)
  BY <1>1 DEF Sprints
<1>3. PICK l, m, n :
        l = P!loop("plain", x) /\ m = P!loop("once", y) /\ n = P!loop("plain", z)
  OBVIOUS
<1>4. /\ l \in Loops /\ m \in Loops /\ n \in Loops
      /\ P!meant(l) = x /\ P!meant(m) = y /\ P!meant(n) = z
  BY <1>2, <1>3, LoopIs
<1>5. /\ <<l, m, n>> \in Seq(Loops) /\ <<l, m, n>> # <<>>
      /\ Head(<<l, m, n>>) = l /\ Tail(<<l, m, n>>) = <<m, n>>
      /\ <<m, n>> \in Seq(Loops) /\ <<m, n>> # <<>> /\ Head(<<m, n>>) = m
      /\ Tail(<<m, n>>) = <<n>> /\ <<n>> \in Seq(Loops) /\ <<n>> # <<>>
      /\ Head(<<n>>) = n /\ Tail(<<n>>) = <<>>
  BY ONLY <1>4, ThreeHave
<1>6. P!joined(Meants(<<>>)) = <<>>
  <2>1. Meants(<<>>) = <<>>
    BY DEF Meants
  <2> QED BY <2>1, JoinedEmpty
<1>7. P!joined(Meants(<<n>>)) = z \o <<>>
  BY <1>4, <1>5, <1>6, MeantsIs
<1>8. P!joined(Meants(<<m, n>>)) = y \o P!joined(Meants(<<n>>))
  BY <1>4, <1>5, MeantsIs
<1>9. P!joined(Meants(<<l, m, n>>)) = x \o P!joined(Meants(<<m, n>>))
  BY <1>4, <1>5, MeantsIs
<1>10. z \o <<>> = z
  BY ONLY <1>2, ConcatEmptySeq
<1>11. P!stands_for(dir, arg) = P!joined(Meants(<<l, m, n>>))
  BY <1>1, <1>3 DEF P!stands_for, Meants
<1> QED BY <1>1, <1>7, <1>8, <1>9, <1>10, <1>11

\* What a number takes without a width is a number of characters.
LEMMA BareTyped ==
  ASSUME NEW num \in Int, NEW b \in {10, 16}, NEW pr \in Nat, NEW flags,
         num >= 0 \/ "sign" \in flags
  PROVE  Bare(num, b, pr, flags) \in Nat
<1>1. PICK absolute \in Nat : absolute = IF num < 0 THEN -num ELSE num
  OBVIOUS
<1>2. ("upper" \in flags) \in BOOLEAN
  OBVIOUS
<1>3. PICK y : y = P!digits(absolute, b, "upper" \in flags)
  OBVIOUS
<1>4. y \in Seq(Chars)
  BY <1>2, <1>3, DigitsAre
<1>5. Prefix(num, flags) \in Seq(Fillers)
  BY PrefixIs
<1>6. Len(y) \in Nat /\ Len(Prefix(num, flags)) \in Nat
  BY <1>4, <1>5
<1>7. Bare(num, b, pr, flags) = Len(Prefix(num, flags)) + P!largest(pr, Len(y))
  BY <1>1, <1>3 DEF Bare
<1> QED BY <1>6, <1>7 DEF P!largest

\* The three parts of a number are read as the number.
LEMMA SprintsRead ==
  ASSUME NEW num \in Int, NEW b \in {10, 16}, NEW w, NEW pr, NEW flags,
         NEW x, NEW y, NEW z, Sprints(x, y, z, num, b, w, pr, flags)
  PROVE  /\ Len(x \o (y \o z)) = P!largest(w, Bare(num, b, pr, flags))
         /\ P!read_back(x \o (y \o z), b) = num
<1>1. PICK absolute \in Nat : absolute = IF num < 0 THEN -num ELSE num
  OBVIOUS
<1>2. PICK upper : upper = ("upper" \in flags)
  OBVIOUS
<1>2a. upper \in BOOLEAN
  BY ONLY <1>2
<1>3. /\ x \in Seq(Chars) /\ y \in Seq(Chars) /\ z \in Seq(Chars)
      /\ y = P!digits(absolute, b, upper)
      /\ \A i \in 1 .. Len(x) : x[i] \in Fillers
      /\ (\E i \in 1 .. Len(x) : x[i] = "-") <=> num < 0
      /\ \A i \in 1 .. Len(z) : z[i] = Blank
      /\ Len(x) + Len(y) + Len(z) = P!largest(w, Bare(num, b, pr, flags))
  BY <1>1, <1>2 DEF Sprints
<1>4. PICK u, v : u = y \o z /\ v = x \o (y \o z)
  OBVIOUS
<1>5. /\ u \in Seq(Chars) /\ Len(u) = Len(y) + Len(z) /\ Len(y) \in Nat /\ Len(z) \in Nat
      /\ \A i \in 1 .. Len(y) : u[i] = y[i]
      /\ \A i \in Len(y) + 1 .. Len(y) + Len(z) :
           i - Len(y) \in 1 .. Len(z) /\ u[i] = z[i - Len(y)]
  BY ONLY <1>3, <1>4, BothHave
<1>6. /\ v \in Seq(Chars) /\ Len(v) = Len(x) + Len(u) /\ Len(x) \in Nat
      /\ \A i \in 1 .. Len(x) : v[i] = x[i]
      /\ \A i \in 1 .. Len(u) : v[Len(x) + i] = u[i]
      /\ \A i \in Len(x) + 1 .. Len(x) + Len(u) :
           i - Len(x) \in 1 .. Len(u) /\ v[i] = u[i - Len(x)]
  <2>1. x \in Seq(Chars) /\ u \in Seq(Chars) /\ v = x \o u
    BY <1>3, <1>4, <1>5
  <2> QED BY ONLY <2>1, BothHave
<1>7. PICK k, l, m : k = Len(x) /\ l = Len(y) /\ m = Len(z)
  OBVIOUS
<1>8. k \in Nat /\ l \in Nat /\ m \in Nat /\ Len(u) = l + m /\ Len(v) = k + (l + m)
  BY <1>5, <1>6, <1>7
<1>9. Stands(y, v, k)
  <2>1. ASSUME NEW i \in 1 .. l
        PROVE  v[k + i] = y[i]
    <3>1. i \in 1 .. Len(u)
      BY <1>8
    <3> QED BY <1>5, <1>6, <1>7, <3>1
  <2>2. k + l <= Len(v)
    BY <1>8
  <2> QED BY <1>7, <2>1, <2>2 DEF Stands
<1>10. \A i \in 1 .. k : v[i] \in Fillers
  BY <1>3, <1>6, <1>7
<1>11. ASSUME NEW i \in k + Len(y) + 1 .. Len(v)
       PROVE  v[i] = Blank
  <2>0. i \in k + l + 1 .. k + (l + m)
    BY <1>7, <1>8
  <2>1. /\ i \in Len(x) + 1 .. Len(x) + Len(u) /\ i - k \in l + 1 .. l + m
        /\ i - k - l \in 1 .. m
    BY <1>7, <1>8, <2>0
  <2>2. v[i] = u[i - k]
    BY <1>6, <1>7, <2>1
  <2>3. u[i - k] = z[i - k - l]
    BY <1>5, <1>7, <2>1
  <2> QED BY <1>3, <1>7, <2>1, <2>2, <2>3
<1>12. P!read_back(v, b) = IF \E i \in 1 .. k : v[i] = "-" THEN -absolute ELSE absolute
  <2>1. \A i \in k + Len(y) + 1 .. Len(v) : v[i] = Blank
    BY <1>11
  <2>2. absolute \in Nat /\ b \in {10, 16} /\ v \in Seq(Chars) /\ k \in Nat
    BY <1>6, <1>8
  <2>3. Field(absolute, b, upper, y, v, k)
    BY <1>2a, <1>3, <1>9, <1>10, <2>1, <2>2 DEF Field
  <2>4. IsRead(absolute, b, v, k)
    BY <2>3, FieldRead, Zenon
  <2> QED BY <2>4 DEF IsRead
<1>13. (\E i \in 1 .. k : v[i] = "-") <=> num < 0
  BY <1>3, <1>6, <1>7
<1>14. P!read_back(v, b) = num
  BY <1>1, <1>12, <1>13
<1>15. Len(v) = k + l + m
  BY <1>8
<1> QED BY <1>3, <1>4, <1>7, <1>14, <1>15

\* A number takes the room it is to take, and reads back as what it is.
LEMMA NumberRight ==
  ASSUME NEW dir \in P!Directives, dir.type \in P!Numbers, NEW arg \in Int
  PROVE  /\ Len(P!stands_for(dir, arg)) =
              P!largest(P!width(dir), Len(P!stands_for([dir EXCEPT !.width = NULL], arg)))
         /\ P!read_back(P!stands_for(dir, arg), P!number(dir)[1]) = Printed(dir, arg)
<1>1. PICK num, b, w, pr, flags :
        /\ num = Printed(dir, arg) /\ b = P!number(dir)[1] /\ w = P!width(dir)
        /\ pr = P!given(dir, P!number(dir)[3]) /\ flags = P!number(dir)[2]
  OBVIOUS
<1>2. /\ b \in {10, 16} /\ w \in Nat /\ pr \in Nat
      /\ "sign" \in flags <=> dir.type = "d"
  BY <1>1, NumberIs
<1>3. num \in Int /\ (num >= 0 \/ "sign" \in flags)
  <2>1. dir.length \in {1, 2, 4, 8} /\ (dir.type = "d") \in BOOLEAN
    BY DirectiveFields
  <2> QED BY <1>1, <1>2, <2>1, TruncatedIs DEF Printed
<1>4. PICK x, y, z :
        Sprints(x, y, z, num, b, w, pr, flags) /\ P!stands_for(dir, arg) = x \o (y \o z)
  <2>1. PICK x, y, z :
          /\ Sprints(x, y, z, Printed(dir, arg), P!number(dir)[1], P!width(dir),
                     P!given(dir, P!number(dir)[3]), P!number(dir)[2])
          /\ P!stands_for(dir, arg) = x \o (y \o z)
    BY NumberStands
  <2> QED BY <1>1, <2>1
<1>5. PICK bare : bare = [dir EXCEPT !.width = NULL]
  OBVIOUS
<1>6. /\ bare \in P!Directives /\ bare.type = dir.type /\ bare.width = NULL
      /\ bare.flags = dir.flags /\ bare.precision = dir.precision
      /\ bare.length = dir.length
  <2>1. /\ dir.flags \in SUBSET P!Flags /\ dir.length \in {1, 2, 4, 8}
        /\ dir.width \in Int \cup {NULL} /\ dir.precision \in Int \cup {NULL}
        /\ dir = [type |-> dir.type, flags |-> dir.flags, width |-> dir.width,
                  precision |-> dir.precision, length |-> dir.length]
    BY DirectiveFields
  <2>2. bare = [type |-> dir.type, flags |-> dir.flags, width |-> NULL,
                precision |-> dir.precision, length |-> dir.length]
    BY <1>5, <2>1
  <2> QED BY <2>1, <2>2 DEF P!Directives
<1>7. /\ P!number(bare) = P!number(dir) /\ P!width(bare) = 0
      /\ P!given(bare, P!number(bare)[3]) = pr /\ Printed(bare, arg) = num
  <2>1. P!number(bare) = P!number(dir)
    BY <1>6, Zenon DEF P!number
  <2>2. P!width(bare) = 0
    BY <1>6 DEF P!width
  <2> QED BY <1>1, <1>6, <2>1, <2>2 DEF P!given, Printed
<1>8. PICK x0, y0, z0 :
        Sprints(x0, y0, z0, num, b, 0, pr, flags) /\ P!stands_for(bare, arg) = x0 \o (y0 \o z0)
  <2>1. PICK x0, y0, z0 :
          /\ Sprints(x0, y0, z0, Printed(bare, arg), P!number(bare)[1], P!width(bare),
                     P!given(bare, P!number(bare)[3]), P!number(bare)[2])
          /\ P!stands_for(bare, arg) = x0 \o (y0 \o z0)
    <3>1. bare \in P!Directives /\ bare.type \in P!Numbers
      BY <1>6
    <3> QED BY <3>1, NumberStands
  <2> QED BY <1>1, <1>7, <2>1
<1>9. PICK n : n = Bare(num, b, pr, flags)
  OBVIOUS
<1>10. n \in Nat
  BY <1>2, <1>3, <1>9, BareTyped
<1>11. /\ Len(P!stands_for(dir, arg)) = P!largest(w, n)
       /\ P!read_back(P!stands_for(dir, arg), b) = num
  BY <1>2, <1>3, <1>4, <1>9, SprintsRead
<1>12. Len(P!stands_for(bare, arg)) = P!largest(0, n)
  BY <1>2, <1>3, <1>8, <1>9, SprintsRead
<1>13. P!largest(0, n) = n
  BY <1>10 DEF P!largest
<1> QED BY <1>1, <1>5, <1>11, <1>12, <1>13

-----------------------------------------------------------------------------
(* Formats and their arguments.                                            *)

\* The directives of the first i that take an argument.
Taken(f, i) == {j \in 1 .. i : P!takes(f[j])}

\* How many they are.
LEMMA TakenHas ==
  ASSUME NEW f, NEW i \in Nat
  PROVE  /\ Taken(f, 0) = {} /\ Cardinality(Taken(f, 0)) = 0
         /\ Cardinality(Taken(f, i)) \in Nat
         /\ Cardinality(Taken(f, i + 1)) =
              Cardinality(Taken(f, i)) + (IF P!takes(f[i + 1]) THEN 1 ELSE 0)
<1>1. Taken(f, 0) = {}
  <2>1. 1 .. 0 = {}
    OBVIOUS
  <2> QED BY <2>1 DEF Taken
<1>2. IsFiniteSet(Taken(f, i))
  <2>1. IsFiniteSet(1 .. i)
    BY FS_Interval
  <2>2. Taken(f, i) \in SUBSET (1 .. i)
    BY DEF Taken
  <2> QED BY <2>1, <2>2, FS_Subset
<1>3. Taken(f, i + 1) = IF P!takes(f[i + 1]) THEN Taken(f, i) \cup {i + 1} ELSE Taken(f, i)
  <2>1. 1 .. i + 1 = (1 .. i) \cup {i + 1}
    OBVIOUS
  <2> QED BY <2>1 DEF Taken
<1>4. i + 1 \notin Taken(f, i)
  BY DEF Taken
<1>5. Cardinality(Taken(f, i)) \in Nat
  BY <1>2, FS_CardinalityType
<1>6. Cardinality(Taken(f, i) \cup {i + 1}) = Cardinality(Taken(f, i)) + 1
  BY <1>2, <1>4, FS_AddElement
<1>7. Cardinality(Taken(f, 0)) = 0
  BY <1>1, FS_EmptySet
<1> QED BY <1>1, <1>3, <1>5, <1>6, <1>7

\* Printf counts as here.
LEMMA SameCardinality == \A set : P!Cardinality(set) = Cardinality(set)
BY DEF P!Cardinality, Cardinality

\* The i-th argument.
LEMMA ArgumentIs ==
  ASSUME NEW f, NEW as, NEW i
  PROVE  P!argument(f, as, i) =
           IF P!takes(f[i]) THEN as[Cardinality(Taken(f, i))] ELSE NULL
BY SameCardinality DEF P!argument, Taken

\* The first directive takes one of them.
LEMMA TakenTail ==
  ASSUME NEW f \in Seq(P!Directives), f # <<>>, NEW n \in 0 .. Len(Tail(f))
  PROVE  Cardinality(Taken(f, n + 1)) =
           Cardinality(Taken(Tail(f), n)) + (IF P!takes(Head(f)) THEN 1 ELSE 0)
<1> DEFINE T == {k \in 0 .. n :
                   Cardinality(Taken(f, k + 1)) =
                     Cardinality(Taken(Tail(f), k))
                       + (IF P!takes(Head(f)) THEN 1 ELSE 0)}
<1>1. 0 <= n => 0 \in T
  <2>1. f[1] = Head(f)
    OBVIOUS
  <2>2. Cardinality(Taken(f, 0 + 1)) =
          Cardinality(Taken(f, 0)) + (IF P!takes(f[0 + 1]) THEN 1 ELSE 0)
    BY TakenHas
  <2>3. Cardinality(Taken(f, 0)) = 0 /\ Cardinality(Taken(Tail(f), 0)) = 0
    <3>1. 0 \in Nat
      OBVIOUS
    <3> QED BY <3>1, TakenHas
  <2> QED BY <2>1, <2>2, <2>3
<1>2. ASSUME NEW k \in 0 .. n - 1, k \in T
      PROVE  k + 1 \in T
  <2>1. k \in Nat /\ k + 1 \in Nat /\ k + 1 \in 0 .. n
    OBVIOUS
  <2>2. Tail(f)[k + 1] = f[(k + 1) + 1]
    <3>1. k + 1 \in 1 .. Len(Tail(f))
      OBVIOUS
    <3> QED BY ONLY f \in Seq(P!Directives), f # <<>>, <3>1
  <2>3. Cardinality(Taken(f, (k + 1) + 1)) =
          Cardinality(Taken(f, k + 1)) + (IF P!takes(f[(k + 1) + 1]) THEN 1 ELSE 0)
    BY <2>1, TakenHas
  <2>4. Cardinality(Taken(Tail(f), k + 1)) =
          Cardinality(Taken(Tail(f), k)) + (IF P!takes(Tail(f)[k + 1]) THEN 1 ELSE 0)
    BY <2>1, TakenHas
  <2>5. /\ Cardinality(Taken(Tail(f), k)) \in Nat
        /\ Cardinality(Taken(f, k + 1)) \in Nat
    BY <2>1, TakenHas
  <2>6. Cardinality(Taken(f, k + 1)) =
          Cardinality(Taken(Tail(f), k)) + (IF P!takes(Head(f)) THEN 1 ELSE 0)
    BY <1>2
  <2> QED BY <2>1, <2>2, <2>3, <2>4, <2>5, <2>6
<1>3. 0 .. n \subseteq T
  <2> HIDE DEF T
  <2>1. 0 \in Int /\ n \in Int
    OBVIOUS
  <2> QED BY <1>1, <1>2, <2>1, IntervalInduction
<1>4. n \in 0 .. n
  OBVIOUS
<1> QED BY <1>3, <1>4

\* The arguments for the directives after the first.
Left(f, as) == IF P!takes(Head(f)) THEN Tail(as) ELSE as

\* What supplied says, with the names of this module.
LEMMA SuppliedIs ==
  ASSUME NEW f \in Seq(P!Directives), NEW as
  PROVE  P!supplied(f, as) <=>
           /\ Len(as) \in Nat /\ as = [i \in 1 .. Len(as) |-> as[i]]
           /\ \A i \in 1 .. Len(f) :
                /\ P!takes(f[i]) => Cardinality(Taken(f, i)) <= Len(as)
                /\ Suits(f[i], P!argument(f, as, i))
<1>1. DOMAIN f = 1 .. Len(f)
  OBVIOUS
<1>2. ASSUME NEW i \in 1 .. Len(f)
      PROVE  (P!takes(f[i]) =>
                /\ Cardinality(Taken(f, i)) <= Len(as)
                /\ P!argument(f, as, i) \in CASE f[i].type = "c" -> Chars
                                              [] f[i].type = "s" -> Seq(Chars)
                                              [] OTHER -> Int)
              <=> /\ P!takes(f[i]) => Cardinality(Taken(f, i)) <= Len(as)
                  /\ Suits(f[i], P!argument(f, as, i))
  BY Zenon DEF Suits
<1>3. ASSUME NEW i \in 1 .. Len(f)
      PROVE  P!Cardinality({j \in 1 .. i : P!takes(f[j])}) = Cardinality(Taken(f, i))
  BY SameCardinality, Zenon DEF Taken
<1> QED BY <1>1, <1>2, <1>3, Zenon DEF P!supplied

\* What follows the first element.
LEMMA TailHas ==
  ASSUME NEW A, NEW x \in Seq(A), x # <<>>
  PROVE  /\ Tail(x) \in Seq(A) /\ Len(Tail(x)) \in Nat /\ Len(x) = Len(Tail(x)) + 1
         /\ \A k \in 1 .. Len(Tail(x)) : Tail(x)[k] = x[k + 1]
OBVIOUS

\* A sequence that is not empty has a first element.
LEMMA HeadHas ==
  ASSUME NEW A, NEW x \in Seq(A), Len(x) >= 1
  PROVE  x # <<>> /\ x[1] = Head(x)
OBVIOUS

\* The elements of a sequence are its elements.
LEMMA SequenceOf ==
  ASSUME NEW x, Len(x) \in Nat, x = [i \in 1 .. Len(x) |-> x[i]]
  PROVE  x \in Seq({x[i] : i \in 1 .. Len(x)})
<1>1. PICK n : n = Len(x)
  OBVIOUS
<1>2. PICK A : A = {x[i] : i \in 1 .. n}
  OBVIOUS
<1>3. n \in Nat /\ x \in [1 .. n -> A]
  BY <1>1, <1>2
<1>4. x \in Seq(A)
  BY ONLY <1>3
<1> QED BY <1>1, <1>2, <1>4

\* The arguments are a sequence, and the first directive has the first of
\* them.
LEMMA SuppliedHead ==
  ASSUME NEW f \in Seq(P!Directives), f # <<>>, NEW as, P!supplied(f, as)
  PROVE  /\ \E A : as \in Seq(A)
         /\ Head(f) \in P!Directives /\ Suits(Head(f), P!argument(f, as, 1))
         /\ P!takes(Head(f)) => as # <<>> /\ P!argument(f, as, 1) = Head(as)
         /\ ~P!takes(Head(f)) => P!argument(f, as, 1) = NULL
<1>1. /\ Len(as) \in Nat /\ as = [i \in 1 .. Len(as) |-> as[i]]
      /\ \A i \in 1 .. Len(f) :
           /\ P!takes(f[i]) => Cardinality(Taken(f, i)) <= Len(as)
           /\ Suits(f[i], P!argument(f, as, i))
  BY SuppliedIs
<1>2. PICK A : A = {as[i] : i \in 1 .. Len(as)}
  OBVIOUS
<1>3. as \in Seq(A)
  BY <1>1, <1>2, SequenceOf
<1>4. 1 \in 1 .. Len(f) /\ f[1] = Head(f) /\ Head(f) \in P!Directives
  BY ONLY f \in Seq(P!Directives), f # <<>>
<1>5. P!takes(f[1]) => Cardinality(Taken(f, 1)) = 1
  <2>1. 0 \in Nat /\ 0 + 1 = 1
    OBVIOUS
  <2>2. Cardinality(Taken(f, 1)) = 0 + (IF P!takes(f[1]) THEN 1 ELSE 0)
    BY <2>1, TakenHas
  <2> QED BY <2>2
<1>6. P!argument(f, as, 1) = IF P!takes(f[1]) THEN as[Cardinality(Taken(f, 1))] ELSE NULL
  BY ArgumentIs
<1>7. CASE P!takes(Head(f))
  <2>1. 1 <= Len(as) /\ P!argument(f, as, 1) = as[1]
    BY <1>1, <1>4, <1>5, <1>6, <1>7
  <2>3. Len(as) >= 1
    BY <1>1, <2>1
  <2>2. as # <<>> /\ as[1] = Head(as)
    BY ONLY <1>3, <2>3, HeadHas
  <2> QED BY <1>1, <1>3, <1>4, <1>7, <2>1, <2>2
<1>8. CASE ~P!takes(Head(f))
  BY <1>1, <1>3, <1>4, <1>6, <1>8
<1> QED BY <1>7, <1>8

\* The other directives have the other arguments.
LEMMA SuppliedTail ==
  ASSUME NEW f \in Seq(P!Directives), f # <<>>, NEW as, P!supplied(f, as)
  PROVE  /\ P!supplied(Tail(f), Left(f, as))
         /\ \A i \in 1 .. Len(Tail(f)) :
              /\ Tail(f)[i] = f[i + 1]
              /\ P!argument(Tail(f), Left(f, as), i) = P!argument(f, as, i + 1)
<1>1. /\ Len(as) \in Nat /\ as = [i \in 1 .. Len(as) |-> as[i]]
      /\ \A i \in 1 .. Len(f) :
           /\ P!takes(f[i]) => Cardinality(Taken(f, i)) <= Len(as)
           /\ Suits(f[i], P!argument(f, as, i))
  BY SuppliedIs
<1>2. PICK A : as \in Seq(A)
  BY SuppliedHead
<1>3. PICK g, left2 : g = Tail(f) /\ left2 = Left(f, as)
  OBVIOUS
<1>4. /\ g \in Seq(P!Directives) /\ Len(g) \in Nat /\ Len(f) = Len(g) + 1
      /\ \A i \in 1 .. Len(g) : g[i] = f[i + 1]
  BY ONLY <1>3, f \in Seq(P!Directives), f # <<>>
<1>5. P!takes(Head(f)) => as # <<>>
  BY SuppliedHead
<1>6. PICK one \in {0, 1} : one = IF P!takes(Head(f)) THEN 1 ELSE 0
  OBVIOUS
<1>7. /\ left2 \in Seq(A) /\ Len(as) = Len(left2) + one /\ Len(left2) \in Nat
      /\ \A k \in 1 .. Len(left2) : left2[k] = as[k + one]
  <2>1. CASE P!takes(Head(f))
    <3>1. left2 = Tail(as) /\ as # <<>> /\ one = 1
      BY <1>3, <1>5, <1>6, <2>1 DEF Left
    <3> QED BY <1>2, <3>1, TailHas
  <2>2. CASE ~P!takes(Head(f))
    <3>1. left2 = as /\ one = 0
      BY <1>3, <1>6, <2>2 DEF Left
    <3>2. Len(as) = Len(as) + 0 /\ \A k \in 1 .. Len(as) : k + 0 = k
      <4>1. \A n \in Nat : n = n + 0 /\ \A k \in 1 .. n : k + 0 = k
        OBVIOUS
      <4> QED BY <1>1, <4>1, Zenon
    <3> QED BY <1>1, <1>2, <3>1, <3>2
  <2> QED BY <2>1, <2>2
<1>8. ASSUME NEW i \in 1 .. Len(g)
      PROVE  /\ P!takes(g[i]) => Cardinality(Taken(g, i)) <= Len(left2)
             /\ P!argument(g, left2, i) = P!argument(f, as, i + 1)
             /\ Suits(g[i], P!argument(g, left2, i))
  <2>0. i \in Nat /\ i \in 0 .. Len(g) /\ i + 1 \in 1 .. Len(f) /\ i - 1 \in Nat
    BY <1>4
  <2>1. PICK c, e : c = Cardinality(Taken(g, i)) /\ e = Cardinality(Taken(f, i + 1))
    OBVIOUS
  <2>2. e = c + one
    BY <1>3, <1>6, <2>0, <2>1, TakenTail
  <2>3. c \in Nat
    BY <2>0, <2>1, TakenHas
  <2>4. g[i] = f[i + 1]
    BY <1>4
  <2>5. /\ P!takes(f[i + 1]) => e <= Len(as)
        /\ Suits(f[i + 1], P!argument(f, as, i + 1))
    BY <1>1, <2>0, <2>1
  <2>6. P!takes(g[i]) => c \in 1 .. Len(left2)
    <3>1. SUFFICES ASSUME P!takes(g[i]) PROVE c \in 1 .. Len(left2)
      OBVIOUS
    <3>2. e <= Len(as)
      BY <2>4, <2>5, <3>1
    <3>3. c >= 1
      <4>1. /\ Cardinality(Taken(g, (i - 1) + 1)) = Cardinality(Taken(g, i - 1))
                 + (IF P!takes(g[(i - 1) + 1]) THEN 1 ELSE 0)
            /\ Cardinality(Taken(g, i - 1)) \in Nat
        BY <2>0, TakenHas
      <4>2. (i - 1) + 1 = i
        OBVIOUS
      <4> QED BY <2>1, <3>1, <4>1, <4>2
    <3> QED BY <1>7, <2>2, <2>3, <3>2, <3>3
  <2>7. P!argument(g, left2, i) = P!argument(f, as, i + 1)
    <3>1. P!argument(g, left2, i) = IF P!takes(g[i]) THEN left2[c] ELSE NULL
      BY <2>1, ArgumentIs
    <3>2. P!argument(f, as, i + 1) = IF P!takes(f[i + 1]) THEN as[e] ELSE NULL
      BY <2>1, ArgumentIs
    <3>3. CASE P!takes(g[i])
      <4>1. left2[c] = as[c + one]
        BY <1>7, <2>6, <3>3
      <4> QED BY <2>2, <2>4, <3>1, <3>2, <3>3, <4>1
    <3>4. CASE ~P!takes(g[i])
      BY <2>4, <3>1, <3>2, <3>4
    <3> QED BY <3>3, <3>4
  <2>8. P!takes(g[i]) => c <= Len(left2)
    BY <2>6
  <2> QED BY <2>1, <2>4, <2>5, <2>7, <2>8
<1>9. P!supplied(g, left2)
  <2>1. left2 = [i \in 1 .. Len(left2) |-> left2[i]]
    BY ONLY <1>7
  <2> QED BY <1>4, <1>7, <1>8, <2>1, SuppliedIs
<1> QED BY <1>3, <1>4, <1>8, <1>9

\* What each directive of f stands for.
Pieces(f, as) == [i \in DOMAIN f |-> P!stands_for(f[i], P!argument(f, as, i))]

\* One piece for each directive: what it stands for, with its argument.
LEMMA PiecesAre ==
  ASSUME NEW f \in Seq(P!Directives), NEW as, P!supplied(f, as)
  PROVE  /\ Pieces(f, as) \in Seq(Seq(Chars)) /\ Len(Pieces(f, as)) = Len(f)
         /\ \A i \in 1 .. Len(f) :
              Pieces(f, as)[i] = P!stands_for(f[i], P!argument(f, as, i))
<1>1. PICK n \in Nat : n = Len(f) /\ DOMAIN f = 1 .. n
  OBVIOUS
<1>2. ASSUME NEW i \in 1 .. n
      PROVE  P!stands_for(f[i], P!argument(f, as, i)) \in Seq(Chars)
  <2>1. f[i] \in P!Directives
    BY <1>1
  <2>2. Suits(f[i], P!argument(f, as, i))
    BY <1>1, SuppliedIs
  <2> QED BY <2>1, <2>2, DirectiveIs
<1>3. PICK p : p = Pieces(f, as)
  OBVIOUS
<1>4. p = [i \in 1 .. n |-> P!stands_for(f[i], P!argument(f, as, i))]
  BY <1>1, <1>3 DEF Pieces
<1>5. p \in [1 .. n -> Seq(Chars)]
  BY <1>2, <1>4
<1>6. n \in Nat
  OBVIOUS
<1>7. p \in Seq(Seq(Chars)) /\ Len(p) = n
  BY ONLY <1>5, <1>6
<1> QED BY <1>1, <1>3, <1>4, <1>7

\* A format stands for what its first directive does, and then the others.
LEMMA WrittenIs ==
  ASSUME NEW f \in Seq(P!Directives), NEW as, P!supplied(f, as)
  PROVE  /\ P!written(f, as) \in Seq(Chars)
         /\ f = <<>> => P!written(f, as) = <<>>
         /\ f # <<>> =>
              /\ P!written(Tail(f), Left(f, as)) \in Seq(Chars)
              /\ P!written(f, as) = P!stands_for(Head(f), P!argument(f, as, 1))
                                      \o P!written(Tail(f), Left(f, as))
<1>1. PICK p : p = Pieces(f, as)
  OBVIOUS
<1>2. /\ p \in Seq(Seq(Chars)) /\ Len(p) = Len(f)
      /\ \A i \in 1 .. Len(f) : p[i] = P!stands_for(f[i], P!argument(f, as, i))
  BY <1>1, PiecesAre
<1>3. P!written(f, as) = P!joined(p)
  BY <1>1 DEF P!written, Pieces
<1>4. CASE f = <<>>
  <2>1. Len(f) = 0
    BY <1>4
  <2>2. p = <<>>
    BY ONLY <1>2, <2>1
  <2>3. P!joined(p) = <<>>
    BY <2>2, JoinedEmpty
  <2>4. <<>> \in Seq(Chars)
    OBVIOUS
  <2> QED BY <1>3, <1>4, <2>3, <2>4
<1>5. CASE f # <<>>
  <2>1. PICK g, rest : g = Tail(f) /\ rest = Left(f, as)
    OBVIOUS
  <2>2. /\ g \in Seq(P!Directives) /\ Len(g) \in Nat /\ Len(f) = Len(g) + 1
        /\ 1 \in 1 .. Len(f) /\ f[1] = Head(f)
    BY ONLY <1>5, <2>1, f \in Seq(P!Directives)
  <2>3. /\ P!supplied(g, rest)
        /\ \A i \in 1 .. Len(g) :
             g[i] = f[i + 1] /\ P!argument(g, rest, i) = P!argument(f, as, i + 1)
    BY <1>5, <2>1, SuppliedTail
  <2>4. PICK q : q = Pieces(g, rest)
    OBVIOUS
  <2>5. /\ q \in Seq(Seq(Chars)) /\ Len(q) = Len(g)
        /\ \A i \in 1 .. Len(g) : q[i] = P!stands_for(g[i], P!argument(g, rest, i))
    BY <2>2, <2>3, <2>4, PiecesAre
  <2>6. P!written(g, rest) = P!joined(q)
    BY <2>4 DEF P!written, Pieces
  <2>7. \A i \in 1 .. Len(q) : q[i] = p[i + 1]
    <3>1. ASSUME NEW i \in 1 .. Len(g)
          PROVE  q[i] = p[i + 1]
      <4>1. i + 1 \in 1 .. Len(f)
        BY <2>2
      <4>2. p[i + 1] = P!stands_for(f[i + 1], P!argument(f, as, i + 1))
        BY <1>2, <4>1
      <4>3. q[i] = P!stands_for(g[i], P!argument(g, rest, i))
        BY <2>5
      <4> QED BY <2>3, <4>2, <4>3
    <3> QED BY <2>5, <3>1
  <2>8. p # <<>> /\ p[1] = Head(p)
    <3>1. Len(p) >= 1
      BY <1>2, <2>2
    <3> QED BY <1>2, <3>1, HeadHas
  <2>9. q = Tail(p)
    <3>1. Len(q) = Len(p) - 1
      BY <1>2, <2>2, <2>5
    <3> QED BY <1>2, <2>5, <2>7, <2>8, <3>1, TailIs
  <2>10. /\ P!joined(p) = Head(p) \o P!joined(q)
         /\ P!joined(p) \in Seq(Chars) /\ P!joined(q) \in Seq(Chars)
    BY <1>2, <2>8, <2>9, JoinedHead
  <2>11. Head(p) = P!stands_for(Head(f), P!argument(f, as, 1))
    BY <1>2, <2>2, <2>8
  <2> QED BY <1>3, <1>5, <2>1, <2>6, <2>10, <2>11
<1> QED BY <1>4, <1>5

\* What there is still to print: of the present directive, and of the others.
Rest(ls, f, as) == P!joined(Meants(ls)) \o P!written(f, as)

\* What is left to print is a text.
LEMMA RestTyped ==
  ASSUME NEW ls \in Seq(Loops), NEW f \in Seq(P!Directives), NEW as, P!supplied(f, as)
  PROVE  Rest(ls, f, as) \in Seq(Chars)
<1>1. P!joined(Meants(ls)) \in Seq(Chars) /\ P!written(f, as) \in Seq(Chars)
  BY MeantsIs, WrittenIs
<1>2. P!joined(Meants(ls)) \o P!written(f, as) \in Seq(Chars)
  BY ONLY <1>1, BothHave
<1> QED BY <1>2 DEF Rest

\* Without a present directive.
LEMMA RestBegins ==
  ASSUME NEW f \in Seq(P!Directives), NEW as, P!supplied(f, as)
  PROVE  /\ f = <<>> => Rest(<<>>, f, as) = <<>>
         /\ f # <<>> =>
              /\ P!directive(Head(f), P!argument(f, as, 1)) \in Seq(Loops)
              /\ Tail(f) \in Seq(P!Directives) /\ P!supplied(Tail(f), Left(f, as))
              /\ Rest(<<>>, f, as) =
                   Rest(P!directive(Head(f), P!argument(f, as, 1)), Tail(f), Left(f, as))
<1>1. P!joined(Meants(<<>>)) = <<>>
  <2>1. Meants(<<>>) = <<>>
    BY DEF Meants
  <2> QED BY <2>1, JoinedEmpty
<1>2. Rest(<<>>, f, as) = P!written(f, as)
  <2>1. P!written(f, as) \in Seq(Chars)
    BY WrittenIs
  <2>2. <<>> \o P!written(f, as) = P!written(f, as)
    BY ONLY <2>1, ConcatEmptySeq
  <2> QED BY <1>1, <2>2 DEF Rest
<1>3. CASE f = <<>>
  BY <1>2, <1>3, WrittenIs
<1>4. CASE f # <<>>
  <2>1. Head(f) \in P!Directives /\ Suits(Head(f), P!argument(f, as, 1))
    BY <1>4, SuppliedHead
  <2>2. /\ P!directive(Head(f), P!argument(f, as, 1)) \in Seq(Loops)
        /\ P!stands_for(Head(f), P!argument(f, as, 1)) =
             P!joined(Meants(P!directive(Head(f), P!argument(f, as, 1))))
    BY <2>1, DirectiveIs
  <2>3. P!written(f, as) = P!stands_for(Head(f), P!argument(f, as, 1))
                             \o P!written(Tail(f), Left(f, as))
    BY <1>4, WrittenIs
  <2>4. Tail(f) \in Seq(P!Directives) /\ P!supplied(Tail(f), Left(f, as))
    <3>1. Tail(f) \in Seq(P!Directives)
      BY <1>4, TailHas
    <3> QED BY <1>4, <3>1, SuppliedTail
  <2> QED BY <1>2, <1>4, <2>2, <2>3, <2>4 DEF Rest
<1> QED BY <1>3, <1>4

\* With the first loop of ls replaced by l.
Replaced(ls, l) == <<l>> \o Tail(ls)

\* A list of loops whose first one is replaced keeps the others.
LEMMA ReplacedIs ==
  ASSUME NEW A, NEW ls \in Seq(A), ls # <<>>, NEW l \in A
  PROVE  /\ Replaced(ls, l) \in Seq(A) /\ Replaced(ls, l) # <<>>
         /\ Head(Replaced(ls, l)) = l /\ Tail(Replaced(ls, l)) = Tail(ls)
<1>1. PICK t : t = Tail(ls)
  OBVIOUS
<1>2. t \in Seq(A)
  BY ONLY <1>1, ls \in Seq(A), ls # <<>>
<1>3. PICK r : r = <<l>> \o t
  OBVIOUS
<1>4. /\ r \in Seq(A) /\ Len(r) = Len(t) + 1 /\ Len(t) \in Nat /\ r[1] = l
      /\ \A i \in 1 .. Len(t) : r[i + 1] = t[i]
  BY ONLY <1>2, <1>3, l \in A
<1>5. r # <<>> /\ r[1] = Head(r)
  <2>1. Len(r) >= 1
    BY <1>4
  <2> QED BY <1>4, <2>1, HeadHas
<1>6. Tail(r) = t
  <2>1. Len(t) = Len(r) - 1 /\ \A i \in 1 .. Len(t) : t[i] = r[i + 1]
    BY <1>4
  <2> QED BY <1>2, <1>4, <1>5, <2>1, TailIs
<1> QED BY <1>1, <1>3, <1>4, <1>5, <1>6 DEF Replaced

\* What is left of ls, with what the first loop stands for.
LEMMA RestOf ==
  ASSUME NEW ls \in Seq(Loops), ls # <<>>,
         NEW f \in Seq(P!Directives), NEW as, P!supplied(f, as)
  PROVE  /\ Head(ls) \in Loops /\ Tail(ls) \in Seq(Loops)
         /\ P!meant(Head(ls)) \in Seq(Chars) /\ Rest(Tail(ls), f, as) \in Seq(Chars)
         /\ Rest(ls, f, as) = P!meant(Head(ls)) \o Rest(Tail(ls), f, as)
<1>1. /\ Head(ls) \in Loops /\ Tail(ls) \in Seq(Loops)
      /\ P!joined(Meants(Tail(ls))) \in Seq(Chars)
      /\ P!joined(Meants(ls)) = P!meant(Head(ls)) \o P!joined(Meants(Tail(ls)))
  BY MeantsIs
<1>2. P!meant(Head(ls)) \in Seq(Chars)
  BY <1>1, MeantIs
<1>3. P!written(f, as) \in Seq(Chars)
  BY WrittenIs
<1>4. PICK x, y, z :
        /\ x = P!meant(Head(ls)) /\ y = P!joined(Meants(Tail(ls)))
        /\ z = P!written(f, as)
  OBVIOUS
<1>5. x \in Seq(Chars) /\ y \in Seq(Chars) /\ z \in Seq(Chars)
  BY <1>1, <1>2, <1>3, <1>4
<1>6. (x \o y) \o z = x \o (y \o z)
  BY ONLY <1>5, Associative
<1>7. Rest(ls, f, as) = (x \o y) \o z /\ Rest(Tail(ls), f, as) = y \o z
  BY <1>1, <1>4 DEF Rest
<1>8. Rest(Tail(ls), f, as) \in Seq(Chars)
  BY <1>1, RestTyped
<1> QED BY <1>1, <1>2, <1>4, <1>6, <1>7, <1>8

\* A loop that does not go on stands for nothing.
LEMMA RestLeaves ==
  ASSUME NEW ls \in Seq(Loops), ls # <<>>, ~P!goes_on(Head(ls)),
         NEW f \in Seq(P!Directives), NEW as, P!supplied(f, as)
  PROVE  Tail(ls) \in Seq(Loops) /\ Rest(ls, f, as) = Rest(Tail(ls), f, as)
<1>1. /\ Head(ls) \in Loops /\ Tail(ls) \in Seq(Loops)
      /\ Rest(Tail(ls), f, as) \in Seq(Chars)
      /\ Rest(ls, f, as) = P!meant(Head(ls)) \o Rest(Tail(ls), f, as)
  BY RestOf
<1>2. P!meant(Head(ls)) = <<>>
  BY <1>1, MeantTurn
<1>3. PICK z : z = Rest(Tail(ls), f, as)
  OBVIOUS
<1>4. <<>> \o z = z
  <2>1. z \in Seq(Chars)
    BY <1>1, <1>3
  <2> QED BY ONLY <2>1, ConcatEmptySeq
<1> QED BY <1>1, <1>2, <1>3, <1>4

\* A turn takes a character off what there is to print.
LEMMA RestTurns ==
  ASSUME NEW ls \in Seq(Loops), ls # <<>>, P!goes_on(Head(ls)),
         NEW f \in Seq(P!Directives), NEW as, P!supplied(f, as)
  PROVE  /\ Head(Head(ls).chars) \in Chars /\ TurnedOn(Head(ls)) \in Loops
         /\ Replaced(ls, TurnedOn(Head(ls))) \in Seq(Loops)
         /\ Rest(ls, f, as) = <<Head(Head(ls).chars)>>
                                \o Rest(Replaced(ls, TurnedOn(Head(ls))), f, as)
<1>1. /\ Head(ls) \in Loops /\ Tail(ls) \in Seq(Loops)
      /\ Rest(Tail(ls), f, as) \in Seq(Chars)
      /\ Rest(ls, f, as) = P!meant(Head(ls)) \o Rest(Tail(ls), f, as)
  BY RestOf
<1>2. PICK c, l : c = Head(Head(ls).chars) /\ l = TurnedOn(Head(ls))
  OBVIOUS
<1>3. l \in Loops /\ c \in Chars /\ P!meant(Head(ls)) = <<c>> \o P!meant(l)
  BY <1>1, <1>2, MeantTurn
<1>4. PICK ls2 : ls2 = Replaced(ls, l)
  OBVIOUS
<1>5. /\ ls2 \in Seq(Loops) /\ ls2 # <<>> /\ Head(ls2) = l /\ Tail(ls2) = Tail(ls)
  BY <1>3, <1>4, ReplacedIs
<1>6. Rest(ls2, f, as) = P!meant(l) \o Rest(Tail(ls), f, as)
  <2>1. Rest(ls2, f, as) = P!meant(Head(ls2)) \o Rest(Tail(ls2), f, as)
    BY <1>5, RestOf
  <2> QED BY <1>5, <2>1
<1>7. PICK x, y : x = P!meant(l) /\ y = Rest(Tail(ls), f, as)
  OBVIOUS
<1>8. <<c>> \in Seq(Chars) /\ x \in Seq(Chars) /\ y \in Seq(Chars)
  <2>1. x \in Seq(Chars)
    BY <1>3, <1>7, MeantIs
  <2>2. <<c>> \in Seq(Chars)
    BY ONLY <1>3
  <2> QED BY <1>1, <1>7, <2>1, <2>2
<1>9. (<<c>> \o x) \o y = <<c>> \o (x \o y)
  BY ONLY <1>8, Associative
<1> QED BY <1>1, <1>2, <1>3, <1>4, <1>5, <1>6, <1>7, <1>9

\* With a first loop that stands for a character less, there is a character
\* less to print.
LEMMA RestShorter ==
  ASSUME NEW ls \in Seq(Loops), ls # <<>>, NEW l \in Loops,
         Len(P!meant(Head(ls))) = Len(P!meant(l)) + 1,
         NEW f \in Seq(P!Directives), NEW as, P!supplied(f, as)
  PROVE  /\ Replaced(ls, l) \in Seq(Loops)
         /\ Len(Rest(ls, f, as)) = Len(Rest(Replaced(ls, l), f, as)) + 1
<1>1. PICK ls2 : ls2 = Replaced(ls, l)
  OBVIOUS
<1>2. /\ ls2 \in Seq(Loops) /\ ls2 # <<>> /\ Head(ls2) = l /\ Tail(ls2) = Tail(ls)
  BY <1>1, ReplacedIs
<1>3. PICK x, x2, y :
        /\ x = P!meant(Head(ls)) /\ x2 = P!meant(l) /\ y = Rest(Tail(ls), f, as)
  OBVIOUS
<1>4. /\ x \in Seq(Chars) /\ y \in Seq(Chars) /\ Rest(ls, f, as) = x \o y
  BY <1>3, RestOf
<1>5. x2 \in Seq(Chars) /\ Rest(ls2, f, as) = x2 \o y
  <2>1. Rest(ls2, f, as) = P!meant(Head(ls2)) \o Rest(Tail(ls2), f, as)
    BY <1>2, RestOf
  <2>2. x2 \in Seq(Chars)
    BY <1>3, MeantIs
  <2> QED BY <1>2, <1>3, <2>1, <2>2
<1>6. Len(x \o y) = Len(x) + Len(y)
  BY ONLY <1>4, BothHave
<1>7. Len(x2 \o y) = Len(x2) + Len(y)
  BY ONLY <1>4, <1>5, BothHave
<1>8. Len(x) = Len(x2) + 1 /\ Len(x2) \in Nat /\ Len(y) \in Nat
  <2>1. Len(x2) \in Nat /\ Len(y) \in Nat
    BY ONLY <1>4, <1>5
  <2> QED BY <1>3, <2>1
<1> QED BY <1>1, <1>2, <1>4, <1>5, <1>6, <1>7, <1>8

-----------------------------------------------------------------------------
(* The buffer.                                                             *)

\* The cells of a buffer of sz characters, with the one before and after it.
Cells(m, sz) == m = [i \in -1 .. sz |-> m[i]]

\* Of the text t there are n characters done and x to come, and the buffer m
\* of sz characters has those of the n that it has room for.
Aligned(n, x, t, sz, m) ==
  /\ Len(t) = n + Len(x)
  /\ \A i \in 1 .. Len(x) : n + i <= sz => t[n + i] = x[i]
  /\ \A i \in 0 .. sz - 1 : m[i] = IF i < n THEN t[i + 1] ELSE NULL

\* It has the whole text, as far as there is room.
Complete(r, t, sz, m) ==
  /\ r = Len(t)
  /\ \A i \in 0 .. sz - 2 :
       m[i] = IF i < Len(t) THEN t[i + 1] ELSE IF i = Len(t) THEN "NUL" ELSE NULL
  /\ sz > 0 => m[sz - 1] = "NUL"

\* The next character has room.
LEMMA AlignedTurn ==
  ASSUME NEW n \in Nat, NEW sz \in Nat, n < sz, NEW c \in Chars, NEW y \in Seq(Chars),
         NEW t \in Seq(Chars), NEW m, Cells(m, sz), Aligned(n, <<c>> \o y, t, sz, m)
  PROVE  Aligned(n + 1, y, t, sz, [m EXCEPT ![n] = c])
<1>1. PICK x : x = <<c>> \o y
  OBVIOUS
<1>2. /\ x \in Seq(Chars) /\ Len(x) = Len(y) + 1 /\ Len(y) \in Nat /\ x[1] = c
      /\ \A i \in 1 .. Len(y) : x[i + 1] = y[i]
  BY ONLY <1>1, c \in Chars, y \in Seq(Chars)
<1>3. /\ Len(t) = n + Len(x)
      /\ \A i \in 1 .. Len(x) : n + i <= sz => t[n + i] = x[i]
      /\ \A i \in 0 .. sz - 1 : m[i] = IF i < n THEN t[i + 1] ELSE NULL
  BY <1>1 DEF Aligned
<1>4. Len(t) = (n + 1) + Len(y)
  <2>1. PICK k \in Nat : k = Len(y)
    BY <1>2
  <2> QED BY <1>2, <1>3, <2>1
<1>5. ASSUME NEW i \in 1 .. Len(y), (n + 1) + i <= sz
      PROVE  t[(n + 1) + i] = y[i]
  <2>1. i + 1 \in 1 .. Len(x) /\ (n + 1) + i = n + (i + 1)
    <3>1. PICK k \in Nat : k = Len(y)
      BY <1>2
    <3>2. i \in 1 .. k /\ Len(x) = k + 1
      BY <1>2, <3>1
    <3>3. i + 1 \in 1 .. k + 1
      BY <3>1, <3>2
    <3> QED BY <3>2, <3>3
  <2> QED BY <1>2, <1>3, <1>5, <2>1
<1>6. PICK m2 : m2 = [m EXCEPT ![n] = c]
  OBVIOUS
<1>7. ASSUME NEW i \in 0 .. sz - 1
      PROVE  m2[i] = IF i < n + 1 THEN t[i + 1] ELSE NULL
  <2>1. m2[i] = IF i = n THEN c ELSE m[i]
    <3>1. i \in -1 .. sz
      OBVIOUS
    <3>2. i \in DOMAIN m
      BY <3>1 DEF Cells
    <3> QED BY <1>6, <3>2
  <2>2. CASE i = n
    <3>1. 1 \in 1 .. Len(x) /\ n + 1 <= sz
      BY <1>2
    <3>2. t[n + 1] = c
      BY <1>2, <1>3, <3>1
    <3> QED BY <2>1, <2>2, <3>2
  <2>3. CASE i # n
    <3>1. i < n <=> i < n + 1
      BY <2>3
    <3> QED BY <1>3, <2>1, <2>3, <3>1
  <2> QED BY <2>2, <2>3
<1> QED BY <1>4, <1>5, <1>6, <1>7 DEF Aligned

\* The next character has no room: only how many there are matters.
LEMMA AlignedBeyond ==
  ASSUME NEW n \in Nat, NEW sz \in Nat, n >= sz, NEW x \in Seq(Chars), NEW y \in Seq(Chars),
         Len(x) = Len(y) + 1, NEW t, NEW m, Aligned(n, x, t, sz, m)
  PROVE  Aligned(n + 1, y, t, sz, m)
<1>1. PICK k \in Nat : k = Len(y)
  OBVIOUS
<1>2. Len(t) = n + (k + 1) /\ \A i \in 0 .. sz - 1 : m[i] = IF i < n THEN t[i + 1] ELSE NULL
  BY <1>1 DEF Aligned
<1>3. Len(t) = (n + 1) + k
  BY <1>2
<1>4. \A i \in 0 .. sz - 1 : i < n /\ i < n + 1
  OBVIOUS
<1>5. \A i \in 0 .. sz - 1 : m[i] = IF i < n + 1 THEN t[i + 1] ELSE NULL
  BY <1>2, <1>4
<1>6. \A i \in 1 .. k : ~((n + 1) + i <= sz)
  OBVIOUS
<1> QED BY <1>1, <1>3, <1>5, <1>6 DEF Aligned

\* Nothing is to come.
LEMMA AlignedEnd ==
  ASSUME NEW n \in Nat, NEW sz \in Nat, NEW t \in Seq(Chars), NEW m, Cells(m, sz),
         Aligned(n, <<>>, t, sz, m), NEW m1, NEW m2,
         m1 = IF n < sz THEN [m EXCEPT ![n] = "NUL"] ELSE m,
         m2 = IF sz > 0 THEN [m1 EXCEPT ![sz - 1] = "NUL"] ELSE m1
  PROVE  Complete(n, t, sz, m2)
<1>1. Len(t) = n /\ \A i \in 0 .. sz - 1 : m[i] = IF i < n THEN t[i + 1] ELSE NULL
  <2>1. Len(<<>>) = 0
    OBVIOUS
  <2> QED BY <2>1 DEF Aligned
<1>2. DOMAIN m = -1 .. sz /\ DOMAIN m1 = -1 .. sz
  BY DEF Cells
<1>3. ASSUME NEW i \in 0 .. sz - 1
      PROVE  m2[i] = IF i = sz - 1 \/ i = n THEN "NUL" ELSE m[i]
  <2>1. i \in -1 .. sz /\ sz > 0
    OBVIOUS
  <2>2. m1[i] = IF i = n THEN "NUL" ELSE m[i]
    <3>1. CASE n < sz
      BY <1>2, <2>1, <3>1
    <3>2. CASE ~(n < sz)
      BY <3>2
    <3> QED BY <3>1, <3>2
  <2>3. m2[i] = IF i = sz - 1 THEN "NUL" ELSE m1[i]
    BY <1>2, <2>1
  <2> QED BY <2>2, <2>3
<1>4. ASSUME NEW i \in 0 .. sz - 2
      PROVE  m2[i] = IF i < Len(t) THEN t[i + 1]
                     ELSE IF i = Len(t) THEN "NUL" ELSE NULL
  <2>1. i \in 0 .. sz - 1 /\ i # sz - 1
    OBVIOUS
  <2>2. m2[i] = IF i = n THEN "NUL" ELSE m[i]
    BY <1>3, <2>1
  <2>3. m[i] = IF i < n THEN t[i + 1] ELSE NULL
    BY <1>1, <2>1
  <2>4. Len(t) = n
    BY <1>1
  <2>5. CASE i < n
    <3>1. i # n
      BY <2>5
    <3> QED BY <2>2, <2>3, <2>4, <2>5, <3>1
  <2>6. CASE ~(i < n)
    BY <2>2, <2>3, <2>4, <2>6
  <2> QED BY <2>5, <2>6
<1>5. sz > 0 => m2[sz - 1] = "NUL"
  <2>1. sz > 0 => sz - 1 \in 0 .. sz - 1
    OBVIOUS
  <2> QED BY <1>3, <2>1
<1> QED BY <1>1, <1>4, <1>5 DEF Complete

-----------------------------------------------------------------------------
(* vsnprintf.                                                              *)

\* The calls with a format of which no unknown placeholder is cut short by
\* another.
Separated == \A c \in Cases : P!Separate(c[2])

\* Nothing is lost of such a format, and what is left of it is one too.
LEMMA SeparateTail ==
  ASSUME NEW f \in Seq(P!Directives), f # <<>>, P!Separate(f)
  PROVE  ~P!cut_short(f) /\ P!Separate(Tail(f))
<1>1. /\ Len(f) \in Nat /\ Len(f) > 0 /\ Len(Tail(f)) = Len(f) - 1
      /\ \A i \in 1 .. Len(f) - 1 : Tail(f)[i] = f[i + 1]
  OBVIOUS
<1>2. ~P!cut_short(f)
  <2>1. Len(f) > 1 => 1 \in 1 .. Len(f) - 1
    BY <1>1
  <2> QED BY <2>1 DEF P!Separate, P!cut_short
<1>3. ASSUME NEW i \in 1 .. Len(Tail(f)) - 1, Tail(f)[i].type = "?"
      PROVE  Tail(f)[i + 1].type = "char"
  <2>1. i \in 1 .. Len(f) - 1 /\ i + 1 \in 1 .. Len(f) - 1
    BY <1>1
  <2>2. Tail(f)[i] = f[i + 1] /\ Tail(f)[i + 1] = f[(i + 1) + 1]
    BY <1>1, <2>1
  <2> QED BY <1>3, <2>1, <2>2 DEF P!Separate
<1> QED BY <1>2, <1>3 DEF P!Separate

Typed ==
  /\ size \in Nat /\ buf \in Nat /\ text \in Seq(Chars) /\ Cells(memory, size)

\* The format is followed: what there is and what is to come make the text,
\* and the buffer has as much of it as it has room for.
Exact ==
  /\ loops \in Seq(Loops) /\ format \in Seq(P!Directives) /\ P!supplied(format, args)
  /\ P!Separate(format)
  /\ Aligned(buf, Rest(loops, format, args), text, size, memory)

\* The text does not fit, and buf is beyond the end, or about to be.
Beyond ==
  /\ Len(text) > size
  /\ buf > size \/ (buf = size /\ loops # <<>> /\ P!goes_on(Head(loops)))

\* Every step keeps the types, and the size and the text as they are.
LEMMA TypedKept ==
  ASSUME Typed, P!Next
  PROVE  Typed' /\ size' = size /\ text' = text
<1>1. size \in Nat /\ buf \in Nat /\ text \in Seq(Chars) /\ Cells(memory, size)
  BY DEF Typed
<1>2. ASSUME NEW m, Cells(m, size), NEW a \in -1 .. size, NEW x
      PROVE  Cells([m EXCEPT ![a] = x], size)
  BY <1>2 DEF Cells
<1>3. ASSUME NEW x
      PROVE  Cells(P!stored(x), size)
  <2>1. CASE buf < size
    <3>1. buf \in -1 .. size
      BY <1>1, <2>1
    <3>2. Cells([memory EXCEPT ![buf] = x], size)
      BY <1>1, <1>2, <3>1
    <3> QED BY <2>1, <3>2 DEF P!stored, P!room
  <2>2. CASE ~(buf < size)
    BY <1>1, <2>2 DEF P!stored, P!room
  <2> QED BY <2>1, <2>2
<1>4. ASSUME NEW m, Cells(m, size)
      PROVE  Cells(P!terminated(m), size)
  <2>1. CASE size > 0
    <3>1. size - 1 \in -1 .. size
      BY <1>1, <2>1
    <3>2. Cells([m EXCEPT ![size - 1] = P!NUL], size)
      BY <1>2, <1>4, <3>1
    <3> QED BY <2>1, <3>2 DEF P!terminated
  <2>2. CASE ~(size > 0)
    BY <1>4, <2>2 DEF P!terminated
  <2> QED BY <2>1, <2>2
<1>5. ASSUME Cells(memory', size), buf' \in Nat, size' = size, text' = text
      PROVE  Typed'
  BY <1>1, <1>5 DEF Typed
<1>6. CASE P!turn
  <2>1. /\ memory' = P!stored(Head(Head(loops).chars)) /\ buf' = P!advanced
        /\ size' = size /\ text' = text
    BY <1>6 DEF P!turn, P!entry
  <2>2. buf' \in Nat
    BY <1>1, <2>1 DEF P!advanced
  <2> QED BY <1>3, <1>5, <2>1, <2>2
<1>7. CASE P!finish
  <2>1. /\ memory' = P!terminated(P!stored(P!NUL)) /\ buf' = buf + 1
        /\ size' = size /\ text' = text
    BY <1>7 DEF P!finish, P!entry
  <2> QED BY <1>1, <1>3, <1>4, <1>5, <2>1
<1>8. CASE UNCHANGED <<memory, buf, size, text>>
  BY <1>1, <1>5, <1>8
<1> QED BY <1>6, <1>7, <1>8
        DEF P!Next, P!begin, P!leave, P!printf, P!fprintf, P!prints, P!snprintf,
            P!sprintf, P!returns, P!done, P!vars, P!entry

\* A directive whose argument is taken.
LEMMA ExactBegins ==
  ASSUME Typed, Exact, P!begin, Head(format).type = "c" => P!room
  PROVE  Exact'
<1>0. loops = <<>> /\ format # <<>> /\ UNCHANGED <<buf, memory, size, text>>
  BY DEF P!begin, P!entry
<1>2. /\ format \in Seq(P!Directives) /\ P!supplied(format, args)
      /\ ~P!cut_short(format) /\ P!Separate(Tail(format))
  BY <1>0, SeparateTail DEF Exact
<1>1. /\ loops = <<>> /\ format # <<>> /\ format' = Tail(format)
      /\ UNCHANGED <<buf, memory, size, text>>
  BY <1>0, <1>2 DEF P!begin
<1>3. /\ P!takes(Head(format)) => P!argument(format, args, 1) = Head(args)
      /\ ~P!takes(Head(format)) => P!argument(format, args, 1) = NULL
  BY <1>1, <1>2, SuppliedHead
<1>4. /\ loops' = P!directive(Head(format), P!argument(format, args, 1))
      /\ args' = Left(format, args)
  BY <1>2, <1>3, Zenon DEF P!begin, Left
<1>5. /\ loops' \in Seq(Loops) /\ format' \in Seq(P!Directives)
      /\ P!supplied(format', args')
      /\ Rest(loops, format, args) = Rest(loops', format', args')
  BY <1>1, <1>2, <1>4, RestBegins
<1> QED BY <1>1, <1>2, <1>5 DEF Exact

\* Leaving a loop that is at its end changes nothing of the text.
LEMMA ExactLeaves ==
  ASSUME Typed, Exact, P!leave
  PROVE  Exact'
<1>1. /\ loops # <<>> /\ ~P!goes_on(Head(loops)) /\ loops' = Tail(loops)
      /\ UNCHANGED <<format, args, buf, memory, size, text>>
  BY DEF P!leave, P!entry
<1>2. /\ loops' \in Seq(Loops)
      /\ Rest(loops, format, args) = Rest(loops', format, args)
  BY <1>1, RestLeaves DEF Exact
<1> QED BY <1>1, <1>2 DEF Exact

\* A loop that goes on has a character to print.
LEMMA ExactGoesOn ==
  ASSUME Typed, Exact, loops # <<>>, P!goes_on(Head(loops))
  PROVE  Len(text) > buf
<1>1. /\ Head(Head(loops).chars) \in Chars
      /\ Replaced(loops, TurnedOn(Head(loops))) \in Seq(Loops)
      /\ Rest(loops, format, args) =
           <<Head(Head(loops).chars)>>
             \o Rest(Replaced(loops, TurnedOn(Head(loops))), format, args)
  BY RestTurns DEF Exact
<1>2. PICK c, y : /\ c = Head(Head(loops).chars)
                  /\ y = Rest(Replaced(loops, TurnedOn(Head(loops))), format, args)
  OBVIOUS
<1>3. y \in Seq(Chars) /\ c \in Chars
  BY <1>1, <1>2, RestTyped DEF Exact
<1>4. Len(<<c>> \o y) = 1 + Len(y) /\ Len(y) \in Nat
  BY ONLY <1>3
<1>5. Len(text) = buf + Len(<<c>> \o y)
  BY <1>1, <1>2 DEF Exact, Aligned
<1> QED BY <1>4, <1>5 DEF Typed

\* A turn with room for its character.
LEMMA ExactTurns ==
  ASSUME Typed, Exact, P!turn, P!room
  PROVE  Exact'
<1>1. /\ loops # <<>> /\ P!goes_on(Head(loops))
      /\ memory' = P!stored(Head(Head(loops).chars)) /\ buf' = P!advanced
      /\ loops' = Replaced(loops, P!turned(Head(loops)))
      /\ UNCHANGED <<format, args, size, text>>
  BY DEF P!turn, P!entry, Replaced
<1>2. /\ Head(Head(loops).chars) \in Chars
      /\ Replaced(loops, TurnedOn(Head(loops))) \in Seq(Loops)
      /\ Rest(loops, format, args) =
           <<Head(Head(loops).chars)>>
             \o Rest(Replaced(loops, TurnedOn(Head(loops))), format, args)
  BY <1>1, RestTurns DEF Exact
<1>3. P!turned(Head(loops)) = TurnedOn(Head(loops))
  BY DEF P!turned, TurnedOn
<1>4. PICK c, y : /\ c = Head(Head(loops).chars)
                  /\ y = Rest(loops', format, args)
  OBVIOUS
<1>5. c \in Chars /\ loops' \in Seq(Loops) /\ Rest(loops, format, args) = <<c>> \o y
  BY <1>1, <1>2, <1>3, <1>4
<1>6. y \in Seq(Chars)
  BY <1>4, <1>5, RestTyped DEF Exact
<1>7. buf < size /\ buf' = buf + 1 /\ memory' = [memory EXCEPT ![buf] = c]
  <2>1. buf < size /\ BUF_CAP \in Nat
    BY CasesAssumption DEF P!room
  <2>2. buf < size + BUF_CAP
    BY <2>1 DEF Typed
  <2> QED BY <1>1, <1>4, <2>1, <2>2 DEF P!stored, P!room, P!advanced
<1>8. Aligned(buf, <<c>> \o y, text, size, memory)
  BY <1>5 DEF Exact
<1>9. Aligned(buf + 1, y, text, size, [memory EXCEPT ![buf] = c])
  BY <1>5, <1>6, <1>7, <1>8, AlignedTurn DEF Typed
<1>10. Aligned(buf', Rest(loops', format', args'), text', size', memory')
  BY <1>1, <1>4, <1>7, <1>9
<1>11. format' \in Seq(P!Directives) /\ P!supplied(format', args') /\ P!Separate(format')
  BY <1>1 DEF Exact
<1> QED BY <1>5, <1>10, <1>11 DEF Exact

\* The end of the format.
LEMMA ExactFinish ==
  ASSUME Typed, Exact, P!finish
  PROVE  result' \in Nat /\ Complete(result', text', size', memory')
<1>1. /\ loops = <<>> /\ format = <<>> /\ UNCHANGED <<size, text>>
      /\ memory' = P!terminated(P!stored(P!NUL)) /\ result' = (buf + 1) - 1
  BY DEF P!finish, P!entry
<1>2. Rest(loops, format, args) = <<>>
  BY <1>1, RestBegins DEF Exact
<1>3. Aligned(buf, <<>>, text, size, memory)
  BY <1>2 DEF Exact
<1>4. result' = buf /\ buf \in Nat
  BY <1>1 DEF Typed
<1>5. PICK m1 : m1 = P!stored(P!NUL)
  OBVIOUS
<1>6. /\ m1 = IF buf < size THEN [memory EXCEPT ![buf] = "NUL"] ELSE memory
      /\ memory' = IF size > 0 THEN [m1 EXCEPT ![size - 1] = "NUL"] ELSE m1
  BY <1>1, <1>5 DEF P!stored, P!room, P!terminated, P!NUL
<1>7. Complete(buf, text, size, memory')
  BY <1>3, <1>6, AlignedEnd DEF Typed
<1> QED BY <1>1, <1>4, <1>7

\* A "%c" stands for a character.
LEMMA ExactChar ==
  ASSUME Typed, Exact, loops = <<>>, format # <<>>, Head(format).type = "c"
  PROVE  Len(text) > buf
<1>1. format \in Seq(P!Directives) /\ P!supplied(format, args)
  BY DEF Exact
<1>2. PICK dir, arg : dir = Head(format) /\ arg = P!argument(format, args, 1)
  OBVIOUS
<1>3. dir.type = "c" /\ dir \in P!Directives /\ Suits(dir, arg) /\ P!takes(dir)
  <2>1. P!takes(dir)
    BY <1>2 DEF P!takes
  <2> QED BY <1>1, <1>2, <2>1, SuppliedHead
<1>4. arg \in Chars
  BY <1>3 DEF Suits
<1>5. PICK ls : ls = P!directive(dir, arg)
  OBVIOUS
<1>6. ls = <<P!loop("plain", <<arg>>)>>
  BY <1>3, <1>5 DEF P!directive, P!Numbers
<1>7. ls # <<>> /\ Head(ls) = P!loop("plain", <<arg>>)
  BY <1>6
<1>8. /\ ls \in Seq(Loops) /\ Tail(format) \in Seq(P!Directives)
      /\ P!supplied(Tail(format), Left(format, args))
      /\ Rest(loops, format, args) = Rest(ls, Tail(format), Left(format, args))
  BY <1>1, <1>2, <1>5, RestBegins
<1>9. PICK x, y, z : /\ x = P!meant(Head(ls)) /\ z = Rest(loops, format, args)
                     /\ y = Rest(Tail(ls), Tail(format), Left(format, args))
  OBVIOUS
<1>10. x \in Seq(Chars) /\ y \in Seq(Chars) /\ z = x \o y
  BY <1>7, <1>8, <1>9, RestOf
<1>11. P!meant(P!loop("plain", <<arg>>)) = <<arg>>
  <2>1. <<arg>> \in Seq(Chars)
    BY ONLY <1>4
  <2> QED BY <2>1, LoopIs
<1>12. x = <<arg>>
  BY <1>7, <1>9, <1>11
<1>13. Len(z) = 1 + Len(y) /\ Len(y) \in Nat
  BY ONLY <1>4, <1>10, <1>12
<1>14. Len(text) = buf + Len(z) /\ buf \in Nat
  BY <1>9 DEF Exact, Aligned, Typed
<1> QED BY <1>13, <1>14

\* What is true of every call of vsnprintf, whatever its format: it follows
\* it until the end of the buffer, and when it has gone beyond that it
\* returns more than its size.
WholeInv ==
  /\ Typed
  /\ result = NULL => outcome = NULL /\ (Exact \/ Beyond)
  /\ result # NULL => /\ result \in Nat /\ loops = <<>> /\ format = <<>>
                      /\ result > size \/ Complete(result, text, size, memory)
  /\ outcome = "puts" => result # NULL /\ result <= size

\* Before the end vsnprintf is in the text or beyond the buffer.
LEMMA WholeGoesOn ==
  WholeInv /\ (P!begin \/ P!turn \/ P!leave) =>
    result' = result /\ (result = NULL => Exact' \/ Beyond')
<1> SUFFICES ASSUME WholeInv, P!begin \/ P!turn \/ P!leave
             PROVE  result' = result /\ (result = NULL => Exact' \/ Beyond')
  OBVIOUS
<1>1. Typed /\ (result = NULL => Exact \/ Beyond)
  BY DEF WholeInv
<1>2. size \in Nat /\ buf \in Nat /\ BUF_CAP \in Nat \ {0} /\ text \in Seq(Chars)
  BY <1>1, CasesAssumption DEF Typed
<1>3. CASE P!begin
  <2>1. /\ loops = <<>> /\ format # <<>>
        /\ UNCHANGED <<buf, size, text, result>>
    BY <1>3 DEF P!begin, P!entry
  <2>2. SUFFICES ASSUME result = NULL PROVE Exact' \/ Beyond'
    BY <2>1
  <2>3. CASE Beyond
    BY <2>1, <2>3 DEF Beyond
  <2>4. CASE Exact /\ (Head(format).type = "c" => P!room)
    BY <1>1, <1>3, <2>4, ExactBegins
  <2>5. CASE Exact /\ Head(format).type = "c" /\ ~P!room
    <3>1. /\ format \in Seq(P!Directives) /\ P!supplied(format, args)
          /\ ~P!cut_short(format)
      BY <2>1, <2>5, SeparateTail DEF Exact
    <3>2. PICK dir, arg : dir = Head(format) /\ arg = P!argument(format, args, 1)
      OBVIOUS
    <3>3. dir.type = "c" /\ dir \in P!Directives /\ Suits(dir, arg) /\ P!takes(dir)
      <4>1. P!takes(dir)
        BY <2>5, <3>2 DEF P!takes
      <4> QED BY <2>1, <2>5, <3>1, <3>2, <4>1, SuppliedHead
    <3>4. arg \in Chars /\ arg = Head(args)
      BY <2>1, <3>1, <3>2, <3>3, SuppliedHead DEF Suits
    <3>5. loops' = P!directive(dir, arg)
      BY <1>3, <3>1, <3>2, <3>3, <3>4 DEF P!begin
    <3>6. loops' = <<P!loop("plain", <<arg>>)>>
      BY <3>3, <3>5 DEF P!directive, P!Numbers
    <3>7. P!goes_on(P!loop("plain", <<arg>>))
      BY DEF P!goes_on, P!loop
    <3>8. loops' # <<>> /\ P!goes_on(Head(loops'))
      BY <3>6, <3>7
    <3>9. Len(text) > buf
      BY <1>1, <2>1, <2>5, ExactChar
    <3>10. buf >= size
      BY <1>2, <2>5 DEF P!room
    <3>11. Len(text) \in Nat
      BY <1>2
    <3> QED BY <1>2, <2>1, <3>8, <3>9, <3>10, <3>11 DEF Beyond
  <2> QED BY <1>1, <2>2, <2>3, <2>4, <2>5
<1>4. CASE P!turn
  <2>1. /\ loops # <<>> /\ P!goes_on(Head(loops)) /\ buf' = P!advanced
        /\ UNCHANGED <<size, text, result>>
    BY <1>4 DEF P!turn, P!entry
  <2>2. SUFFICES ASSUME result = NULL PROVE Exact' \/ Beyond'
    BY <2>1
  <2>3. ASSUME Len(text) > size, buf >= size
        PROVE  Beyond'
    <3>1. buf' > size
      BY <1>2, <2>1, <2>3 DEF P!advanced
    <3> QED BY <2>1, <2>3, <3>1 DEF Beyond
  <2>4. CASE Beyond
    <3>1. Len(text) > size /\ buf >= size
      BY <1>2, <2>4 DEF Beyond
    <3> QED BY <2>3, <3>1
  <2>5. CASE Exact /\ P!room
    BY <1>1, <1>4, <2>5, ExactTurns
  <2>6. CASE Exact /\ ~P!room
    <3>1. Len(text) > buf /\ buf >= size /\ Len(text) \in Nat
      BY <1>1, <1>2, <2>1, <2>6, ExactGoesOn DEF P!room
    <3>2. Len(text) > size
      BY <1>2, <3>1
    <3> QED BY <2>3, <3>1, <3>2
  <2> QED BY <1>1, <2>2, <2>4, <2>5, <2>6
<1>5. CASE P!leave
  <2>1. /\ loops # <<>> /\ ~P!goes_on(Head(loops)) /\ UNCHANGED <<buf, size, text, result>>
    BY <1>5 DEF P!leave, P!entry
  <2>2. CASE Beyond
    <3>1. Len(text) > size /\ buf > size
      BY <2>1, <2>2 DEF Beyond
    <3> QED BY <2>1, <3>1 DEF Beyond
  <2>3. CASE Exact
    BY <1>1, <1>5, <2>1, <2>3, ExactLeaves
  <2> QED BY <1>1, <2>1, <2>2, <2>3
<1> QED BY <1>3, <1>4, <1>5

\* Every step keeps the invariant.
LEMMA WholeNext == WholeInv /\ P!Next => WholeInv'
<1> SUFFICES ASSUME WholeInv, P!Next
             PROVE  WholeInv'
  OBVIOUS
<1>1. /\ Typed
      /\ result = NULL => outcome = NULL /\ (Exact \/ Beyond)
      /\ result # NULL => /\ result \in Nat /\ loops = <<>> /\ format = <<>>
                          /\ result > size \/ Complete(result, text, size, memory)
      /\ outcome = "puts" => result # NULL /\ result <= size
  BY DEF WholeInv
<1>2. Typed' /\ size' = size /\ text' = text
  BY <1>1, TypedKept
<1>3. CASE P!begin \/ P!turn \/ P!leave
  <2>1. result' = result /\ (result = NULL => Exact' \/ Beyond')
    BY <1>3, WholeGoesOn
  <2>2. outcome' = outcome
    BY <1>3 DEF P!begin, P!turn, P!leave
  <2>3. result = NULL
    <3>1. loops # <<>> \/ format # <<>>
      BY <1>3 DEF P!begin, P!turn, P!leave
    <3> QED BY <1>1, <3>1
  <2> QED BY <1>1, <1>2, <2>1, <2>2, <2>3, NullAssumption DEF WholeInv
<1>4. CASE P!finish
  <2>1. /\ loops = <<>> /\ format = <<>> /\ result = NULL /\ result' = (buf + 1) - 1
        /\ UNCHANGED <<format, loops, outcome>>
    BY <1>4 DEF P!finish
  <2>2. buf \in Nat /\ size \in Nat /\ result' = buf
    BY <1>1, <2>1 DEF Typed
  <2>3. result' # NULL
    BY <2>2, NullAssumption
  <2>4. result' > size' \/ Complete(result', text', size', memory')
    <3>1. CASE Beyond
      BY <1>2, <2>1, <2>2, <3>1 DEF Beyond
    <3>2. CASE Exact
      BY <1>1, <1>4, <3>2, ExactFinish
    <3> QED BY <1>1, <2>1, <3>1, <3>2
  <2> QED BY <1>1, <1>2, <2>1, <2>2, <2>3, <2>4, NullAssumption DEF WholeInv
<1>5. ASSUME NEW function, P!prints(function) \/ P!returns(function)
      PROVE  WholeInv'
  <2>1. /\ result # NULL /\ UNCHANGED <<loops, format, memory, result>>
        /\ outcome' = "puts" => result <= size
    BY <1>5, Zenon DEF P!prints, P!returns, P!fits
  <2> QED BY <1>1, <1>2, <2>1 DEF WholeInv
<1>6. CASE P!done
  <2>1. UNCHANGED <<loops, format, args, buf, memory, result, outcome, size, text>>
    BY <1>6 DEF P!done, P!vars, P!entry
  <2>2. Exact' = Exact /\ Beyond' = Beyond
    BY <2>1 DEF Exact, Beyond
  <2> QED BY <1>1, <1>2, <2>1, <2>2 DEF WholeInv
<1> QED BY <1>3, <1>4, <1>5, <1>6
        DEF P!Next, P!printf, P!fprintf, P!snprintf, P!sprintf

\* It holds at first.
LEMMA WholeInit == Separated /\ P!Init => WholeInv
<1> SUFFICES ASSUME Separated, P!Init
             PROVE  WholeInv
  OBVIOUS
<1>1. PICK c \in Cases :
        /\ format = c[2] /\ args = c[3] /\ loops = <<>> /\ buf = 0 /\ size = c[4]
        /\ memory = [i \in -1 .. c[4] |-> NULL] /\ result = NULL /\ outcome = NULL
        /\ text = P!written(c[2], c[3])
  BY DEF P!Init
<1>2. /\ format \in Seq(P!Directives) /\ P!supplied(format, args) /\ size \in Nat
      /\ P!Separate(format)
  BY <1>1, CasesAssumption DEF P!Legal, Separated
<1>3. text \in Seq(Chars) /\ text = P!written(format, args)
  BY <1>1, <1>2, WrittenIs
<1>4. Cells(memory, size) /\ \A i \in 0 .. size - 1 : memory[i] = NULL
  BY <1>1, <1>2 DEF Cells
<1>5. Rest(loops, format, args) = text
  <2>1. Meants(<<>>) = <<>>
    BY DEF Meants
  <2>2. <<>> \o text = text
    BY ONLY <1>3, ConcatEmptySeq
  <2> QED BY <1>1, <1>3, <2>1, <2>2, JoinedEmpty DEF Rest
<1>6. Aligned(buf, Rest(loops, format, args), text, size, memory)
  <2>1. PICK n \in Nat : n = Len(text)
    BY <1>3
  <2>2. n = 0 + n /\ \A i \in 1 .. n : 0 + i = i
    OBVIOUS
  <2>3. \A i \in 0 .. size - 1 : ~(i < 0)
    OBVIOUS
  <2>4. Aligned(0, text, text, size, memory)
    BY <1>4, <2>1, <2>2, <2>3 DEF Aligned
  <2> QED BY <1>1, <1>5, <2>4
<1>7. loops \in Seq(Loops)
  BY <1>1
<1>8. Typed /\ Exact
  <2>1. 0 \in Nat
    OBVIOUS
  <2> QED BY <1>1, <1>2, <1>3, <1>4, <1>6, <1>7, <2>1 DEF Typed, Exact
<1> QED BY <1>1, <1>8, NullAssumption DEF WholeInv

\* The buffer m has the whole text t, or all but the last character: puts
\* finds it.
LEMMA WholeShown ==
  ASSUME size \in Nat \ {0}, text \in Seq(Chars), Len(text) <= size,
         Complete(Len(text), text, size, memory)
  PROVE  P!shown = IF Len(text) = size THEN SubSeq(text, 1, size - 1) ELSE text
<1>1. PICK n \in Nat : n = Len(text)
  OBVIOUS
<1>2. PICK e \in Nat : e = IF n = size THEN size - 1 ELSE n
  OBVIOUS
<1>3. e \in 0 .. size - 1 /\ e <= n /\ n <= size
  BY <1>1, <1>2
<1>4. memory[e] = "NUL"
  <2>1. CASE e = size - 1
    BY <2>1 DEF Complete
  <2>2. CASE e # size - 1
    <3>1. e = n /\ e \in 0 .. size - 2
      BY <1>2, <1>3, <2>2
    <3>2. n <= size /\ ~(e < n)
      BY <3>1, <1>3
    <3> QED BY <1>1, <3>1, <3>2 DEF Complete
  <2> QED BY <2>1, <2>2
<1>5. ASSUME NEW j \in 0 .. e - 1
      PROVE  memory[j] = text[j + 1] /\ memory[j] # "NUL"
  <2>1. j \in 0 .. size - 2 /\ j < n /\ j + 1 \in 1 .. n
    BY <1>3
  <2>2. memory[j] = text[j + 1]
    BY <1>1, <2>1 DEF Complete
  <2>3. text[j + 1] \in Chars
    BY <1>1, <2>1
  <2> QED BY <2>2, <2>3, CharsAssumption
<1> DEFINE First(i) == memory[i] = P!NUL /\ \A j \in 0 .. i - 1 : memory[j] # P!NUL
           nul == CHOOSE i \in 0 .. size - 1 : First(i)
<1>6. First(e)
  BY <1>4, <1>5 DEF P!NUL
<1>7. nul \in 0 .. size - 1 /\ First(nul)
  BY <1>3, <1>6, Zenon
<1>8. nul = e
  <2> HIDE DEF nul
  <2>1. ~(nul < e)
    <3>1. nul < e => nul \in 0 .. e - 1
      BY <1>3, <1>7
    <3> QED BY <1>5, <1>7, <3>1 DEF P!NUL
  <2>2. ~(e < nul)
    <3>1. e < nul => e \in 0 .. nul - 1
      BY <1>3, <1>7
    <3> QED BY <1>4, <1>7, <3>1 DEF P!NUL
  <2> QED BY <1>3, <1>7, <2>1, <2>2
<1>9. P!shown = [i \in 1 .. e |-> memory[i - 1]]
  <2>1. P!shown = [i \in 1 .. nul |-> memory[i - 1]]
    BY Zenon DEF P!shown
  <2> HIDE DEF nul
  <2> QED BY <1>8, <2>1
<1>10. \A i \in 1 .. e : memory[i - 1] = text[i]
  <2>1. ASSUME NEW i \in 1 .. e
        PROVE  memory[i - 1] = text[i]
    <3>1. i - 1 \in 0 .. e - 1 /\ (i - 1) + 1 = i
      OBVIOUS
    <3> QED BY <1>5, <3>1
  <2> QED BY <2>1
<1>11. P!shown = [i \in 1 .. e |-> text[i]]
  BY <1>9, <1>10
<1>12. CASE n = size
  <2>1. e = size - 1 /\ size - 1 \in Nat
    BY <1>2, <1>12
  <2>2. SubSeq(text, 1, size - 1) = [i \in 1 .. size - 1 |-> text[i]]
    <3>1. PICK k \in Nat : k = size - 1
      BY <2>1
    <3>2. k <= Len(text)
      BY <1>1, <1>12, <3>1
    <3>3. SubSeq(text, 1, k) = [i \in 1 .. k |-> text[i]]
      BY ONLY <3>1, <3>2, text \in Seq(Chars)
    <3> QED BY <3>1, <3>3
  <2> QED BY <1>1, <1>11, <1>12, <2>1, <2>2
<1>13. CASE n # size
  <2>1. text = [i \in 1 .. n |-> text[i]]
    BY <1>1
  <2> QED BY <1>1, <1>2, <1>11, <1>13, <2>1
<1> QED BY <1>12, <1>13

\* printf and fprintf print a text whole, or panic, or lose its last
\* character when it is as long as the buffer, for every argument there is,
\* every size of the buffer, and every format in which no unknown placeholder
\* is directly before another placeholder.
THEOREM PutsWholeAlways == Separated => (Spec => []PutsWhole)
<1> SUFFICES ASSUME Separated
             PROVE  Spec => []PutsWhole
  OBVIOUS
<1>1. Init => (part = "printf" => WholeInv)
  BY WholeInit DEF Init
<1>2. (part = "printf" => WholeInv) /\ [Next]_vars => (part = "printf" => WholeInv)'
  <2> SUFFICES ASSUME part = "printf" => WholeInv, [Next]_vars, part' = "printf"
               PROVE  WholeInv'
    OBVIOUS
  <2>1. CASE printing
    BY <2>1, WholeNext DEF printing
  <2>2. CASE UNCHANGED printf
    <3>1. part' = part
      BY DEF Next, vars, booting, converting, printing, copying, iterating, finished
    <3> QED BY <2>2, <3>1 DEF printf, WholeInv, Typed, Exact, Beyond
  <2> QED BY <2>1, <2>2 DEF Next, vars, booting, converting, copying, iterating, finished
<1>3. (part = "printf" => WholeInv) => PutsWhole
  <2> SUFFICES ASSUME WholeInv, outcome = "puts", size > 0
               PROVE  P!shown = IF Len(text) = size THEN SubSeq(text, 1, size - 1)
                                ELSE text
    BY Zenon DEF PutsWhole, P!PutsWhole
  <2>1. /\ size \in Nat \ {0} /\ text \in Seq(Chars) /\ result \in Nat /\ result <= size
        /\ result > size \/ Complete(result, text, size, memory)
    BY DEF WholeInv, Typed
  <2>2. Complete(result, text, size, memory) /\ result = Len(text)
    BY <2>1 DEF Complete
  <2> QED BY <2>1, <2>2, WholeShown
<1> QED BY <1>1, <1>2, <1>3, PTL DEF Spec

\* A text with a "%c" fits the buffer: without room "%c" leaves its argument
\* to the next directive.
CharsFit ==
  \A c \in Cases :
    \/ Len(P!written(c[2], c[3])) <= c[4]
    \/ \A i \in 1 .. Len(c[2]) : c[2][i].type # "c"

\* Then the arguments are those of the directives.
NumbersInv ==
  /\ WholeInv
  /\ format \in Seq(P!Directives) /\ P!supplied(format, args) /\ P!Separate(format)
  /\ Len(text) <= size \/ \A i \in 1 .. Len(format) : format[i].type # "c"

\* It holds when vsnprintf is called.
LEMMA NumbersInit == CharsFit /\ Separated /\ P!Init => NumbersInv
<1> SUFFICES ASSUME CharsFit, Separated, P!Init
             PROVE  NumbersInv
  OBVIOUS
<1>1. PICK c \in Cases :
        /\ format = c[2] /\ args = c[3] /\ size = c[4] /\ text = P!written(c[2], c[3])
  BY DEF P!Init
<1>2. format \in Seq(P!Directives) /\ P!supplied(format, args) /\ P!Separate(format)
  BY <1>1, CasesAssumption DEF P!Legal, Separated
<1>3. Len(text) <= size \/ \A i \in 1 .. Len(format) : format[i].type # "c"
  BY <1>1, Zenon DEF CharsFit
<1> QED BY <1>2, <1>3, WholeInit DEF NumbersInv

\* "%c" has room.
LEMMA NumbersRoom ==
  ASSUME NumbersInv, P!begin, Head(format).type = "c"
  PROVE  P!room
<1>1. loops = <<>> /\ format # <<>> /\ format \in Seq(P!Directives)
  BY DEF P!begin, NumbersInv
<1>2. 1 \in 1 .. Len(format) /\ format[1] = Head(format)
  BY ONLY <1>1
<1>3. Len(text) <= size
  BY <1>2 DEF NumbersInv
<1>4. Typed /\ result = NULL /\ (Exact \/ Beyond)
  BY <1>1 DEF NumbersInv, WholeInv
<1>5. size \in Nat /\ buf \in Nat /\ Len(text) \in Nat
  BY <1>4 DEF Typed
<1>6. Exact
  BY <1>3, <1>4, <1>5 DEF Beyond
<1>7. Len(text) > buf
  BY <1>1, <1>4, <1>6, ExactChar
<1> QED BY <1>3, <1>5, <1>7 DEF P!room

\* vsnprintf keeps it, as a directive that is begun takes just its
\* argument.
LEMMA NumbersNext == NumbersInv /\ P!Next => NumbersInv'
<1> SUFFICES ASSUME NumbersInv, P!Next
             PROVE  NumbersInv'
  OBVIOUS
<1>1. WholeInv' /\ size' = size /\ text' = text
  BY WholeNext, TypedKept DEF NumbersInv, WholeInv
<1>2. CASE P!begin
  <2>0. format # <<>> /\ ~P!cut_short(format) /\ P!Separate(Tail(format))
    <3>1. format # <<>>
      BY <1>2 DEF P!begin
    <3> QED BY <3>1, SeparateTail DEF NumbersInv
  <2>1. format # <<>> /\ format' = Tail(format)
    BY <1>2, <2>0 DEF P!begin
  <2>2. Head(format).type = "c" => P!room
    BY <1>2, NumbersRoom
  <2>3. args' = Left(format, args)
    BY <1>2, <2>0, <2>2, Zenon DEF P!begin, Left
  <2>4. /\ P!supplied(format', args')
        /\ \A i \in 1 .. Len(format') : format'[i] = format[i + 1]
    BY <2>1, <2>3, SuppliedTail DEF NumbersInv
  <2>5. /\ format' \in Seq(P!Directives) /\ Len(format) = Len(format') + 1
        /\ Len(format') \in Nat
    BY <2>1, TailHas DEF NumbersInv
  <2>6. ASSUME \A i \in 1 .. Len(format) : format[i].type # "c", NEW i \in 1 .. Len(format')
        PROVE  format'[i].type # "c"
    <3>1. i + 1 \in 1 .. Len(format)
      BY <2>5
    <3> QED BY <2>4, <2>6, <3>1
  <2> QED BY <1>1, <2>0, <2>1, <2>4, <2>5, <2>6 DEF NumbersInv
<1>3. CASE UNCHANGED <<format, args>>
  BY <1>1, <1>3 DEF NumbersInv
<1> QED BY <1>2, <1>3
        DEF P!Next, P!turn, P!finish, P!leave, P!printf, P!fprintf, P!prints, P!snprintf,
            P!sprintf, P!returns, P!done, P!vars

\* As long as a "%c" has room for its character, every number takes as many
\* characters as the width asks for, and reads back as the value its length
\* leaves of the argument: for every number, base, width, precision and
\* combination of flags, in every format in which no unknown placeholder is
\* directly before another.
THEOREM NumbersRightAlways == CharsFit /\ Separated => (Spec => []NumbersRight)
<1> SUFFICES ASSUME CharsFit, Separated
             PROVE  Spec => []NumbersRight
  OBVIOUS
<1>1. Init => (part = "printf" => NumbersInv)
  BY NumbersInit DEF Init
<1>2. (part = "printf" => NumbersInv) /\ [Next]_vars => (part = "printf" => NumbersInv)'
  <2> SUFFICES ASSUME part = "printf" => NumbersInv, [Next]_vars, part' = "printf"
               PROVE  NumbersInv'
    OBVIOUS
  <2>1. CASE printing
    BY <2>1, NumbersNext DEF printing
  <2>2. CASE UNCHANGED printf
    <3>1. part' = part
      BY DEF Next, vars, booting, converting, printing, copying, iterating, finished
    <3> QED BY <2>2, <3>1 DEF printf, NumbersInv, WholeInv, Typed, Exact, Beyond
  <2> QED BY <2>1, <2>2 DEF Next, vars, booting, converting, copying, iterating, finished
<1>3. (part = "printf" => NumbersInv) => NumbersRight
  <2> SUFFICES ASSUME NumbersInv, NEW i \in DOMAIN format, format[i].type \in P!Numbers
               PROVE  LET dir == format[i]
                          arg == P!argument(format, args, i)
                          str == P!stands_for(dir, arg)
                          bare == P!stands_for([dir EXCEPT !.width = NULL], arg)
                      IN  /\ Len(str) = P!largest(P!width(dir), Len(bare))
                          /\ P!read_back(str, P!number(dir)[1]) =
                               P!truncated(arg, dir.length, dir.type = "d")
    BY Zenon DEF NumbersRight, P!NumbersRight
  <2>1. format \in Seq(P!Directives) /\ P!supplied(format, args) /\ i \in 1 .. Len(format)
    BY DEF NumbersInv
  <2>2. PICK dir, arg : dir = format[i] /\ arg = P!argument(format, args, i)
    OBVIOUS
  <2>3. dir \in P!Directives /\ Suits(dir, arg) /\ dir.type \in P!Numbers
    BY <2>1, <2>2, SuppliedIs
  <2>4. arg \in Int
    BY <2>3 DEF Suits, P!takes, P!Numbers
  <2>5. /\ Len(P!stands_for(dir, arg)) =
             P!largest(P!width(dir), Len(P!stands_for([dir EXCEPT !.width = NULL], arg)))
        /\ P!read_back(P!stands_for(dir, arg), P!number(dir)[1]) = Printed(dir, arg)
    BY <2>3, <2>4, NumberRight
  <2> QED BY <2>2, <2>5, Zenon DEF Printed
<1> QED BY <1>1, <1>2, <1>3, PTL DEF Spec

\* No "%c", and no precision of a "%s" beyond the end of its string.
Mild(f, as) ==
  \A i \in 1 .. Len(f) :
    /\ f[i].type # "c"
    /\ f[i].type = "s" /\ f[i].precision # NULL =>
         P!given(f[i], 0) <= Len(P!argument(f, as, i))

\* A text fits the buffer, or what is beyond the end is still counted and
\* needs no argument that is only looked at when there is room.
Regular ==
  \A c \in Cases :
    /\ Len(P!written(c[2], c[3])) <= c[4] + BUF_CAP
    /\ Len(P!written(c[2], c[3])) <= c[4] \/ Mild(c[2], c[3])

\* A loop with a precision has the characters for it.
Steady(ls) ==
  \A i \in 1 .. Len(ls) : ls[i].kind = "bounded" => ls[i].left <= Len(ls[i].chars)

\* A loop that has no room stands still.
Stuck ==
  /\ loops \in Seq(Loops) /\ loops # <<>>
  /\ P!goes_on(Head(loops)) /\ Head(loops).kind = "once"
  /\ ~P!room

\* vsnprintf follows the format to its end, also beyond the buffer, or
\* stands still.
RegularInv ==
  /\ Typed /\ Len(text) <= size + BUF_CAP
  /\ result = NULL =>
       \/ Stuck
       \/ /\ Exact
          /\ Len(text) <= size \/ (Mild(format, args) /\ Steady(loops))
  /\ result # NULL =>
       /\ result \in Nat /\ loops = <<>> /\ format = <<>>
       /\ Complete(result, text, size, memory)

\* After a directive of a mild format the rest is mild, with the arguments
\* left.
LEMMA MildTail ==
  ASSUME NEW f \in Seq(P!Directives), f # <<>>, NEW as, P!supplied(f, as), Mild(f, as)
  PROVE  /\ Mild(Tail(f), Left(f, as))
         /\ Head(f).type # "c"
         /\ Head(f).type = "s" /\ Head(f).precision # NULL =>
              P!given(Head(f), 0) <= Len(P!argument(f, as, 1))
<1>1. /\ Len(f) = Len(Tail(f)) + 1 /\ Len(Tail(f)) \in Nat
      /\ \A k \in 1 .. Len(Tail(f)) : Tail(f)[k] = f[k + 1]
  BY TailHas
<1>2. PICK n, g, rest : n = Len(Tail(f)) /\ g = Tail(f) /\ rest = Left(f, as)
  OBVIOUS
<1>3. n \in Nat /\ Len(f) = n + 1
  BY <1>1, <1>2
<1>4. ASSUME NEW i \in 1 .. n
      PROVE  /\ g[i].type # "c"
             /\ g[i].type = "s" /\ g[i].precision # NULL =>
                  P!given(g[i], 0) <= Len(P!argument(g, rest, i))
  <2>1. i + 1 \in 1 .. Len(f)
    BY <1>3
  <2>2. g[i] = f[i + 1] /\ P!argument(g, rest, i) = P!argument(f, as, i + 1)
    BY <1>2, SuppliedTail
  <2>3. /\ f[i + 1].type # "c"
        /\ f[i + 1].type = "s" /\ f[i + 1].precision # NULL =>
             P!given(f[i + 1], 0) <= Len(P!argument(f, as, i + 1))
    BY <2>1 DEF Mild
  <2> QED BY <2>2, <2>3
<1>5. Mild(g, rest)
  BY <1>2, <1>4 DEF Mild
<1>6. 1 \in 1 .. Len(f) /\ f[1] = Head(f)
  <2>1. Len(f) >= 1
    BY <1>3
  <2> QED BY <2>1, <1>3, HeadHas
<1>7. /\ f[1].type # "c"
      /\ f[1].type = "s" /\ f[1].precision # NULL =>
           P!given(f[1], 0) <= Len(P!argument(f, as, 1))
  BY <1>6 DEF Mild
<1> QED BY <1>2, <1>5, <1>6, <1>7

\* The bounded loop of a "%s" with such a precision stays within its
\* string.
LEMMA DirectiveSteady ==
  ASSUME NEW dir \in P!Directives, NEW arg, Suits(dir, arg),
         dir.type = "s" /\ dir.precision # NULL => P!given(dir, 0) <= Len(arg)
  PROVE  Steady(P!directive(dir, arg))
<1>1. ASSUME NEW kind \in {"plain", "once"}, NEW x
      PROVE  P!loop(kind, x).kind # "bounded"
  BY DEF P!loop
<1>2. ASSUME NEW l, l.kind # "bounded"
      PROVE  Steady(<<l>>)
  BY <1>2 DEF Steady
<1>3. dir.type \in P!Numbers =>
        dir.type # "char" /\ dir.type # "c" /\ dir.type # "s" /\ dir.type # "%" /\ dir.type # "?"
  BY DEF P!Numbers
<1>4. CASE dir.type = "char"
  <2>1. P!directive(dir, arg) = <<P!loop("plain", <<dir.char>>)>>
    <3>1. dir.type \notin P!Numbers
      BY <1>3, <1>4
    <3> QED BY <1>4, <3>1 DEF P!directive
  <2> QED BY <1>1, <1>2, <2>1
<1>5. CASE dir.type \in P!Numbers
  <2>1. arg \in Int
    BY <1>3, <1>5 DEF Suits, P!takes
  <2>2. PICK x, y, z : P!directive(dir, arg) =
               << P!loop("plain", x), P!loop("once", y), P!loop("plain", z) >>
    BY <1>5, <2>1, NumberPrinted
  <2>3. PICK k, l, m :
          k = P!loop("plain", x) /\ l = P!loop("once", y) /\ m = P!loop("plain", z)
    OBVIOUS
  <2>4. k.kind # "bounded" /\ l.kind # "bounded" /\ m.kind # "bounded"
    BY <1>1, <2>3
  <2>5. ASSUME NEW i \in 1 .. 3
        PROVE  << k, l, m >>[i].kind # "bounded"
    <3>1. i = 1 \/ i = 2 \/ i = 3
      OBVIOUS
    <3> QED BY <2>4, <3>1
  <2>6. Len(<< k, l, m >>) = 3
    OBVIOUS
  <2> QED BY <2>2, <2>3, <2>5, <2>6 DEF Steady
<1>6. CASE dir.type = "c"
  <2>1. P!directive(dir, arg) = <<P!loop("plain", <<arg>>)>>
    BY <1>3, <1>6 DEF P!directive
  <2> QED BY <1>1, <1>2, <2>1
<1>7. CASE dir.type = "s"
  <2>1. arg \in Seq(Chars) /\ dir.precision \in Int \cup {NULL}
    BY <1>7, DirectiveFields DEF Suits, P!takes
  <2>2. CASE dir.precision = NULL
    <3>1. P!directive(dir, arg) = <<P!loop("once", arg)>>
      BY <1>3, <1>7, <2>2 DEF P!directive
    <3> QED BY <1>1, <1>2, <3>1
  <2>3. CASE dir.precision # NULL
    <3>1. PICK l : l = [P!loop("bounded", arg) EXCEPT !.left = P!given(dir, 0)]
      OBVIOUS
    <3>2. P!directive(dir, arg) = <<l>>
      BY <1>3, <1>7, <2>3, <3>1 DEF P!directive
    <3>3. l.left = P!given(dir, 0) /\ l.chars = arg
      BY <3>1 DEF P!loop
    <3>4. Steady(<<l>>)
      BY <1>7, <2>3, <3>3 DEF Steady
    <3> QED BY <3>2, <3>4
  <2> QED BY <2>2, <2>3
<1>8. CASE dir.type = "%"
  <2>1. P!directive(dir, arg) = <<P!loop("plain", <<"%">>)>>
    BY <1>3, <1>8 DEF P!directive
  <2> QED BY <1>1, <1>2, <2>1
<1>9. CASE dir.type = "?"
  <2>1. P!directive(dir, arg) = <<P!loop("once", <<"%">>), P!loop("plain", <<dir.char>>)>>
    BY <1>3, <1>9 DEF P!directive
  <2>2. PICK k, l : k = P!loop("once", <<"%">>) /\ l = P!loop("plain", <<dir.char>>)
    OBVIOUS
  <2>3. k.kind # "bounded" /\ l.kind # "bounded"
    BY <1>1, <2>2
  <2>4. Steady(<< k, l >>)
    <3>1. ASSUME NEW i \in 1 .. 2
          PROVE  << k, l >>[i].kind # "bounded"
      <4>1. i = 1 \/ i = 2
        OBVIOUS
      <4> QED BY <2>3, <4>1
    <3>2. Len(<< k, l >>) = 2
      OBVIOUS
    <3> QED BY <3>1, <3>2 DEF Steady
  <2> QED BY <2>1, <2>2, <2>4
<1> QED BY <1>4, <1>5, <1>6, <1>7, <1>8, <1>9, DirectiveFields

\* So have those after the first, and those with another first one that has.
LEMMA SteadyTail ==
  ASSUME NEW ls \in Seq(Loops), ls # <<>>, Steady(ls)
  PROVE  Steady(Tail(ls))
<1>1. PICK t : t = Tail(ls)
  OBVIOUS
<1>2. PICK n : n = Len(t)
  OBVIOUS
<1>3. n \in Nat /\ Len(ls) = n + 1 /\ \A k \in 1 .. n : t[k] = ls[k + 1]
  BY <1>1, <1>2, TailHas
<1>4. ASSUME NEW k \in 1 .. n
      PROVE  t[k].kind = "bounded" => t[k].left <= Len(t[k].chars)
  <2>1. k + 1 \in 1 .. Len(ls)
    BY <1>3
  <2>2. ls[k + 1].kind = "bounded" => ls[k + 1].left <= Len(ls[k + 1].chars)
    BY <2>1 DEF Steady
  <2> QED BY <1>3, <2>2
<1> QED BY <1>1, <1>2, <1>4 DEF Steady

\* A turn of the first loop keeps loops steady.
LEMMA SteadyReplaced ==
  ASSUME NEW ls \in Seq(Loops), ls # <<>>, Steady(ls), NEW l \in Loops,
         l.kind = "bounded" => l.left <= Len(l.chars)
  PROVE  Steady(Replaced(ls, l))
<1>1. PICK t : t = Tail(ls)
  OBVIOUS
<1>2. PICK n : n = Len(t)
  OBVIOUS
<1>3. /\ t \in Seq(Loops) /\ n \in Nat /\ Len(ls) = n + 1
      /\ \A k \in 1 .. n : t[k] = ls[k + 1]
  BY <1>1, <1>2, TailHas
<1>4. ASSUME NEW k \in 1 .. n
      PROVE  t[k].kind = "bounded" => t[k].left <= Len(t[k].chars)
  BY <1>1, <1>2, SteadyTail DEF Steady
<1>5. PICK r : r = <<l>> \o t
  OBVIOUS
<1>6. /\ Len(r) = n + 1 /\ r[1] = l /\ \A k \in 1 .. n : r[k + 1] = t[k]
  BY ONLY <1>2, <1>3, <1>5, l \in Loops
<1>7. ASSUME NEW k \in 1 .. n + 1
      PROVE  r[k].kind = "bounded" => r[k].left <= Len(r[k].chars)
  <2>1. CASE k = 1
    BY <1>6, <2>1
  <2>2. CASE k # 1
    <3>1. k - 1 \in 1 .. n /\ (k - 1) + 1 = k
      BY <1>3, <2>2
    <3>2. r[k] = t[k - 1]
      BY <1>6, <3>1
    <3> QED BY <1>4, <3>1, <3>2
  <2> QED BY <2>1, <2>2
<1> QED BY <1>1, <1>5, <1>6, <1>7 DEF Steady, Replaced

\* The loop after a turn.
LEMMA TurnedIs ==
  ASSUME NEW l \in Loops, P!goes_on(l)
  PROVE  /\ P!room => P!turned(l) = TurnedOn(l)
         /\ ~P!room /\ l.kind = "once" => P!turned(l) = l
         /\ P!room \/ l.kind = "plain" =>
              P!turned(l) \in Loops /\ Len(P!meant(l)) = Len(P!meant(P!turned(l))) + 1
         /\ ~P!room /\ l.kind = "bounded" /\ l.left <= Len(l.chars) =>
              P!turned(l) \in Loops /\ Len(P!meant(l)) = Len(P!meant(P!turned(l))) + 1
         /\ (l.kind = "bounded" => l.left <= Len(l.chars)) =>
              (P!turned(l).kind = "bounded" => P!turned(l).left <= Len(P!turned(l).chars))
<1>1. PICK k, x, n : l = [kind |-> k, chars |-> x, left |-> n]
  BY DEF Loops
<1>2. /\ k \in {"plain", "once", "bounded"} /\ x \in Seq(Chars) /\ n \in Nat
      /\ x # <<>> /\ n > 0
      /\ l.kind = k /\ l.chars = x /\ l.left = n
  BY <1>1 DEF Loops, P!goes_on
<1>3. PICK t : t = Tail(x)
  OBVIOUS
<1>4. t \in Seq(Chars) /\ Len(t) \in Nat /\ Len(x) = Len(t) + 1
  BY <1>2, <1>3, TailHas
<1>0. ASSUME NEW y, NEW m
      PROVE  [l EXCEPT !.chars = y, !.left = m] = [kind |-> k, chars |-> y, left |-> m]
  <2>1. [[kind |-> k, chars |-> x, left |-> n] EXCEPT !.chars = y, !.left = m] =
          [kind |-> k, chars |-> y, left |-> m]
    <3>1. [[kind |-> k, chars |-> x, left |-> n] EXCEPT !.chars = y] =
            [kind |-> k, chars |-> y, left |-> n]
      OBVIOUS
    <3>2. [[kind |-> k, chars |-> y, left |-> n] EXCEPT !.left = m] =
            [kind |-> k, chars |-> y, left |-> m]
      OBVIOUS
    <3> QED BY <3>1, <3>2
  <2> QED BY <1>1, <2>1, Zenon
<1>5. TurnedOn(l) = [kind |-> k, chars |-> t, left |-> n - 1] /\ TurnedOn(l) \in Loops
  <2>1. TurnedOn(l) = [kind |-> k, chars |-> t, left |-> n - 1]
    <3>1. TurnedOn(l) = [l EXCEPT !.chars = Tail(l.chars), !.left = l.left - 1]
      BY DEF TurnedOn
    <3> QED BY <1>0, <1>2, <1>3, <3>1
  <2>2. n - 1 \in Nat
    BY <1>2
  <2> QED BY <1>2, <1>4, <2>1, <2>2 DEF Loops
<1>6. Len(P!meant(l)) = Len(P!meant(TurnedOn(l))) + 1
  <2>1. Len(P!meant(l)) = IF n < Len(x) THEN n ELSE Len(x)
    BY <1>2, MeantIs
  <2>2. Len(P!meant(TurnedOn(l))) = IF n - 1 < Len(t) THEN n - 1 ELSE Len(t)
    BY <1>5, MeantIs
  <2>3. PICK i \in Nat : i = Len(t)
    BY <1>4
  <2> QED BY <1>2, <1>4, <2>1, <2>2, <2>3
<1>7. P!room => P!turned(l) = TurnedOn(l)
  BY DEF P!turned, TurnedOn
<1>8. ASSUME ~P!room
      PROVE  P!turned(l) = CASE k = "plain" -> TurnedOn(l)
                             [] k = "once" -> l
                             [] k = "bounded" -> [kind |-> k, chars |-> x, left |-> n - 1]
  <2>1. CASE k = "plain"
    <3>1. P!turned(l) = [l EXCEPT !.chars = Tail(l.chars), !.left = l.left - 1]
      BY <1>2, <1>8, <2>1 DEF P!turned
    <3>2. P!turned(l) = TurnedOn(l)
      BY <3>1 DEF TurnedOn
    <3> QED BY <2>1, <3>2
  <2>2. CASE k = "once"
    <3>1. P!turned(l) = [l EXCEPT !.chars = l.chars, !.left = l.left]
      BY <1>2, <1>8, <2>2 DEF P!turned
    <3>2. P!turned(l) = l
      BY <1>0, <1>1, <1>2, <3>1
    <3> QED BY <2>2, <3>2
  <2>3. CASE k = "bounded"
    <3>1. P!turned(l) = [l EXCEPT !.chars = l.chars, !.left = l.left - 1]
      BY <1>2, <1>8, <2>3 DEF P!turned
    <3>2. P!turned(l) = [kind |-> k, chars |-> x, left |-> n - 1]
      BY <1>0, <1>2, <3>1
    <3> QED BY <2>3, <3>2
  <2> QED BY <1>2, <2>1, <2>2, <2>3
<1>9. ASSUME ~P!room, k = "bounded", n <= Len(x)
      PROVE  P!turned(l) \in Loops /\ Len(P!meant(l)) = Len(P!meant(P!turned(l))) + 1
  <2>1. P!turned(l) = [kind |-> k, chars |-> x, left |-> n - 1]
    BY <1>8, <1>9
  <2>2. P!turned(l) \in Loops
    <3>1. n - 1 \in Nat
      BY <1>2
    <3> QED BY <1>2, <2>1, <3>1 DEF Loops
  <2>3. Len(P!meant(l)) = IF n < Len(x) THEN n ELSE Len(x)
    BY <1>2, MeantIs
  <2>4. Len(P!meant(P!turned(l))) = IF n - 1 < Len(x) THEN n - 1 ELSE Len(x)
    BY <2>1, <2>2, MeantIs
  <2>5. PICK i \in Nat : i = Len(x)
    BY <1>4
  <2> QED BY <1>2, <1>9, <2>2, <2>3, <2>4, <2>5
<1>10. ASSUME k = "bounded" => n <= Len(x), P!turned(l).kind = "bounded"
       PROVE  P!turned(l).left <= Len(P!turned(l).chars)
  <2>1. CASE P!room \/ k = "plain"
    <3>1. P!turned(l) = TurnedOn(l)
      BY <1>7, <1>8, <2>1
    <3>2. k = "bounded" /\ P!turned(l).left = n - 1 /\ P!turned(l).chars = t
      BY <1>5, <1>10, <3>1
    <3> QED BY <1>2, <1>4, <1>10, <3>2
  <2>2. CASE ~P!room /\ k = "once"
    BY <1>2, <1>8, <1>10, <2>2
  <2>3. CASE ~P!room /\ k = "bounded"
    <3>1. P!turned(l).left = n - 1 /\ P!turned(l).chars = x
      BY <1>8, <2>3
    <3> QED BY <1>2, <1>4, <1>10, <2>3, <3>1
  <2> QED BY <1>2, <2>1, <2>2, <2>3
<1>11. ~P!room /\ k = "plain" => P!turned(l) = TurnedOn(l)
  BY <1>8
<1>12. ~P!room /\ k = "once" => P!turned(l) = l
  BY <1>8
<1> QED BY <1>2, <1>5, <1>6, <1>7, <1>9, <1>10, <1>11, <1>12

\* A turn without room, that does not stand still.
LEMMA ExactPast ==
  ASSUME Typed, Exact, P!turn, ~P!room, Head(loops).kind # "once", Steady(loops),
         Len(text) <= size + BUF_CAP
  PROVE  Exact'
<1>1. /\ loops # <<>> /\ P!goes_on(Head(loops))
      /\ memory' = P!stored(Head(Head(loops).chars)) /\ buf' = P!advanced
      /\ loops' = Replaced(loops, P!turned(Head(loops)))
      /\ UNCHANGED <<format, args, size, text>>
  BY DEF P!turn, P!entry, Replaced
<1>2. /\ loops \in Seq(Loops) /\ format \in Seq(P!Directives)
      /\ P!supplied(format, args) /\ P!Separate(format)
  BY DEF Exact
<1>3. PICK l, l2 : l = Head(loops) /\ l2 = P!turned(Head(loops))
  OBVIOUS
<1>4. l \in Loops /\ l.kind \in {"plain", "once", "bounded"}
  BY <1>1, <1>2, <1>3, MeantsIs DEF Loops
<1>5. l.kind = "bounded" => l.left <= Len(l.chars)
  <2>1. 1 \in 1 .. Len(loops) /\ loops[1] = l
    BY ONLY <1>1, <1>2, <1>3
  <2> QED BY <2>1 DEF Steady
<1>6. l2 \in Loops /\ Len(P!meant(l)) = Len(P!meant(l2)) + 1
  BY <1>1, <1>3, <1>4, <1>5, TurnedIs
<1>7. /\ loops' \in Seq(Loops)
      /\ Len(Rest(loops, format, args)) = Len(Rest(loops', format, args)) + 1
  BY <1>1, <1>2, <1>3, <1>6, RestShorter
<1>8. size \in Nat /\ buf \in Nat /\ text \in Seq(Chars) /\ Len(text) \in Nat
  BY DEF Typed
<1>9. /\ buf >= size /\ buf' = buf + 1 /\ memory' = memory
  <2>1. buf >= size /\ BUF_CAP \in Nat
    BY <1>8, CasesAssumption DEF P!room
  <2>2. Len(text) > buf
    BY <1>1, ExactGoesOn
  <2>3. buf < size + BUF_CAP
    BY <1>8, <2>1, <2>2
  <2> QED BY <1>1, <2>1, <2>3 DEF P!stored, P!advanced
<1>10. PICK x, y : x = Rest(loops, format, args) /\ y = Rest(loops', format, args)
  OBVIOUS
<1>11. x \in Seq(Chars) /\ y \in Seq(Chars) /\ Len(x) = Len(y) + 1
  BY <1>2, <1>7, <1>10, RestTyped
<1>12. Aligned(buf, x, text, size, memory)
  BY <1>10 DEF Exact
<1>13. Aligned(buf + 1, y, text, size, memory)
  BY <1>8, <1>9, <1>11, <1>12, AlignedBeyond
<1>14. Aligned(buf', Rest(loops', format', args'), text', size', memory')
  BY <1>1, <1>9, <1>10, <1>13
<1> QED BY <1>1, <1>2, <1>7, <1>14 DEF Exact

\* It holds when vsnprintf is called.
LEMMA RegularInit == Regular /\ Separated /\ P!Init => RegularInv
<1> SUFFICES ASSUME Regular, Separated, P!Init
             PROVE  RegularInv
  OBVIOUS
<1>1. PICK c \in Cases :
        /\ format = c[2] /\ args = c[3] /\ size = c[4] /\ text = P!written(c[2], c[3])
        /\ loops = <<>> /\ result = NULL /\ buf = 0
  BY DEF P!Init
<1>2. /\ Len(text) <= size + BUF_CAP
      /\ Len(text) <= size \/ Mild(format, args)
  BY <1>1, Zenon DEF Regular
<1>3. Typed /\ (Exact \/ Beyond)
  BY <1>1, WholeInit DEF WholeInv
<1>4. Exact
  <2>1. ~(0 > size) /\ ~(0 = size /\ loops # <<>>)
    BY <1>1, <1>3 DEF Typed
  <2> QED BY <1>1, <1>3, <2>1 DEF Beyond
<1>5. Steady(loops)
  <2>1. Len(loops) = 0
    BY <1>1
  <2> QED BY <2>1 DEF Steady
<1> QED BY <1>1, <1>2, <1>3, <1>4, <1>5 DEF RegularInv

\* Beginning a directive keeps it.
LEMMA RegularBegins ==
  RegularInv /\ P!begin =>
    result' = result /\ Exact' /\ (Len(text) <= size \/ (Mild(format, args)' /\ Steady(loops)'))
<1> SUFFICES ASSUME RegularInv, P!begin
             PROVE  /\ result' = result /\ Exact'
                    /\ Len(text) <= size \/ (Mild(format, args)' /\ Steady(loops)')
  OBVIOUS
<1>0. /\ loops = <<>> /\ format # <<>> /\ result' = result
  BY DEF P!begin
<1>2. Typed /\ Exact /\ (Len(text) <= size \/ (Mild(format, args) /\ Steady(loops)))
  BY <1>0 DEF RegularInv, Stuck
<1>3. format \in Seq(P!Directives) /\ P!supplied(format, args) /\ ~P!cut_short(format)
  BY <1>0, <1>2, SeparateTail DEF Exact
<1>1. /\ loops = <<>> /\ format # <<>> /\ format' = Tail(format) /\ result' = result
  BY <1>0, <1>3 DEF P!begin
<1>4. Head(format).type = "c" => P!room
  <2>1. SUFFICES ASSUME Head(format).type = "c" PROVE P!room
    OBVIOUS
  <2>2. Len(text) <= size
    BY <1>1, <1>2, <1>3, <2>1, MildTail
  <2>3. Len(text) > buf
    BY <1>1, <1>2, <2>1, ExactChar
  <2>4. size \in Nat /\ buf \in Nat /\ Len(text) \in Nat
    BY <1>2 DEF Typed
  <2> QED BY <2>2, <2>3, <2>4 DEF P!room
<1>5. Exact'
  BY <1>2, <1>4, ExactBegins
<1>6. ASSUME Mild(format, args)
      PROVE  Mild(format, args)' /\ Steady(loops)'
  <2>1. PICK dir, arg : dir = Head(format) /\ arg = P!argument(format, args, 1)
    OBVIOUS
  <2>2. /\ dir \in P!Directives /\ Suits(dir, arg)
        /\ P!takes(dir) => arg = Head(args)
        /\ ~P!takes(dir) => arg = NULL
    BY <1>1, <1>3, <2>1, SuppliedHead
  <2>3. loops' = P!directive(dir, arg) /\ args' = Left(format, args)
    BY <1>3, <1>4, <2>1, <2>2, Zenon DEF P!begin, Left
  <2>4. /\ Mild(Tail(format), Left(format, args))
        /\ dir.type = "s" /\ dir.precision # NULL => P!given(dir, 0) <= Len(arg)
    BY <1>1, <1>3, <1>6, <2>1, MildTail
  <2>5. Steady(P!directive(dir, arg))
    BY <2>2, <2>4, DirectiveSteady
  <2> QED BY <1>1, <2>3, <2>4, <2>5
<1> QED BY <1>1, <1>2, <1>5, <1>6

\* So does a turn of a loop, in the buffer and beyond its end.
LEMMA RegularTurns ==
  RegularInv /\ P!turn =>
    /\ result' = result
    /\ result = NULL =>
         Stuck' \/ (Exact' /\ (Len(text) <= size \/ (Mild(format, args)' /\ Steady(loops)')))
<1> SUFFICES ASSUME RegularInv, P!turn, result = NULL
             PROVE  \/ Stuck'
                    \/ /\ Exact'
                       /\ Len(text) <= size \/ (Mild(format, args)' /\ Steady(loops)')
  BY DEF P!turn
<1>1. /\ loops # <<>> /\ P!goes_on(Head(loops)) /\ buf' = P!advanced
      /\ loops' = Replaced(loops, P!turned(Head(loops)))
      /\ UNCHANGED <<format, args, size, text>>
  BY DEF P!turn, P!entry, Replaced
<1>2. Typed /\ Len(text) <= size + BUF_CAP
  BY DEF RegularInv
<1>3. size \in Nat /\ buf \in Nat /\ Len(text) \in Nat
  BY <1>2 DEF Typed
<1>4. CASE Stuck
  <2>1. ~P!room'
    <3>1. buf >= size /\ BUF_CAP \in Nat
      BY <1>3, <1>4, CasesAssumption DEF Stuck, P!room
    <3>2. buf' >= size
      BY <1>1, <1>3, <3>1 DEF P!advanced
    <3>3. buf' \in Nat
      BY <1>1, <1>3 DEF P!advanced
    <3> QED BY <1>1, <1>3, <3>2, <3>3 DEF P!room
  <2>2. P!turned(Head(loops)) = Head(loops)
    <3>1. Head(loops) \in Loops
      BY <1>1, <1>4, MeantsIs DEF Stuck
    <3> QED BY <1>1, <1>4, <3>1, TurnedIs DEF Stuck
  <2>3. /\ loops' \in Seq(Loops) /\ loops' # <<>> /\ Head(loops') = Head(loops)
    <3>1. Head(loops) \in Loops
      BY <1>1, <1>4, MeantsIs DEF Stuck
    <3>2. loops \in Seq(Loops)
      BY <1>4 DEF Stuck
    <3>3. PICK l : l = Head(loops)
      OBVIOUS
    <3>4. Replaced(loops, l) \in Seq(Loops) /\ Replaced(loops, l) # <<>>
          /\ Head(Replaced(loops, l)) = l
      BY <1>1, <3>1, <3>2, <3>3, ReplacedIs
    <3> QED BY <1>1, <2>2, <3>3, <3>4
  <2> QED BY <1>1, <1>4, <2>1, <2>3 DEF Stuck
<1>5. CASE Exact /\ (Len(text) <= size \/ (Mild(format, args) /\ Steady(loops))) /\ ~Stuck
  <2>1. loops \in Seq(Loops)
    BY <1>5 DEF Exact
  <2>2. Exact'
    <3>1. CASE P!room
      BY <1>2, <1>5, <3>1, ExactTurns
    <3>2. CASE ~P!room
      <4>1. Head(loops).kind # "once"
        BY <1>1, <1>5, <2>1, <3>2 DEF Stuck
      <4>2. Steady(loops)
        <5>1. Len(text) > buf /\ buf >= size
          BY <1>1, <1>2, <1>3, <1>5, <3>2, ExactGoesOn DEF P!room
        <5> QED BY <1>3, <1>5, <5>1
      <4> QED BY <1>2, <1>5, <3>2, <4>1, <4>2, ExactPast
    <3> QED BY <3>1, <3>2
  <2>3. ASSUME Steady(loops)
        PROVE  Steady(loops')
    <3>1. PICK l, l2 : l = Head(loops) /\ l2 = P!turned(l)
      OBVIOUS
    <3>2. l \in Loops
      BY <1>1, <2>1, <3>1, MeantsIs
    <3>3. l.kind = "bounded" => l.left <= Len(l.chars)
      <4>1. 1 \in 1 .. Len(loops) /\ loops[1] = l
        BY ONLY <1>1, <2>1, <3>1
      <4> QED BY <2>3, <4>1 DEF Steady
    <3>4. l2.kind = "bounded" => l2.left <= Len(l2.chars)
      BY <1>1, <3>1, <3>2, <3>3, TurnedIs
    <3>6. l2 \in Loops
      BY <1>1, <3>1, <3>2, <3>3, TurnedIs DEF Loops
    <3>5. Steady(Replaced(loops, l2))
      BY <1>1, <2>1, <2>3, <3>4, <3>6, SteadyReplaced
    <3> QED BY <1>1, <3>1, <3>5
  <2> QED BY <1>1, <1>5, <2>2, <2>3
<1> QED BY <1>4, <1>5 DEF RegularInv

\* vsnprintf keeps it.
LEMMA RegularNext == RegularInv /\ P!Next => RegularInv'
<1> SUFFICES ASSUME RegularInv, P!Next
             PROVE  RegularInv'
  OBVIOUS
<1>1. /\ Typed /\ Len(text) <= size + BUF_CAP
      /\ result = NULL =>
           \/ Stuck
           \/ Exact /\ (Len(text) <= size \/ (Mild(format, args) /\ Steady(loops)))
      /\ result # NULL =>
           /\ result \in Nat /\ loops = <<>> /\ format = <<>>
           /\ Complete(result, text, size, memory)
  BY DEF RegularInv
<1>2. Typed' /\ size' = size /\ text' = text
  BY <1>1, TypedKept
<1>3. CASE P!begin
  <2>1. /\ result' = result /\ Exact'
        /\ Len(text) <= size \/ (Mild(format, args)' /\ Steady(loops)')
    BY <1>3, RegularBegins
  <2>2. result = NULL
    <3>1. format # <<>>
      BY <1>3 DEF P!begin
    <3> QED BY <1>1, <3>1
  <2> QED BY <1>1, <1>2, <2>1, <2>2 DEF RegularInv
<1>4. CASE P!turn
  <2>1. result = NULL
    <3>1. loops # <<>>
      BY <1>4 DEF P!turn
    <3> QED BY <1>1, <3>1
  <2>2. /\ result' = result
        /\ \/ Stuck'
           \/ Exact' /\ (Len(text) <= size \/ (Mild(format, args)' /\ Steady(loops)'))
    BY <1>4, <2>1, RegularTurns
  <2> QED BY <1>1, <1>2, <2>1, <2>2 DEF RegularInv
<1>5. CASE P!leave
  <2>1. /\ loops # <<>> /\ ~P!goes_on(Head(loops)) /\ loops' = Tail(loops)
        /\ UNCHANGED <<format, args, result>>
    BY <1>5 DEF P!leave
  <2>2. /\ result = NULL /\ Exact
        /\ Len(text) <= size \/ (Mild(format, args) /\ Steady(loops))
    BY <1>1, <2>1 DEF Stuck
  <2>3. Exact'
    BY <1>1, <1>5, <2>2, ExactLeaves
  <2>4. Steady(loops) => Steady(loops')
    BY <2>1, <2>2, SteadyTail DEF Exact
  <2> QED BY <1>1, <1>2, <2>1, <2>2, <2>3, <2>4 DEF RegularInv
<1>6. CASE P!finish
  <2>1. /\ loops = <<>> /\ format = <<>> /\ result = NULL
        /\ UNCHANGED <<format, loops>>
    BY <1>6 DEF P!finish
  <2>2. Exact
    BY <1>1, <2>1 DEF Stuck
  <2>3. result' \in Nat /\ Complete(result', text', size', memory')
    BY <1>1, <1>6, <2>2, ExactFinish
  <2> QED BY <1>1, <1>2, <2>1, <2>3, NullAssumption DEF RegularInv
<1>7. ASSUME NEW function, P!prints(function) \/ P!returns(function)
      PROVE  RegularInv'
  <2>1. /\ result # NULL /\ UNCHANGED <<loops, format, memory, result>>
    BY <1>7, Zenon DEF P!prints, P!returns
  <2> QED BY <1>1, <1>2, <2>1 DEF RegularInv
<1>8. CASE P!done
  <2>1. UNCHANGED <<loops, format, args, buf, memory, result, size, text>>
    BY <1>8 DEF P!done, P!vars, P!entry
  <2>2. /\ Exact' = Exact /\ Stuck' = Stuck /\ Mild(format, args)' = Mild(format, args)
        /\ Steady(loops)' = Steady(loops)
    BY <2>1 DEF Exact, Stuck, P!room
  <2> QED BY <1>1, <1>2, <2>1, <2>2 DEF RegularInv
<1> QED BY <1>3, <1>4, <1>5, <1>6, <1>7, <1>8
        DEF P!Next, P!printf, P!fprintf, P!snprintf, P!sprintf

\* vsnprintf returns the length of the text, and leaves in the buffer as
\* much of it as there is room for, terminated: for all formats and
\* arguments and every size of the buffer, as long as the text fits or has
\* neither a "%c" nor a precision beyond the end of its string, and no unknown
\* placeholder is directly before another.
THEOREM FormattedAlways == Regular /\ Separated => (Spec => []Formatted)
<1> SUFFICES ASSUME Regular, Separated
             PROVE  Spec => []Formatted
  OBVIOUS
<1>1. Init => (part = "printf" => RegularInv)
  BY RegularInit DEF Init
<1>2. (part = "printf" => RegularInv) /\ [Next]_vars => (part = "printf" => RegularInv)'
  <2> SUFFICES ASSUME part = "printf" => RegularInv, [Next]_vars, part' = "printf"
               PROVE  RegularInv'
    OBVIOUS
  <2>1. CASE printing
    BY <2>1, RegularNext DEF printing
  <2>2. CASE UNCHANGED printf
    <3>1. part' = part
      BY DEF Next, vars, booting, converting, printing, copying, iterating, finished
    <3> QED BY <2>2, <3>1 DEF printf, RegularInv, Typed, Exact, Stuck, P!room
  <2> QED BY <2>1, <2>2 DEF Next, vars, booting, converting, copying, iterating, finished
<1>3. (part = "printf" => RegularInv) => Formatted
  <2> SUFFICES ASSUME RegularInv, result # NULL
               PROVE  /\ result = Len(text)
                      /\ \A i \in 0 .. size - 2 :
                           memory[i] = IF i < Len(text) THEN text[i + 1] ELSE
                                       IF i = Len(text) THEN P!NUL ELSE NULL
                      /\ size > 0 => memory[size - 1] = P!NUL
    BY Zenon DEF Formatted, P!Formatted
  <2>1. Complete(result, text, size, memory)
    BY DEF RegularInv
  <2> QED BY <2>1, Zenon DEF Complete, P!NUL
<1> QED BY <1>1, <1>2, <1>3, PTL DEF Spec

-----------------------------------------------------------------------------
(* strtol: the characters it looks at.                                     *)

\* What is no digit in any base.
Marks == {Blank, "+", "-", N!NUL}

\* A mark is in none of the tables.
LEMMA MarkNowhere ==
  ASSUME NEW c \in Marks
  PROVE  /\ N!Index(N!DIGITS, c) = {} /\ N!Index(N!ALPHABET, c) = {}
         /\ N!Index(N!CAPITALS, c) = {}
<1>1. /\ \A i \in 1 .. 10 : N!DIGITS[i] # Blank
      /\ \A i \in 1 .. 26 : N!ALPHABET[i] # Blank /\ N!CAPITALS[i] # Blank
  <2>1. /\ "0" # Blank /\ "1" # Blank /\ "2" # Blank /\ "3" # Blank /\ "4" # Blank
        /\ "5" # Blank /\ "6" # Blank /\ "7" # Blank /\ "8" # Blank /\ "9" # Blank
    BY Zenon DEF Blank
  <2>2. /\ "a" # Blank /\ "b" # Blank /\ "c" # Blank /\ "d" # Blank /\ "e" # Blank
        /\ "f" # Blank /\ "g" # Blank /\ "h" # Blank /\ "i" # Blank /\ "j" # Blank
        /\ "k" # Blank /\ "l" # Blank /\ "m" # Blank /\ "n" # Blank /\ "o" # Blank
        /\ "p" # Blank /\ "q" # Blank /\ "r" # Blank /\ "s" # Blank /\ "t" # Blank
        /\ "u" # Blank /\ "v" # Blank /\ "w" # Blank /\ "x" # Blank /\ "y" # Blank
        /\ "z" # Blank
    BY Zenon DEF Blank
  <2>3. /\ "A" # Blank /\ "B" # Blank /\ "C" # Blank /\ "D" # Blank /\ "E" # Blank
        /\ "F" # Blank /\ "G" # Blank /\ "H" # Blank /\ "I" # Blank /\ "J" # Blank
        /\ "K" # Blank /\ "L" # Blank /\ "M" # Blank /\ "N" # Blank /\ "O" # Blank
        /\ "P" # Blank /\ "Q" # Blank /\ "R" # Blank /\ "S" # Blank /\ "T" # Blank
        /\ "U" # Blank /\ "V" # Blank /\ "W" # Blank /\ "X" # Blank /\ "Y" # Blank
        /\ "Z" # Blank
    BY Zenon DEF Blank
  <2>4. \A i \in 1 .. 10 : N!DIGITS[i] # Blank
    BY ONLY <2>1 DEF N!DIGITS
  <2>5. \A i \in 1 .. 26 : N!ALPHABET[i] # Blank
    BY ONLY <2>2 DEF N!ALPHABET
  <2>6. \A i \in 1 .. 26 : N!CAPITALS[i] # Blank
    BY ONLY <2>3 DEF N!CAPITALS
  <2> QED BY <2>4, <2>5, <2>6
<1>2. ASSUME NEW m \in {"+", "-", "NUL"}
      PROVE  /\ \A i \in 1 .. 10 : N!DIGITS[i] # m
             /\ \A i \in 1 .. 26 : N!ALPHABET[i] # m /\ N!CAPITALS[i] # m
  <2>1. \A i \in 1 .. 10 : N!DIGITS[i] # m
    BY DEF N!DIGITS
  <2>2. \A i \in 1 .. 26 : N!ALPHABET[i] # m
    BY DEF N!ALPHABET
  <2>3. \A i \in 1 .. 26 : N!CAPITALS[i] # m
    BY DEF N!CAPITALS
  <2> QED BY <2>1, <2>2, <2>3
<1>3. /\ DOMAIN N!DIGITS = 1 .. 10 /\ DOMAIN N!ALPHABET = 1 .. 26
      /\ DOMAIN N!CAPITALS = 1 .. 26
  BY DEF N!DIGITS, N!ALPHABET, N!CAPITALS
<1>4. c = Blank \/ c \in {"+", "-", "NUL"}
  BY Zenon DEF Marks, N!NUL
<1>5. /\ \A i \in 1 .. 10 : N!DIGITS[i] # c
      /\ \A i \in 1 .. 26 : N!ALPHABET[i] # c /\ N!CAPITALS[i] # c
  BY <1>1, <1>2, <1>4
<1> QED BY <1>3, <1>5 DEF N!Index

\* The values a character has by the tables, letters starting at base + 1.
Values(c, start) ==
  {i - 1 : i \in N!Index(N!DIGITS, c)}
    \cup {i + start : i \in N!Index(N!ALPHABET, c) \cup N!Index(N!CAPITALS, c)}

\* Digits are natural numbers; those that are to be read are below 36, and
\* a mark is none.
LEMMA DigitTyped ==
  \A c : /\ N!digit(c) \in Nat /\ N!Digit(c) \in Nat /\ N!Digit(c) \in 0 .. 36
         /\ c \in Marks => N!digit(c) = 256 /\ N!Digit(c) = 36
<1> SUFFICES ASSUME NEW c
             PROVE  /\ N!digit(c) \in Nat /\ N!Digit(c) \in Nat /\ N!Digit(c) \in 0 .. 36
                    /\ c \in Marks => N!digit(c) = 256 /\ N!Digit(c) = 36
  OBVIOUS
<1>1. /\ N!Index(N!DIGITS, c) \subseteq 1 .. 10 /\ N!Index(N!ALPHABET, c) \subseteq 1 .. 26
      /\ N!Index(N!CAPITALS, c) \subseteq 1 .. 26
  <2>1. /\ DOMAIN N!DIGITS = 1 .. 10 /\ DOMAIN N!ALPHABET = 1 .. 26
        /\ DOMAIN N!CAPITALS = 1 .. 26
    BY DEF N!DIGITS, N!ALPHABET, N!CAPITALS
  <2> QED BY <2>1 DEF N!Index
<1>2. PICK D, E : /\ D = Values(c, 15) /\ E = Values(c, 9)
  OBVIOUS
<1>3. /\ N!digit(c) = IF D = {} THEN 256 ELSE CHOOSE v \in D : TRUE
      /\ N!Digit(c) = IF E = {} THEN 36 ELSE CHOOSE v \in E : TRUE
  BY <1>2 DEF N!digit, N!Digit, Values
<1>4. D \subseteq Nat /\ E \subseteq 0 .. 35
  BY <1>1, <1>2 DEF Values
<1>5. c \in Marks => D = {} /\ E = {}
  BY <1>2, MarkNowhere DEF Values
<1>6. D # {} => (CHOOSE v \in D : TRUE) \in Nat
  <2>1. D # {} => (CHOOSE v \in D : TRUE) \in D
    OBVIOUS
  <2> QED BY <1>4, <2>1
<1>7. E # {} => (CHOOSE v \in E : TRUE) \in 0 .. 35
  <2>1. E # {} => (CHOOSE v \in E : TRUE) \in E
    OBVIOUS
  <2> QED BY <1>4, <2>1
<1>8. N!digit(c) \in Nat
  <2>1. CASE D = {}
    BY <1>3, <2>1
  <2>2. CASE D # {}
    BY <1>3, <1>6, <2>2, Zenon
  <2> QED BY <2>1, <2>2
<1>9. N!Digit(c) \in 0 .. 36
  BY <1>3, <1>7
<1>10. N!Digit(c) \in Nat
  <2>1. \A x \in 0 .. 36 : x \in Nat
    OBVIOUS
  <2> QED BY <1>9, <2>1, Zenon
<1> QED BY <1>3, <1>5, <1>8, <1>9, <1>10

\* The first number from i to n + 1 that is n + 1 or not in G.
Leaves(G, i, n, k) ==
  /\ k \in i .. n + 1
  /\ k = n + 1 \/ k \notin G
  /\ \A j \in i .. k - 1 : j \in G

\* There is one.
LEMMA LeavesExists ==
  ASSUME NEW G, NEW n \in Nat, NEW i \in 1 .. n + 1
  PROVE  \E k \in i .. n + 1 : Leaves(G, i, n, k)
<1> DEFINE T == {k \in i .. n + 1 : k = n + 1 \/ k \notin G}
<1>1. T \in SUBSET Nat /\ n + 1 \in T
  OBVIOUS
<1>2. PICK k \in T : \A j \in T : k <= j
  BY <1>1, LeastNatural
<1>3. k \in i .. n + 1 /\ (k = n + 1 \/ k \notin G)
  OBVIOUS
<1>4. ASSUME NEW j \in i .. k - 1
      PROVE  j \in G
  <2>1. j \notin T /\ j \in i .. n + 1 /\ j # n + 1
    BY <1>2, <1>3
  <2> QED BY <2>1
<1> QED BY <1>3, <1>4 DEF Leaves

\* Where the space ends.
LEMMA SpaceIs ==
  ASSUME NEW s_ \in Seq(Chars)
  PROVE  /\ N!first_not(N!isspace, s_, 1) \in 1 .. Len(s_) + 1
         /\ \A j \in 1 .. N!first_not(N!isspace, s_, 1) - 1 : s_[j] = Blank
<1> DEFINE G == {j \in 1 .. Len(s_) : s_[j] = Blank}
           Q(k) == /\ k = Len(s_) + 1 \/ ~N!isspace(s_[k])
                   /\ \A j \in 1 .. k - 1 : N!isspace(s_[j])
<1>1. PICK k \in 1 .. Len(s_) + 1 : Leaves(G, 1, Len(s_), k)
  <2>1. Len(s_) \in Nat /\ 1 \in 1 .. Len(s_) + 1
    OBVIOUS
  <2> QED BY <2>1, LeavesExists
<1>2. Q(k)
  <2>1. /\ k = Len(s_) + 1 \/ k \notin G
        /\ \A j \in 1 .. k - 1 : j \in G
    BY <1>1 DEF Leaves
  <2>2. k # Len(s_) + 1 => k \in 1 .. Len(s_)
    OBVIOUS
  <2> QED BY <2>1, <2>2, Zenon DEF N!isspace, Blank
<1>3. N!first_not(N!isspace, s_, 1) = CHOOSE j \in 1 .. Len(s_) + 1 : Q(j)
  BY Zenon DEF N!first_not
<1> DEFINE m == CHOOSE j \in 1 .. Len(s_) + 1 : Q(j)
<1>4. m \in 1 .. Len(s_) + 1 /\ Q(m)
  <2> HIDE DEF Q
  <2> QED BY <1>2
<1> HIDE DEF m
<1>5. \A j \in 1 .. m - 1 : s_[j] = Blank
  BY <1>4, Zenon DEF N!isspace, Blank
<1> QED BY <1>3, <1>4, <1>5 DEF m

\* V[j] is the number up to the j-th character of s, digits of base b from
\* the i-th on, which ends before stop.
Gathers(V, s_, i, b, stop) ==
  /\ stop \in i .. Len(s_) + 1 /\ V \in [i - 1 .. stop - 1 -> Nat]
  /\ V[i - 1] = 0
  /\ \A j \in i .. stop - 1 :
       V[j] = V[j - 1] * b + N!Digit(s_[j]) /\ N!Digit(s_[j]) < b
  /\ stop = Len(s_) + 1 \/ ~(N!Digit(s_[stop]) < b)

\* Number is the last value of such a function.
LEMMA NumberHas ==
  ASSUME NEW s_ \in Seq(Chars), NEW i \in 1 .. Len(s_) + 1, NEW b \in Nat
  PROVE  \E V : LET n == N!Number(s_, i, b)
                IN  Gathers(V, s_, i, b, n.stop) /\ n.value = V[n.stop - 1]
<1> DEFINE G == {j \in 1 .. Len(s_) : N!Digit(s_[j]) < b}
           Q(k) == /\ k = Len(s_) + 1 \/ ~(N!Digit(s_[k]) < b)
                   /\ \A j \in i .. k - 1 : N!Digit(s_[j]) < b
           chosen == CHOOSE k \in i .. Len(s_) + 1 : Q(k)
<1>1. PICK k \in i .. Len(s_) + 1 : Leaves(G, i, Len(s_), k)
  <2>1. Len(s_) \in Nat
    OBVIOUS
  <2> QED BY <2>1, LeavesExists
<1>2. Q(k)
  <2>1. /\ k = Len(s_) + 1 \/ k \notin G
        /\ \A j \in i .. k - 1 : j \in G
    BY <1>1 DEF Leaves
  <2>2. k # Len(s_) + 1 => k \in 1 .. Len(s_)
    OBVIOUS
  <2> QED BY <2>1, <2>2, Zenon
<1>3. chosen \in i .. Len(s_) + 1 /\ Q(chosen)
  <2> HIDE DEF Q
  <2> QED BY <1>2
<1>4. N!first_not(LAMBDA c : N!Digit(c) < b, s_, i) = chosen
  BY Zenon DEF N!first_not
<1> HIDE DEF chosen
<1>5. PICK stop : stop = chosen
  OBVIOUS
<1> DEFINE Upto(g) ==
             g = [j \in i - 1 .. stop - 1 |->
                    IF j < i THEN 0 ELSE g[j - 1] * b + N!Digit(s_[j])]
           upto == CHOOSE g : Upto(g)
<1>6. N!Number(s_, i, b) = [value |-> upto[stop - 1], stop |-> stop]
  BY <1>4, <1>5, Zenon DEF N!Number
<1>7. /\ stop \in i .. Len(s_) + 1 /\ stop \in Nat /\ i \in Nat
      /\ stop = Len(s_) + 1 \/ ~(N!Digit(s_[stop]) < b)
      /\ \A j \in i .. stop - 1 : N!Digit(s_[j]) < b
  BY <1>3, <1>5
<1> DEFINE n == stop - i
           start == 0
           e == [j \in 1 .. n |-> j - 1]
           on(j, v) == v * b + N!Digit(s_[j])
           H == [j \in 1 .. n |-> [v \in Nat |-> on(j + (i - 1), v)]]
<1>8. n \in Nat
  BY <1>7
<1>9. \A j : \A v \in Nat : on(j, v) \in Nat
  <2> SUFFICES ASSUME NEW j, NEW v \in Nat
               PROVE  on(j, v) \in Nat
    OBVIOUS
  <2>1. N!Digit(s_[j]) \in Nat
    BY DigitTyped, Zenon
  <2> QED BY <2>1
<1>10. /\ H \in [1 .. n -> [Nat -> Nat]]
       /\ \A j \in 1 .. n : \A v \in Nat : H[j][v] = on(j + (i - 1), v)
  <2> HIDE DEF on, n
  <2> QED BY <1>9
<1>11. e \in [1 .. n -> Nat] /\ \A j \in 1 .. n : e[j] < j /\ e[j] = j - 1
  BY <1>8
<1>12. start \in Nat /\ start = 0
  OBVIOUS
<1> HIDE DEF H, e, start, on, n
<1>13. PICK f \in [0 .. n -> Nat] : Recurs(f, n, start, e, H)
  BY <1>8, <1>10, <1>11, <1>12, RecursionExists, Zenon
<1>14. f[0] = 0 /\ \A j \in 1 .. n : f[j] = on(j + (i - 1), f[j - 1])
  <2>1. f[0] = start /\ \A j \in 1 .. n : f[j] = H[j][f[e[j]]]
    BY <1>13 DEF Recurs
  <2>2. \A j \in 1 .. n : j - 1 \in 0 .. n
    BY <1>8
  <2>3. \A j \in 1 .. n : f[j] = H[j][f[j - 1]] /\ f[j - 1] \in Nat
    BY <2>2, <1>11, <1>13, <2>1
  <2> QED BY <1>10, <1>12, <2>1, <2>3
<1> DEFINE V == [j \in i - 1 .. stop - 1 |-> f[j - (i - 1)]]
<1>15. \A j \in i - 1 .. stop - 1 : j - (i - 1) \in 0 .. n
  BY <1>7 DEF n
<1>16. V \in [i - 1 .. stop - 1 -> Nat]
  BY <1>13, <1>15
<1>17. V[i - 1] = 0
  <2>1. i - 1 \in i - 1 .. stop - 1 /\ (i - 1) - (i - 1) = 0
    BY <1>7
  <2> QED BY <1>14, <2>1
<1>18. \A j \in i .. stop - 1 : V[j] = V[j - 1] * b + N!Digit(s_[j])
  <2> SUFFICES ASSUME NEW j \in i .. stop - 1
               PROVE  V[j] = V[j - 1] * b + N!Digit(s_[j])
    OBVIOUS
  <2>1. /\ j \in i - 1 .. stop - 1 /\ j - 1 \in i - 1 .. stop - 1
        /\ j - (i - 1) \in 1 .. n /\ (j - 1) - (i - 1) = (j - (i - 1)) - 1
        /\ (j - (i - 1)) + (i - 1) = j
    BY <1>7 DEF n
  <2>2. V[j] = f[j - (i - 1)] /\ V[j - 1] = f[(j - (i - 1)) - 1]
    BY <2>1
  <2> HIDE DEF V
  <2>3. f[j - (i - 1)] = on(j, f[(j - (i - 1)) - 1])
    BY <1>14, <2>1
  <2> QED BY <2>2, <2>3 DEF on
<1> HIDE DEF V
<1>19. Upto(V)
  <2>1. V = [j \in i - 1 .. stop - 1 |-> V[j]]
    BY <1>16
  <2>2. ASSUME NEW j \in i - 1 .. stop - 1
        PROVE  V[j] = IF j < i THEN 0 ELSE V[j - 1] * b + N!Digit(s_[j])
    <3>1. CASE j < i
      <4>1. j = i - 1
        BY <1>7, <3>1
      <4> QED BY <1>17, <3>1, <4>1
    <3>2. CASE ~(j < i)
      <4>1. j \in i .. stop - 1
        BY <1>7, <3>2
      <4> QED BY <1>18, <3>2, <4>1
    <3> QED BY <3>1, <3>2
  <2> QED BY <2>1, <2>2
<1>20. Upto(upto)
  BY <1>19, Zenon
<1> HIDE DEF upto
<1>21. /\ upto \in [i - 1 .. stop - 1 -> Nat] /\ upto[i - 1] = 0
       /\ \A j \in i .. stop - 1 : upto[j] = upto[j - 1] * b + N!Digit(s_[j])
  <2> DEFINE along == [j \in i - 1 .. stop - 1 |->
                         IF j < i THEN 0 ELSE upto[j - 1] * b + N!Digit(s_[j])]
  <2>1. upto = along
    BY <1>20
  <2>2. \A j \in i - 1 .. stop - 1 :
          along[j] = IF j < i THEN 0 ELSE upto[j - 1] * b + N!Digit(s_[j])
    OBVIOUS
  <2>3. along[i - 1] = 0
    <3>1. i - 1 \in i - 1 .. stop - 1 /\ i - 1 < i
      BY <1>7
    <3> QED BY <2>2, <3>1
  <2>4. ASSUME NEW j \in i .. stop - 1
        PROVE  along[j] = upto[j - 1] * b + N!Digit(s_[j])
    <3>1. j \in i - 1 .. stop - 1 /\ ~(j < i)
      BY <1>7
    <3> QED BY <2>2, <3>1
  <2>5. DOMAIN along = i - 1 .. stop - 1 /\ along = [j \in i - 1 .. stop - 1 |-> along[j]]
    OBVIOUS
  <2> HIDE DEF along
  <2>6. upto[i - 1] = 0 /\ \A j \in i .. stop - 1 : upto[j] = upto[j - 1] * b + N!Digit(s_[j])
    BY <2>1, <2>3, <2>4
  <2> DEFINE T == {j \in i - 1 .. stop - 1 : upto[j] \in Nat}
  <2>7. i - 1 <= stop - 1 => i - 1 \in T
    BY <1>7, <2>6
  <2>8. ASSUME NEW j \in i - 1 .. (stop - 1) - 1, j \in T
        PROVE  j + 1 \in T
    <3>1. j + 1 \in i .. stop - 1 /\ j + 1 \in i - 1 .. stop - 1 /\ (j + 1) - 1 = j
      BY <1>7
    <3>2. upto[j + 1] = upto[j] * b + N!Digit(s_[j + 1])
      BY <2>6, <3>1
    <3>3. N!Digit(s_[j + 1]) \in Nat
      BY DigitTyped, Zenon
    <3>4. upto[j] \in Nat
      BY <2>8
    <3>5. upto[j + 1] \in Nat
      BY <3>2, <3>3, <3>4
    <3> QED BY <3>1, <3>5
  <2>9. i - 1 .. stop - 1 \subseteq T
    <3> HIDE DEF T
    <3>1. i - 1 \in Int /\ stop - 1 \in Int
      BY <1>7
    <3> QED BY <2>7, <2>8, <3>1, IntervalInduction
  <2>10. upto \in [i - 1 .. stop - 1 -> Nat]
    BY <2>1, <2>5, <2>9
  <2> QED BY <2>6, <2>10
<1>22. Gathers(upto, s_, i, b, stop)
  BY <1>7, <1>21 DEF Gathers
<1> QED BY <1>6, <1>22

-----------------------------------------------------------------------------
(* Where the digits are.                                                   *)

\* Behind the space; behind the sign; whether "0x" stands there; the base;
\* behind "0x".
Behind(s_) == N!first_not(N!isspace, s_, 1)
Signed(s_) == IF N!char(s_, Behind(s_)) \in {"+", "-"} THEN Behind(s_) + 1 ELSE Behind(s_)
Hex(s_) ==
  /\ N!char(s_, Signed(s_)) = "0" /\ N!char(s_, Signed(s_) + 1) \in {"x", "X"}
  /\ N!Digit(N!char(s_, Signed(s_) + 2)) < 16
Real(s_, b) ==
  IF b # 0 THEN b ELSE IF Hex(s_) THEN 16
  ELSE IF N!char(s_, Signed(s_)) = "0" THEN 8 ELSE 10
First(s_, b) == IF Hex(s_) /\ Real(s_, b) = 16 THEN Signed(s_) + 2 ELSE Signed(s_)
Counted(s_, b) == N!Number(s_, First(s_, b), Real(s_, b))

Bases == {0} \cup 2 .. 36

\* What is expected in these terms.
LEMMA ExpectedIs ==
  ASSUME NEW s_, NEW b
  PROVE  N!Expected(s_, b) =
           LET n == Counted(s_, b)
               v == IF N!char(s_, Behind(s_)) = "-" THEN -n.value ELSE n.value
           IN  IF b < 0 \/ b = 1 \/ b > 36 \/ n.stop = First(s_, b)
               THEN <<0, 1, "EINVAL">>
               ELSE IF v < N!LONG_MIN THEN <<N!LONG_MIN, n.stop, "ERANGE">>
               ELSE IF v > LONG_MAX THEN <<LONG_MAX, n.stop, "ERANGE">>
               ELSE <<v, n.stop, "0">>
BY Zenon DEF N!Expected, Counted, First, Real, Hex, Signed, Behind

\* digit has the value of c as a digit of base b, or takes it for none.
Agrees(c, b) ==
  IF N!Digit(c) < b THEN N!digit(c) = N!Digit(c)
  ELSE N!digit(c) >= b /\ (b = 16 => N!digit(c) # 16)

\* Letters start at 16 in digit; "+-" is taken for one sign, and "0X" is not
\* detected.
Plain(s_, b) ==
  b \in Bases =>
    /\ \A i \in 1 .. Len(s_) : Agrees(s_[i], IF b = 0 THEN 16 ELSE b)
    /\ \A i \in 1 .. Len(s_) - 1 :
         /\ s_[i] = "+" => s_[i + 1] # "-"
         /\ b = 0 /\ s_[i] = "0" => s_[i + 1] # "X"

Readable == \A c \in Inputs : Plain(c[1], c[2])

\* A character, or NUL at the end.
LEMMA CharIs ==
  ASSUME NEW s_ \in Seq(Chars), NEW i \in Nat
  PROVE  /\ i > Len(s_) => N!char(s_, i) = N!NUL
         /\ i <= Len(s_) => N!char(s_, i) = s_[i]
         /\ Len(s_) \in Nat
<1>1. Len(s_) \in Nat
  OBVIOUS
<1> QED BY <1>1 DEF N!char

\* The characters of a plain string agree in its base, and NUL does.
LEMMA CharAgrees ==
  ASSUME NEW s_ \in Seq(Chars), NEW b \in Bases, Plain(s_, b), NEW i \in Nat \ {0}
  PROVE  /\ Agrees(N!char(s_, i), IF b = 0 THEN 16 ELSE b)
         /\ Agrees(N!char(s_, i), Real(s_, b))
         /\ Real(s_, b) \in 2 .. 36
<1>1. PICK c : c = N!char(s_, i)
  OBVIOUS
<1>2. N!digit(c) \in Nat /\ N!Digit(c) \in Nat
  BY DigitTyped
<1>3. Agrees(c, IF b = 0 THEN 16 ELSE b)
  <2>1. CASE i <= Len(s_)
    <3>1. c = s_[i] /\ i \in 1 .. Len(s_)
      BY <1>1, <2>1, CharIs
    <3> QED BY <3>1 DEF Plain
  <2>2. CASE ~(i <= Len(s_))
    <3>1. c = N!NUL
      BY <1>1, <2>2, CharIs
    <3>2. N!digit(c) = 256 /\ N!Digit(c) = 36
      BY <3>1, DigitTyped, Zenon DEF Marks
    <3> QED BY <3>2 DEF Agrees, Bases
  <2> QED BY <2>1, <2>2
<1>4. /\ Real(s_, b) \in 2 .. 36
      /\ b = 0 => Real(s_, b) \in {8, 10, 16}
      /\ b # 0 => Real(s_, b) = b
  BY DEF Real, Bases
<1>5. Agrees(c, Real(s_, b))
  <2>1. CASE b # 0
    BY <1>3, <1>4, <2>1
  <2>2. CASE b = 0
    <3>1. Agrees(c, 16)
      BY <1>3, <2>2
    <3> QED BY <1>2, <1>4, <2>2, <3>1 DEF Agrees
  <2> QED BY <2>1, <2>2
<1> QED BY <1>1, <1>3, <1>4, <1>5

\* Behind space and sign, there is at most the end.
LEMMA SignedIs ==
  ASSUME NEW s_ \in Seq(Chars)
  PROVE  /\ Behind(s_) \in 1 .. Len(s_) + 1 /\ Signed(s_) \in 1 .. Len(s_) + 1
         /\ Len(s_) \in Nat
         /\ Signed(s_) # 1 => N!char(s_, 1) \in Marks
<1>1. /\ Behind(s_) \in 1 .. Len(s_) + 1
      /\ \A j \in 1 .. Behind(s_) - 1 : s_[j] = Blank
  BY SpaceIs, Zenon DEF Behind
<1>2. PICK i \in 1 .. Len(s_) + 1 : i = Behind(s_)
  BY <1>1
<1>3. Len(s_) \in Nat /\ i \in Nat
  OBVIOUS
<1>4. N!char(s_, i) \in {"+", "-"} => i <= Len(s_)
  <2>1. N!NUL \notin {"+", "-"}
    BY DEF N!NUL
  <2> QED BY <1>3, <2>1, CharIs
<1>5. Signed(s_) = IF N!char(s_, i) \in {"+", "-"} THEN i + 1 ELSE i
  BY <1>2 DEF Signed
<1>6. ASSUME Signed(s_) # 1
      PROVE  N!char(s_, 1) \in Marks
  <2>1. CASE i = 1
    <3>1. N!char(s_, 1) \in {"+", "-"}
      BY <1>5, <1>6, <2>1
    <3> QED BY <3>1, Zenon DEF Marks
  <2>2. CASE i # 1
    <3>1. 1 \in 1 .. i - 1 /\ 1 <= Len(s_) /\ 1 \in Nat
      BY <1>3, <2>2
    <3>2. s_[1] = Blank
      BY <1>1, <1>2, <3>1
    <3>3. N!char(s_, 1) = s_[1]
      BY <3>1, CharIs
    <3> QED BY <3>2, <3>3, Zenon DEF Marks
  <2> QED BY <2>1, <2>2
<1> QED BY <1>2, <1>3, <1>4, <1>5, <1>6

\* In a plain string one character follows another as strtol has it.
LEMMA PairIs ==
  ASSUME NEW s_ \in Seq(Chars), NEW b \in Bases, Plain(s_, b), NEW i \in Nat \ {0}
  PROVE  /\ N!char(s_, i) = "+" => N!char(s_, i + 1) # "-"
         /\ b = 0 /\ N!char(s_, i) = "0" => N!char(s_, i + 1) # "X"
<1>1. CASE i + 1 <= Len(s_)
  <2>1. i \in 1 .. Len(s_) - 1 /\ i + 1 \in Nat /\ i \in Nat /\ i <= Len(s_)
    BY <1>1, CharIs
  <2>2. N!char(s_, i) = s_[i] /\ N!char(s_, i + 1) = s_[i + 1]
    BY <1>1, <2>1, CharIs
  <2> QED BY <2>1, <2>2 DEF Plain
<1>2. CASE ~(i + 1 <= Len(s_))
  <2>1. N!char(s_, i + 1) = N!NUL
    <3>1. i + 1 \in Nat /\ i + 1 > Len(s_)
      BY <1>2, CharIs
    <3> QED BY <3>1, CharIs
  <2> QED BY <2>1 DEF N!NUL
<1> QED BY <1>1, <1>2

\* In base 16, and when the base is to be detected, "0x" is found where it
\* stands.
LEMMA HexIs ==
  ASSUME NEW s_ \in Seq(Chars), NEW b \in {0, 16}, Plain(s_, b)
  PROVE  /\ N!prefixed(s_, Signed(s_), {"x", "X"}) <=> Hex(s_)
         /\ b = 0 => (N!prefixed(s_, Signed(s_), {"x"}) <=> Hex(s_))
<1>1. PICK j \in Nat \ {0} : j = Signed(s_)
  BY SignedIs
<1>2. PICK y, z, c : y = N!char(s_, j) /\ z = N!char(s_, j + 1) /\ c = N!char(s_, j + 2)
  OBVIOUS
<1>3. b \in Bases
  BY DEF Bases
<1>4. N!digit(c) < 16 <=> N!Digit(c) < 16
  <2>1. j + 2 \in Nat \ {0}
    OBVIOUS
  <2>2. Agrees(c, 16)
    BY <1>2, <1>3, <2>1, CharAgrees
  <2>3. N!digit(c) \in Nat /\ N!Digit(c) \in Nat
    BY DigitTyped
  <2> QED BY <2>2, <2>3 DEF Agrees
<1>5. b = 0 /\ y = "0" => z # "X"
  BY <1>2, <1>3, PairIs
<1>6. Hex(s_) <=> y = "0" /\ z \in {"x", "X"} /\ N!Digit(c) < 16
  BY <1>1, <1>2 DEF Hex
<1>7. \A xs : N!prefixed(s_, Signed(s_), xs) <=> y = "0" /\ z \in xs /\ N!digit(c) < 16
  BY <1>1, <1>2 DEF N!prefixed
<1> QED BY <1>4, <1>5, <1>6, <1>7

\* Before the digits there is at most the end.
LEMMA FirstIs ==
  ASSUME NEW s_ \in Seq(Chars), NEW b
  PROVE  First(s_, b) \in 1 .. Len(s_) + 1
<1>1. PICK j \in 1 .. Len(s_) + 1 : j = Signed(s_)
  BY SignedIs
<1>2. Len(s_) \in Nat /\ j \in Nat
  OBVIOUS
<1>3. CASE Hex(s_)
  <2>1. N!Digit(N!char(s_, j + 2)) < 16
    BY <1>1, <1>3 DEF Hex
  <2>2. j + 2 <= Len(s_)
    <3> SUFFICES ASSUME ~(j + 2 <= Len(s_))
                 PROVE  FALSE
      OBVIOUS
    <3>1. N!char(s_, j + 2) = N!NUL
      <4>1. j + 2 \in Nat /\ j + 2 > Len(s_)
        BY <1>2
      <4> QED BY <4>1, CharIs
    <3>2. N!NUL \in Marks
      BY Zenon DEF Marks
    <3>3. N!Digit(N!NUL) = 36
      BY <3>2, DigitTyped
    <3> QED BY <2>1, <3>1, <3>3
  <2>3. First(s_, b) = j + 2 \/ First(s_, b) = j
    BY <1>1 DEF First
  <2> QED BY <1>2, <2>2, <2>3
<1>4. CASE ~Hex(s_)
  BY <1>1, <1>4 DEF First
<1> QED BY <1>3, <1>4

\* strtol starts where the digits do, when there are any, or at the first
\* character, which then is none.
LEMMA StartIs ==
  ASSUME NEW s_ \in Seq(Chars), NEW b \in Bases, Plain(s_, b)
  PROVE  /\ N!detected(s_, Signed(s_), b) = Real(s_, b)
         /\ N!digit(N!char(s_, First(s_, b))) < Real(s_, b) =>
              N!start(s_, Signed(s_), Real(s_, b)) = First(s_, b)
         /\ N!digit(N!char(s_, First(s_, b))) >= Real(s_, b) =>
              /\ N!start(s_, Signed(s_), Real(s_, b)) = 1
              /\ N!digit(N!char(s_, 1)) >= Real(s_, b)
<1>1. PICK j \in Nat \ {0} : j = Signed(s_)
  BY SignedIs
<1>2. PICK k \in Nat \ {0} : k = First(s_, b)
  BY FirstIs, CharIs
<1>3. PICK r \in 2 .. 36 : r = Real(s_, b)
  BY CharAgrees
<1>4. PICK c, first : c = N!digit(N!char(s_, k)) /\ first = N!digit(N!char(s_, 1))
  OBVIOUS
<1>5. c \in Nat /\ first \in Nat
  BY <1>4, DigitTyped
<1>6. r = 16 => c # 16
  <2>1. Agrees(N!char(s_, k), r)
    BY <1>3, CharAgrees
  <2>2. N!Digit(N!char(s_, k)) \in Nat
    BY DigitTyped
  <2> QED BY <1>4, <2>1, <2>2 DEF Agrees
<1>7. j # 1 => first = 256
  BY <1>1, <1>4, SignedIs, DigitTyped
<1>8. N!detected(s_, Signed(s_), b) = Real(s_, b)
  <2>1. CASE b # 0
    BY <2>1 DEF N!detected, Real
  <2>2. CASE b = 0
    BY <2>2, HexIs DEF N!detected, Real
  <2> QED BY <2>1, <2>2
<1>9. r = 16 => (N!prefixed(s_, j, {"x", "X"}) <=> Hex(s_))
  <2> SUFFICES ASSUME r = 16
               PROVE  N!prefixed(s_, j, {"x", "X"}) <=> Hex(s_)
    OBVIOUS
  <2>1. b \in {0, 16}
    BY <1>3 DEF Real
  <2> QED BY <1>1, <2>1, HexIs
<1>10. CASE r = 16 /\ Hex(s_)
  <2>1. k = j + 2
    BY <1>1, <1>2, <1>3, <1>10 DEF First
  <2>2. N!start(s_, j, r) = k
    BY <1>9, <1>10, <2>1 DEF N!start
  <2>3. c < r
    <3>1. N!prefixed(s_, j, {"x", "X"})
      BY <1>9, <1>10
    <3>2. N!digit(N!char(s_, j + 2)) < 16
      BY <3>1, Zenon DEF N!prefixed
    <3> QED BY <1>4, <1>10, <2>1, <3>2
  <2>4. ~(c >= r)
    BY <1>3, <1>5, <2>3
  <2>5. N!start(s_, Signed(s_), Real(s_, b)) = First(s_, b)
    BY <1>1, <1>2, <1>3, <2>2
  <2>6. ~(N!digit(N!char(s_, First(s_, b))) >= Real(s_, b))
    BY <1>2, <1>3, <1>4, <2>4
  <2> QED BY ONLY <1>8, <2>5, <2>6
<1>11. CASE ~(r = 16 /\ Hex(s_))
  <2>1. k = j
    BY <1>1, <1>2, <1>3, <1>11 DEF First
  <2>2. N!start(s_, j, r) = IF c < r THEN j ELSE 1
    <3>1. CASE r = 16
      <4>1. ~N!prefixed(s_, j, {"x", "X"})
        BY <1>9, <1>11, <3>1
      <4>2. N!start(s_, j, r) = IF c <= 16 THEN j ELSE 1
        BY <1>4, <2>1, <3>1, <4>1 DEF N!start
      <4> QED BY <1>5, <1>6, <3>1, <4>2
    <3>2. CASE r # 16
      BY <1>4, <2>1, <3>2 DEF N!start
    <3> QED BY <3>1, <3>2
  <2>3. c >= r => first >= r
    BY <1>4, <1>5, <1>7, <2>1
  <2>4. N!start(s_, Signed(s_), Real(s_, b)) = IF c < r THEN First(s_, b) ELSE 1
    BY <1>1, <1>2, <1>3, <2>1, <2>2
  <2>5. /\ N!digit(N!char(s_, First(s_, b))) = c /\ N!digit(N!char(s_, 1)) = first
        /\ Real(s_, b) = r
    BY <1>2, <1>3, <1>4
  <2>6. c >= r => ~(c < r)
    BY <1>3, <1>5
  <2> QED BY <1>8, <2>3, <2>4, <2>5, <2>6
<1> QED BY <1>10, <1>11

\* The sign is where it is to be.
LEMMA SignIs ==
  ASSUME nptr \in Seq(Chars), asked \in Bases, Plain(nptr, asked)
  PROVE  /\ N!minus <=> N!char(nptr, Behind(nptr)) = "-"
         /\ N!after_sign = Signed(nptr)
<1>1. PICK i \in Nat \ {0} : i = Behind(nptr)
  BY SignedIs
<1>2. N!after_space = i
  BY <1>1 DEF N!after_space, Behind
<1>3. PICK y, z : y = N!char(nptr, i) /\ z = N!char(nptr, i + 1)
  OBVIOUS
<1>4. y = "+" => z # "-"
  BY <1>3, PairIs
<1>5. N!after_plus = IF y = "+" THEN i + 1 ELSE i
  BY <1>2, <1>3 DEF N!after_plus
<1>6. N!minus <=> y = "-"
  <2>1. CASE y = "+"
    BY <1>3, <1>4, <1>5, <2>1 DEF N!minus
  <2>2. CASE y # "+"
    BY <1>3, <1>5, <2>2 DEF N!minus
  <2> QED BY <2>1, <2>2
<1>7. N!after_sign = IF y \in {"+", "-"} THEN i + 1 ELSE i
  BY <1>5, <1>6 DEF N!after_sign
<1> QED BY <1>1, <1>3, <1>6, <1>7 DEF Signed

-----------------------------------------------------------------------------
(* The call.                                                               *)

\* r and e after digits of value v: it is kept negative, until it is beyond
\* the least long.
SoFar(v, r, e) ==
  IF v <= LONG_MAX + 1 THEN r = -v /\ e = "0" ELSE r = -(LONG_MAX + 1) /\ e = "ERANGE"

SignRight == sign = IF N!char(nptr, Behind(nptr)) = "-" THEN -1 ELSE 1

\* The digits before ptr are gathered; or there are none.
Gathered(V) ==
  LET n == Counted(nptr, asked)
      k == First(nptr, asked)
  IN  /\ Gathers(V, nptr, k, Real(nptr, asked), n.stop) /\ n.value = V[n.stop - 1]
      /\ \/ /\ ptr = 1 /\ n.stop = k /\ res = 0
            /\ N!digit(N!char(nptr, 1)) >= Real(nptr, asked)
         \/ ptr \in k .. n.stop /\ n.stop > k /\ SoFar(V[ptr - 1], res, errno)

\* Nothing is a number; or all digits are gathered.
Ready ==
  LET n == Counted(nptr, asked)
  IN  \/ /\ ptr = 1 /\ res = 0 /\ sign \in {1, -1}
         /\ N!Expected(nptr, asked) = <<0, 1, "EINVAL">>
      \/ /\ asked \in Bases /\ SignRight /\ ptr = n.stop /\ n.stop > First(nptr, asked)
         /\ First(nptr, asked) \in Nat \ {0} /\ n.stop \in Nat /\ n.value \in Nat
         /\ SoFar(n.value, res, errno)

StrtolInv ==
  /\ nptr \in Seq(Chars) /\ asked \in Int /\ Plain(nptr, asked)
  /\ pc = "begin" => base = asked /\ ptr = 1 /\ sign = 1 /\ res = 0 /\ errno = "0"
  /\ pc = "digits" =>
       asked \in Bases /\ base = Real(nptr, asked) /\ SignRight /\ \E V : Gathered(V)
  /\ pc = "out" => Ready
  /\ pc = "done" => N!Right

\* A digit more fits as long as the number is not beyond the least long.
LEMMA FitsIs ==
  ASSUME NEW v \in Nat, NEW b \in 2 .. 36, NEW k \in 0 .. b - 1, base = b,
         SoFar(v, res, errno)
  PROVE  /\ v * b + k \in Nat
         /\ N!fits(k) <=> v * b + k <= LONG_MAX + 1
         /\ SoFar(v * b + k, IF N!fits(k) THEN res * base - k ELSE N!LONG_MIN,
                  IF N!fits(k) THEN errno ELSE "ERANGE")
<1>1. PICK m \in Nat : m = LONG_MAX + 1 /\ m > 0
  BY InputsAssumption
<1>2. PICK q \in Nat : q = m \div b /\ q * b <= m /\ m < q * b + b /\ q < m
  <2>1. b \in Nat /\ b > 1
    OBVIOUS
  <2>2. m \div b \in Nat /\ m % b \in 0 .. b - 1 /\ m = (m \div b) * b + (m % b) /\ m \div b < m
    BY <1>1, <2>1, Division
  <2>3. (m \div b) * b \in Nat
    BY <2>1, <2>2
  <2> QED BY <2>1, <2>2, <2>3
<1>3. N!fits(k) <=> res >= -q /\ res * b >= -m + k
  <2>1. N!min = -q
    BY <1>1, <1>2 DEF N!min
  <2>2. N!LONG_MIN = -m
    BY <1>1, InputsAssumption DEF N!LONG_MIN
  <2> QED BY <2>1, <2>2 DEF N!fits
<1>4. PICK w \in Nat : w = v * b
  OBVIOUS
<1>5. CASE v <= m
  <2>1. res = -v /\ errno = "0" /\ res * b = -w
    BY <1>1, <1>4, <1>5 DEF SoFar
  <2>2. w + k <= m => v <= q
    <3> SUFFICES ASSUME w + k <= m, ~(v <= q)
                 PROVE  FALSE
      OBVIOUS
    <3>1. PICK z \in Nat : v = q + 1 + z
      <4>1. v - (q + 1) \in Nat /\ v = q + 1 + (v - (q + 1))
        OBVIOUS
      <4> QED BY <4>1
    <3>2. w = q * b + b + z * b
      BY ONLY <1>4, <3>1, q \in Nat, z \in Nat, b \in Nat
    <3>3. z * b \in Nat /\ q * b \in Nat
      OBVIOUS
    <3> QED BY <1>2, <3>2, <3>3
  <2>3. N!fits(k) <=> w + k <= m
    BY <1>3, <2>1, <2>2
  <2>4. res * base - k = -(w + k)
    BY <2>1
  <2> QED BY <1>1, <1>4, <2>1, <2>3, <2>4, InputsAssumption DEF SoFar, N!LONG_MIN
<1>6. CASE ~(v <= m)
  <2>1. res = -m /\ errno = "ERANGE"
    BY <1>1, <1>6, InputsAssumption DEF SoFar
  <2>2. ~N!fits(k)
    BY <1>2, <1>3, <2>1
  <2>3. w >= v
    <3>1. w = v + v * (b - 1) /\ v * (b - 1) \in Nat
      BY <1>4
    <3> QED BY <3>1
  <2>4. w + k > m
    BY <1>6, <2>3
  <2> QED BY <1>1, <1>4, <2>2, <2>4, InputsAssumption DEF SoFar, N!LONG_MIN
<1> QED BY <1>5, <1>6

\* digit stops where the digits end.
LEMMA GathersTo ==
  ASSUME NEW s_ \in Seq(Chars), NEW b \in Bases, Plain(s_, b), NEW V, NEW stop,
         Gathers(V, s_, First(s_, b), Real(s_, b), stop),
         NEW j \in First(s_, b) .. stop
  PROVE  /\ stop \in Nat /\ j \in Nat \ {0}
         /\ j < stop => /\ N!digit(N!char(s_, j)) = N!Digit(s_[j])
                        /\ N!digit(N!char(s_, j)) < Real(s_, b)
         /\ j = stop => N!digit(N!char(s_, j)) >= Real(s_, b)
<1>1. PICK k \in 1 .. Len(s_) + 1 : k = First(s_, b)
  BY FirstIs
<1>2. PICK r \in 2 .. 36 : r = Real(s_, b)
  BY CharAgrees, 1 \in Nat \ {0}
<1>3. /\ Len(s_) \in Nat /\ stop \in k .. Len(s_) + 1 /\ j \in Nat \ {0} /\ stop \in Nat
      /\ \A i \in k .. stop - 1 : N!Digit(s_[i]) < r
      /\ stop = Len(s_) + 1 \/ ~(N!Digit(s_[stop]) < r)
  BY <1>1, <1>2 DEF Gathers
<1>4. PICK c : c = N!char(s_, j)
  OBVIOUS
<1>5. Agrees(c, r) /\ N!digit(c) \in Nat /\ N!Digit(c) \in Nat
  BY <1>2, <1>3, <1>4, CharAgrees, DigitTyped
<1>6. CASE j < stop
  <2>1. j \in k .. stop - 1 /\ j <= Len(s_)
    BY <1>1, <1>3, <1>6
  <2>2. c = s_[j] /\ N!Digit(s_[j]) < r
    BY <1>3, <1>4, <2>1, CharIs
  <2>3. N!digit(c) = N!Digit(c) /\ N!digit(c) < r
    BY <1>5, <2>2 DEF Agrees
  <2> QED BY <1>2, <1>3, <1>4, <1>6, <2>2, <2>3
<1>7. CASE j = stop
  <2>1. ~(N!Digit(c) < r)
    <3>1. CASE stop = Len(s_) + 1
      <4>1. c = N!NUL
        BY <1>3, <1>4, <1>7, <3>1, CharIs
      <4>2. N!NUL \in Marks
        BY Zenon DEF Marks
      <4>3. N!Digit(c) = 36
        BY <4>1, <4>2, DigitTyped
      <4> QED BY <4>3
    <3>2. CASE stop # Len(s_) + 1
      <4>1. c = s_[stop]
        BY <1>3, <1>4, <1>7, <3>2, CharIs
      <4> QED BY <1>3, <3>2, <4>1
    <3> QED BY <3>1, <3>2
  <2>2. N!digit(c) >= r
    BY <1>5, <2>1 DEF Agrees
  <2> QED BY <1>2, <1>3, <1>4, <1>7, <2>2
<1> QED BY <1>1, <1>3, <1>6, <1>7

\* A number that ends where it starts is none.
LEMMA NoneExpected ==
  ASSUME Counted(nptr, asked).stop = First(nptr, asked)
  PROVE  N!Expected(nptr, asked) = <<0, 1, "EINVAL">>
BY ExpectedIs, Zenon

\* A base that is rejected is an error in both.
LEMMA StrtolReject == StrtolInv /\ N!reject => StrtolInv'
<1> SUFFICES ASSUME StrtolInv, N!reject
             PROVE  StrtolInv'
  OBVIOUS
<1>1. /\ pc = "begin" /\ pc' = "out" /\ (base < 0 \/ base = 1 \/ base > 36)
      /\ nptr' = nptr /\ asked' = asked /\ ptr' = ptr /\ res' = res /\ sign' = sign
  BY DEF N!reject
<1>2. base = asked /\ ptr = 1 /\ sign = 1 /\ res = 0
  BY <1>1 DEF StrtolInv
<1>3. N!Expected(nptr, asked) = <<0, 1, "EINVAL">>
  <2>1. asked < 0 \/ asked = 1 \/ asked > 36
    BY <1>1, <1>2
  <2> QED BY <2>1, ExpectedIs, Zenon
<1>4. Ready'
  BY <1>1, <1>2, <1>3 DEF Ready
<1> QED BY <1>1, <1>4 DEF StrtolInv

\* strtol and the number expected start at the same character, in the same
\* base.
LEMMA StrtolBegin == StrtolInv /\ N!begin => StrtolInv'
<1> SUFFICES ASSUME StrtolInv, N!begin
             PROVE  StrtolInv'
  OBVIOUS
<1>1. /\ pc = "begin" /\ ~(base < 0 \/ base = 1 \/ base > 36)
      /\ nptr' = nptr /\ asked' = asked /\ res' = res /\ errno' = errno
  BY DEF N!begin
<1>2. base = asked /\ ptr = 1 /\ sign = 1 /\ res = 0 /\ errno = "0"
  BY <1>1 DEF StrtolInv
<1>3. /\ nptr \in Seq(Chars) /\ asked \in Bases /\ Plain(nptr, asked)
  BY <1>1, <1>2 DEF StrtolInv, Bases
<1>4. /\ N!minus <=> N!char(nptr, Behind(nptr)) = "-"
      /\ N!after_sign = Signed(nptr)
  BY <1>3, SignIs
<1>5. sign' \in {1, -1} /\ SignRight'
  BY <1>1, <1>4 DEF N!begin, SignRight
<1>6. PICK k \in 1 .. Len(nptr) + 1 : k = First(nptr, asked)
  BY <1>3, FirstIs
<1>7. PICK r \in 2 .. 36 : r = Real(nptr, asked)
  BY <1>3, CharAgrees, 1 \in Nat \ {0}
<1>8. PICK V, stop : /\ Gathers(V, nptr, k, r, stop) /\ stop = Counted(nptr, asked).stop
                     /\ Counted(nptr, asked).value = V[stop - 1]
  <2>1. r \in Nat
    OBVIOUS
  <2>2. PICK V : LET n == N!Number(nptr, k, r)
                 IN  Gathers(V, nptr, k, r, n.stop) /\ n.value = V[n.stop - 1]
    BY <1>3, <2>1, NumberHas
  <2> QED BY <1>6, <1>7, <2>2 DEF Counted
<1>9. stop \in k .. Len(nptr) + 1 /\ V[k - 1] = 0 /\ Len(nptr) \in Nat
  BY <1>3, <1>8 DEF Gathers
<1>10. PICK at : at = N!digit(N!char(nptr, k))
  OBVIOUS
<1>11. /\ k < stop => at < r
       /\ k = stop => at >= r
       /\ at \in Nat
  <2>1. k \in First(nptr, asked) .. stop
    BY <1>6, <1>9
  <2>2. Gathers(V, nptr, First(nptr, asked), Real(nptr, asked), stop)
    BY <1>6, <1>7, <1>8
  <2>3. /\ k < stop => N!digit(N!char(nptr, k)) < Real(nptr, asked)
        /\ k = stop => N!digit(N!char(nptr, k)) >= Real(nptr, asked)
    BY <1>3, <2>1, <2>2, GathersTo
  <2> QED BY <1>7, <1>10, <2>3, DigitTyped
<1>12. CASE N!char(nptr, N!after_sign) = N!NUL
  <2>1. pc' = "out" /\ ptr' = ptr
    BY <1>12 DEF N!begin
  <2>2. k = stop
    <3>1. N!char(nptr, Signed(nptr)) # "0"
      BY <1>4, <1>12 DEF N!NUL
    <3>2. k = Signed(nptr)
      BY <1>6, <3>1 DEF First, Hex
    <3>3. at = 256
      <4>1. N!NUL \in Marks
        BY Zenon DEF Marks
      <4> QED BY <1>4, <1>10, <1>12, <3>2, <4>1, DigitTyped
    <3> QED BY <1>9, <1>11, <3>3
  <2>3. N!Expected(nptr, asked) = <<0, 1, "EINVAL">>
    BY <1>6, <1>8, <2>2, NoneExpected
  <2>4. Ready'
    BY <1>1, <1>2, <1>5, <2>1, <2>3 DEF Ready
  <2> QED BY <1>1, <2>1, <2>4 DEF StrtolInv
<1>13. CASE N!char(nptr, N!after_sign) # N!NUL
  <2>1. pc' = "digits" /\ base' = r /\ ptr' = N!start(nptr, Signed(nptr), r)
    <3>1. /\ pc' = "digits" /\ base' = N!detected(nptr, N!after_sign, base)
          /\ ptr' = N!start(nptr, N!after_sign, base')
      BY <1>13 DEF N!begin
    <3>2. base' = r
      BY <1>2, <1>3, <1>4, <1>7, <3>1, StartIs
    <3> QED BY <1>4, <3>1, <3>2
  <2>2. Gathered(V)'
    <3>1. CASE k < stop
      <4>1. ptr' = k
        BY <1>3, <1>6, <1>7, <1>10, <1>11, <2>1, <3>1, StartIs
      <4>2. SoFar(V[k - 1], res', errno')
        <5>1. PICK z \in Nat : z = 0 /\ z = V[k - 1]
          BY <1>9
        <5>2. z <= LONG_MAX + 1
          BY <5>1, InputsAssumption
        <5>3. res' = -z /\ errno' = "0"
          <6>1. res' = 0 /\ errno' = "0"
            BY <1>1, <1>2
          <6>2. \A x \in Nat : -x = 0 - x
            OBVIOUS
          <6>3. -z = 0 - z
            BY <6>2, Zenon
          <6>4. 0 - z = 0
            BY <5>1
          <6> QED BY <6>1, <6>3, <6>4, Zenon
        <5>4. SoFar(z, res', errno')
          BY <5>2, <5>3 DEF SoFar
        <5> QED BY <5>1, <5>4
      <4>3. k \in k .. stop /\ stop > k
        BY <1>9, <3>1
      <4> QED BY <1>1, <1>6, <1>7, <1>8, <4>1, <4>2, <4>3 DEF Gathered
    <3>2. CASE ~(k < stop)
      <4>1. k = stop
        BY <1>9, <3>2
      <4>2. ptr' = 1 /\ N!digit(N!char(nptr, 1)) >= r
        BY <1>3, <1>6, <1>7, <1>10, <1>11, <2>1, <4>1, StartIs
      <4> QED BY <1>1, <1>2, <1>6, <1>7, <1>8, <4>1, <4>2 DEF Gathered
    <3> QED BY <3>1, <3>2
  <2> QED BY <1>1, <1>3, <1>5, <1>7, <2>1, <2>2 DEF StrtolInv
<1> QED BY <1>12, <1>13

\* A turn of the loop takes a digit more of the number, or overflows with
\* it.
LEMMA StrtolMore == StrtolInv /\ N!more => StrtolInv'
<1> SUFFICES ASSUME StrtolInv, N!more
             PROVE  StrtolInv'
  OBVIOUS
<1>1. /\ pc = "digits" /\ pc' = pc /\ nptr' = nptr /\ asked' = asked /\ base' = base
      /\ sign' = sign /\ ptr' = ptr + 1
      /\ N!digit(N!char(nptr, ptr)) < base
  BY DEF N!more
<1>2. /\ nptr \in Seq(Chars) /\ asked \in Bases /\ Plain(nptr, asked)
      /\ base = Real(nptr, asked) /\ SignRight
  BY <1>1 DEF StrtolInv
<1>3. PICK V : Gathered(V)
  BY <1>1 DEF StrtolInv
<1>4. PICK k \in 1 .. Len(nptr) + 1 : k = First(nptr, asked)
  BY <1>2, FirstIs
<1>5. PICK r \in 2 .. 36 : r = Real(nptr, asked)
  BY <1>2, CharAgrees, 1 \in Nat \ {0}
<1>6. PICK stop : stop = Counted(nptr, asked).stop
  OBVIOUS
<1>7. /\ Gathers(V, nptr, k, r, stop) /\ Counted(nptr, asked).value = V[stop - 1]
      /\ \/ ptr = 1 /\ N!digit(N!char(nptr, 1)) >= r
         \/ ptr \in k .. stop /\ stop > k /\ SoFar(V[ptr - 1], res, errno)
  BY <1>3, <1>4, <1>5, <1>6 DEF Gathered
<1>8. /\ stop \in k .. Len(nptr) + 1 /\ V \in [k - 1 .. stop - 1 -> Nat]
      /\ \A j \in k .. stop - 1 : V[j] = V[j - 1] * r + N!Digit(nptr[j]) /\ N!Digit(nptr[j]) < r
      /\ Len(nptr) \in Nat /\ stop \in Nat
  BY <1>2, <1>7 DEF Gathers
<1>9. PICK at \in Nat : at = N!digit(N!char(nptr, ptr))
  BY DigitTyped
<1>10. at < r
  BY <1>1, <1>2, <1>5, <1>9
<1>11. ptr \in k .. stop /\ stop > k /\ SoFar(V[ptr - 1], res, errno)
  BY <1>7, <1>9, <1>10
<1>12. ptr < stop /\ at = N!Digit(nptr[ptr])
  <2>1. Gathers(V, nptr, First(nptr, asked), Real(nptr, asked), stop)
    BY <1>4, <1>5, <1>7
  <2>2. ptr \in First(nptr, asked) .. stop
    BY <1>4, <1>11
  <2>3. /\ ptr < stop => N!digit(N!char(nptr, ptr)) = N!Digit(nptr[ptr])
        /\ ptr = stop => N!digit(N!char(nptr, ptr)) >= Real(nptr, asked)
    BY <1>2, <2>1, <2>2, GathersTo
  <2>4. ptr # stop
    BY <1>5, <1>9, <1>10, <2>3
  <2> QED BY <1>8, <1>9, <1>11, <2>3, <2>4
<1>13. /\ ptr \in k .. stop - 1 /\ ptr - 1 \in k - 1 .. stop - 1
       /\ (ptr + 1) - 1 = ptr /\ ptr + 1 \in k .. stop
  BY <1>8, <1>11, <1>12
<1>14. PICK v \in Nat : v = V[ptr - 1]
  BY <1>8, <1>13
<1>15. V[ptr] = v * r + at
  BY <1>8, <1>12, <1>13, <1>14
<1>16. SoFar(V[ptr], res', errno')
  <2>1. at \in 0 .. r - 1 /\ base = r /\ SoFar(v, res, errno)
    BY <1>2, <1>5, <1>10, <1>11, <1>14
  <2>2. SoFar(v * r + at, IF N!fits(at) THEN res * base - at ELSE N!LONG_MIN,
              IF N!fits(at) THEN errno ELSE "ERANGE")
    BY <2>1, FitsIs
  <2>3. /\ res' = IF N!fits(at) THEN res * base - at ELSE N!LONG_MIN
        /\ errno' = IF N!fits(at) THEN errno ELSE "ERANGE"
    BY <1>9 DEF N!more
  <2> QED BY <1>15, <2>2, <2>3
<1>17. Gathered(V)'
  BY <1>1, <1>4, <1>5, <1>6, <1>7, <1>11, <1>13, <1>16 DEF Gathered
<1> QED BY <1>1, <1>2, <1>17 DEF StrtolInv, SignRight

\* The loop ends where the number does.
LEMMA StrtolEnd == StrtolInv /\ N!end => StrtolInv'
<1> SUFFICES ASSUME StrtolInv, N!end
             PROVE  StrtolInv'
  OBVIOUS
<1>1. /\ pc = "digits" /\ pc' = "out" /\ nptr' = nptr /\ asked' = asked /\ base' = base
      /\ sign' = sign /\ ptr' = ptr /\ res' = res /\ errno' = errno
      /\ N!digit(N!char(nptr, ptr)) >= base
  BY DEF N!end
<1>2. /\ nptr \in Seq(Chars) /\ asked \in Bases /\ Plain(nptr, asked)
      /\ base = Real(nptr, asked) /\ SignRight
  BY <1>1 DEF StrtolInv
<1>3. PICK V : Gathered(V)
  BY <1>1 DEF StrtolInv
<1>4. PICK k \in 1 .. Len(nptr) + 1 : k = First(nptr, asked)
  BY <1>2, FirstIs
<1>5. PICK r \in 2 .. 36 : r = Real(nptr, asked)
  BY <1>2, CharAgrees, 1 \in Nat \ {0}
<1>6. PICK stop : stop = Counted(nptr, asked).stop
  OBVIOUS
<1>7. /\ Gathers(V, nptr, k, r, stop) /\ Counted(nptr, asked).value = V[stop - 1]
      /\ \/ ptr = 1 /\ stop = k /\ res = 0
         \/ ptr \in k .. stop /\ stop > k /\ SoFar(V[ptr - 1], res, errno)
  BY <1>3, <1>4, <1>5, <1>6 DEF Gathered
<1>8. /\ stop \in k .. Len(nptr) + 1 /\ V \in [k - 1 .. stop - 1 -> Nat]
      /\ Len(nptr) \in Nat /\ stop \in Nat
  BY <1>2, <1>7 DEF Gathers
<1>9. sign \in {1, -1}
  BY <1>2 DEF SignRight
<1>10. CASE ptr = 1 /\ stop = k /\ res = 0
  <2>1. N!Expected(nptr, asked) = <<0, 1, "EINVAL">>
    BY <1>4, <1>6, <1>10, NoneExpected
  <2>2. Ready'
    BY <1>1, <1>9, <1>10, <2>1 DEF Ready
  <2> QED BY <1>1, <1>2, <2>2 DEF StrtolInv
<1>11. CASE ptr \in k .. stop /\ stop > k /\ SoFar(V[ptr - 1], res, errno)
  <2>1. ptr = stop
    <3>1. Gathers(V, nptr, First(nptr, asked), Real(nptr, asked), stop)
      BY <1>4, <1>5, <1>7
    <3>2. ptr \in First(nptr, asked) .. stop
      BY <1>4, <1>11
    <3>3. ptr < stop => N!digit(N!char(nptr, ptr)) < Real(nptr, asked)
      BY <1>2, <3>1, <3>2, GathersTo
    <3>4. N!digit(N!char(nptr, ptr)) \in Nat
      BY DigitTyped
    <3> QED BY <1>1, <1>2, <1>5, <1>8, <1>11, <3>3, <3>4
  <2>2. stop - 1 \in k - 1 .. stop - 1
    BY <1>8, <1>11
  <2>3. Ready'
    <3>1. Counted(nptr, asked).value \in Nat /\ SoFar(Counted(nptr, asked).value, res, errno)
      BY <1>7, <1>8, <1>11, <2>1, <2>2
    <3>2. k \in Nat \ {0}
      BY <1>8
    <3> QED BY <1>1, <1>2, <1>4, <1>6, <1>8, <1>11, <2>1, <3>1, <3>2 DEF Ready, SignRight
  <2> QED BY <1>1, <1>2, <2>3 DEF StrtolInv
<1> QED BY <1>7, <1>10, <1>11

\* What is returned is what is expected.
LEMMA StrtolOut == StrtolInv /\ N!out => StrtolInv'
<1> SUFFICES ASSUME StrtolInv, N!out
             PROVE  StrtolInv'
  OBVIOUS
<1>1. /\ pc = "out" /\ pc' = "done" /\ nptr' = nptr /\ asked' = asked /\ ptr' = ptr
      /\ IF sign = 1 /\ res = N!LONG_MIN
         THEN res' = LONG_MAX /\ errno' = "ERANGE"
         ELSE res' = -(sign * res) /\ errno' = IF ptr = 1 THEN "EINVAL" ELSE errno
  BY DEF N!out
<1>2. PICK m \in Nat : m = LONG_MAX /\ N!LONG_MIN = -(m + 1)
  BY InputsAssumption DEF N!LONG_MIN
<1>3. Ready
  BY <1>1 DEF StrtolInv
<1>4. <<res', ptr', errno'>> = N!Expected(nptr, asked)
  <2>1. CASE ptr = 1 /\ res = 0 /\ sign \in {1, -1}
             /\ N!Expected(nptr, asked) = <<0, 1, "EINVAL">>
    <3>1. res' = 0 /\ errno' = "EINVAL"
      BY <1>1, <1>2, <2>1
    <3> QED BY <1>1, <2>1, <3>1
  <2>2. CASE /\ asked \in Bases /\ SignRight /\ ptr = Counted(nptr, asked).stop
             /\ Counted(nptr, asked).stop > First(nptr, asked)
             /\ First(nptr, asked) \in Nat \ {0}
             /\ Counted(nptr, asked).stop \in Nat
             /\ Counted(nptr, asked).value \in Nat
             /\ SoFar(Counted(nptr, asked).value, res, errno)
    <3>1. PICK n \in Nat, stop \in Nat, k \in Nat \ {0} :
            /\ n = Counted(nptr, asked).value /\ stop = Counted(nptr, asked).stop
            /\ k = First(nptr, asked)
      BY <2>2
    <3>2. PICK v : v = IF N!char(nptr, Behind(nptr)) = "-" THEN -n ELSE n
      OBVIOUS
    <3>3. ~(asked < 0 \/ asked = 1 \/ asked > 36 \/ stop = k) /\ ptr = stop /\ ptr # 1
      BY <2>2, <3>1 DEF Bases
    <3>4. N!Expected(nptr, asked) =
            IF v < N!LONG_MIN THEN <<N!LONG_MIN, stop, "ERANGE">>
            ELSE IF v > LONG_MAX THEN <<LONG_MAX, stop, "ERANGE">>
            ELSE <<v, stop, "0">>
      BY <3>1, <3>2, <3>3, ExpectedIs, Zenon
    <3>5. SoFar(n, res, errno)
      BY <2>2, <3>1
    <3>6. CASE N!char(nptr, Behind(nptr)) = "-"
      <4>1. sign = -1 /\ v = -n
        BY <2>2, <3>2, <3>6 DEF SignRight
      <4>2. res' = res /\ errno' = errno
        <5>1. res \in Int
          BY <1>2, <3>5 DEF SoFar
        <5> QED BY <1>1, <3>3, <4>1, <5>1
      <4>3. CASE n <= m + 1
        <5>1. res = -n /\ errno = "0"
          BY <1>2, <3>5, <4>3 DEF SoFar
        <5> QED BY <1>1, <1>2, <3>3, <3>4, <4>1, <4>2, <4>3, <5>1
      <4>4. CASE ~(n <= m + 1)
        <5>1. res = -(m + 1) /\ errno = "ERANGE"
          BY <1>2, <3>5, <4>4 DEF SoFar
        <5> QED BY <1>1, <1>2, <3>3, <3>4, <4>1, <4>2, <4>4, <5>1
      <4> QED BY <4>3, <4>4
    <3>7. CASE N!char(nptr, Behind(nptr)) # "-"
      <4>1. sign = 1 /\ v = n
        BY <2>2, <3>2, <3>7 DEF SignRight
      <4>2. CASE n <= m
        <5>1. res = -n /\ errno = "0" /\ res # N!LONG_MIN
          BY <1>2, <3>5, <4>2 DEF SoFar
        <5>2. res' = n /\ errno' = "0"
          BY <1>1, <3>3, <4>1, <5>1
        <5> QED BY <1>1, <1>2, <3>3, <3>4, <4>1, <4>2, <5>2
      <4>3. CASE ~(n <= m)
        <5>1. res = N!LONG_MIN
          BY <1>2, <3>5, <4>3 DEF SoFar
        <5>2. res' = m /\ errno' = "ERANGE"
          BY <1>1, <1>2, <4>1, <5>1
        <5> QED BY <1>1, <1>2, <3>3, <3>4, <4>1, <4>3, <5>2
      <4> QED BY <4>2, <4>3
    <3> QED BY <3>6, <3>7
  <2> QED BY <1>3, <2>1, <2>2 DEF Ready
<1>5. N!Right'
  BY <1>1, <1>4 DEF N!Right
<1> QED BY <1>1, <1>5 DEF StrtolInv

\* strtol keeps it.
LEMMA StrtolNext == StrtolInv /\ N!Next => StrtolInv'
<1> SUFFICES ASSUME StrtolInv, N!Next
             PROVE  StrtolInv'
  OBVIOUS
<1>1. CASE N!reject \/ N!begin \/ N!more \/ N!end \/ N!out
  BY <1>1, StrtolReject, StrtolBegin, StrtolMore, StrtolEnd, StrtolOut
<1>2. CASE N!done
  BY <1>2 DEF N!done, N!vars, StrtolInv, N!Right
<1> QED BY <1>1, <1>2 DEF N!Next

\* It holds when strtol is called.
LEMMA StrtolInit == Readable /\ N!Init => StrtolInv
<1> SUFFICES ASSUME Readable, N!Init
             PROVE  StrtolInv
  OBVIOUS
<1>1. PICK c \in Inputs : nptr = c[1] /\ asked = c[2] /\ base = c[2]
  BY DEF N!Init
<1>2. nptr \in Seq(Chars) /\ asked \in Int
  BY <1>1, InputsAssumption
<1>3. Plain(nptr, asked)
  BY <1>1 DEF Readable
<1>4. ptr = 1 /\ sign = 1 /\ res = 0 /\ errno = "0" /\ pc = "begin"
  BY DEF N!Init
<1> QED BY <1>1, <1>2, <1>3, <1>4 DEF StrtolInv

\* strtol returns the number a string starts with, where it ends and whether
\* it fitted, for every string without the letters and prefixes it gets
\* wrong, every base and a long of any width.
THEOREM RightAlways == Readable => (Spec => []Right)
<1> SUFFICES ASSUME Readable
             PROVE  Spec => []Right
  OBVIOUS
<1>1. Init => (part = "strtol" => StrtolInv)
  BY StrtolInit DEF Init
<1>2. (part = "strtol" => StrtolInv) /\ [Next]_vars => (part = "strtol" => StrtolInv)'
  <2> SUFFICES ASSUME part = "strtol" => StrtolInv, [Next]_vars, part' = "strtol"
               PROVE  StrtolInv'
    OBVIOUS
  <2>1. CASE converting
    BY <2>1, StrtolNext DEF converting
  <2>2. CASE UNCHANGED strtol
    <3>1. part' = part
      BY DEF Next, vars, booting, converting, printing, copying, iterating, finished
    <3> QED BY <2>2, <3>1
            DEF strtol, StrtolInv, SignRight, Gathered, Ready, N!Right
  <2> QED BY <2>1, <2>2 DEF Next, vars, booting, printing, copying, iterating, finished
<1>3. (part = "strtol" => StrtolInv) => Right
  BY DEF StrtolInv, Right, N!Right
<1> QED BY <1>1, <1>2, <1>3, PTL DEF Spec

=============================================================================
