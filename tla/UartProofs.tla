------------------------------ MODULE UartProofs ------------------------------
(***************************************************************************)
(* Proofs about Uart, for every depth of the FIFO and all texts.           *)
(***************************************************************************)
EXTENDS Uart, Lemmas

-----------------------------------------------------------------------------
(* What of a sequence is in a set.                                         *)

\* F[i] is what of the first i elements of s is in S.
Upto(F, s, S) ==
  /\ F[0] = <<>>
  /\ \A i \in 1 .. Len(s) : F[i] = IF s[i] \in S THEN Append(F[i - 1], s[i]) ELSE F[i - 1]

\* There is such a function.
LEMMA UptoExists ==
  ASSUME NEW A, NEW s \in Seq(A), NEW S
  PROVE  \E F : /\ F = [i \in 0 .. Len(s) |-> F[i]]
                /\ Upto(F, s, S)
<1> DEFINE Good(F, n) ==
      /\ F = [i \in 0 .. n |-> F[i]]
      /\ F[0] = <<>>
      /\ \A i \in 1 .. n : F[i] = IF s[i] \in S THEN Append(F[i - 1], s[i]) ELSE F[i - 1]
<1> DEFINE T == {n \in Nat : \E F : Good(F, n)}
<1>1. 0 \in T
  <2>1. Good([i \in 0 .. 0 |-> <<>>], 0)
    OBVIOUS
  <2> QED BY <2>1
<1>2. ASSUME NEW n \in T
      PROVE  n + 1 \in T
  <2>1. n \in Nat
    OBVIOUS
  <2>2. PICK F : Good(F, n)
    OBVIOUS
  <2> DEFINE x == IF s[n + 1] \in S THEN Append(F[n], s[n + 1]) ELSE F[n]
             G == [i \in 0 .. n + 1 |-> IF i = n + 1 THEN x ELSE F[i]]
  <2>3. /\ \A i \in 0 .. n : G[i] = F[i]
        /\ G[n + 1] = x
        /\ G = [i \in 0 .. n + 1 |-> G[i]]
    BY <2>1
  <2> HIDE DEF G
  <2>4. G[0] = <<>>
    BY <2>1, <2>2, <2>3
  <2>5. ASSUME NEW i \in 1 .. n + 1
        PROVE  G[i] = IF s[i] \in S THEN Append(G[i - 1], s[i]) ELSE G[i - 1]
    <3>1. CASE i = n + 1
      <4>1. i - 1 = n /\ n \in 0 .. n
        BY <2>1, <3>1
      <4>2. G[i] = x /\ G[i - 1] = F[n]
        BY <2>3, <3>1, <4>1
      <4> QED BY <3>1, <4>2
    <3>2. CASE i # n + 1
      <4>1. i \in 1 .. n /\ i \in 0 .. n /\ i - 1 \in 0 .. n
        BY <2>1, <3>2
      <4>2. F[i] = IF s[i] \in S THEN Append(F[i - 1], s[i]) ELSE F[i - 1]
        BY <2>2, <4>1
      <4> QED BY <2>3, <4>1, <4>2
    <3> QED BY <3>1, <3>2
  <2>6. Good(G, n + 1)
    BY <2>3, <2>4, <2>5
  <2> HIDE DEF Good
  <2> QED BY <2>1, <2>6
<1>3. T \in SUBSET Nat
  OBVIOUS
<1>4. T = Nat
  BY <1>1, <1>2, <1>3, NatSetInduction
<1>5. Len(s) \in T
  BY <1>4
<1>6. PICK F : Good(F, Len(s))
  BY <1>5
<1> QED BY <1>6 DEF Upto

\* Only gives the last value of one.
LEMMA OnlyUpto ==
  ASSUME NEW A, NEW s \in Seq(A), NEW S
  PROVE  \E F : Upto(F, s, S) /\ Only(s, S) = F[Len(s)]
<1> DEFINE n == Len(s)
           upto == CHOOSE F : F = [i \in 0 .. n |->
                     IF i = 0 THEN <<>>
                     ELSE IF s[i] \in S THEN Append(F[i - 1], s[i]) ELSE F[i - 1]]
<1>1. Only(s, S) = upto[n]
  BY DEF Only
<1>2. PICK F : F = [i \in 0 .. n |-> F[i]] /\ Upto(F, s, S)
  BY UptoExists
<1>3. F = [i \in 0 .. n |->
             IF i = 0 THEN <<>>
             ELSE IF s[i] \in S THEN Append(F[i - 1], s[i]) ELSE F[i - 1]]
  <2>1. \A i \in 0 .. n : F[i] = IF i = 0 THEN <<>>
             ELSE IF s[i] \in S THEN Append(F[i - 1], s[i]) ELSE F[i - 1]
    BY <1>2 DEF Upto
  <2>2. [i \in 0 .. n |-> F[i]] = [i \in 0 .. n |->
             IF i = 0 THEN <<>>
             ELSE IF s[i] \in S THEN Append(F[i - 1], s[i]) ELSE F[i - 1]]
    BY <2>1
  <2> QED BY <1>2, <2>2, Zenon
<1>4. upto = [i \in 0 .. n |->
                IF i = 0 THEN <<>>
                ELSE IF s[i] \in S THEN Append(upto[i - 1], s[i]) ELSE upto[i - 1]]
  BY <1>3
<1> HIDE DEF upto
<1> DEFINE along == [i \in 0 .. n |->
                IF i = 0 THEN <<>>
                ELSE IF s[i] \in S THEN Append(upto[i - 1], s[i]) ELSE upto[i - 1]]
<1>5. /\ along[0] = <<>>
      /\ \A i \in 1 .. n :
           along[i] = IF s[i] \in S THEN Append(upto[i - 1], s[i]) ELSE upto[i - 1]
  OBVIOUS
<1>6. upto = along
  BY <1>4
<1> HIDE DEF along
<1>7. Upto(upto, s, S)
  BY <1>5, <1>6 DEF Upto
<1> QED BY <1>1, <1>7

\* Every such function ends with it.
LEMMA OnlyIs ==
  ASSUME NEW A, NEW s \in Seq(A), NEW S, NEW F, Upto(F, s, S)
  PROVE  Only(s, S) = F[Len(s)]
<1>1. PICK G : Upto(G, s, S) /\ Only(s, S) = G[Len(s)]
  BY OnlyUpto
<1>0. PICK n \in Nat : n = Len(s)
  OBVIOUS
<1> DEFINE T == {i \in 0 .. n : F[i] = G[i]}
<1>2. 0 \in T
  BY <1>1 DEF Upto
<1>3. ASSUME NEW i \in 0 .. n - 1, i \in T
      PROVE  i + 1 \in T
  <2>1. i + 1 \in 1 .. n /\ (i + 1) - 1 = i /\ F[i] = G[i]
    BY <1>0, <1>3
  <2>2. F[i + 1] = IF s[i + 1] \in S THEN Append(F[i], s[i + 1]) ELSE F[i]
    BY <1>0, <2>1 DEF Upto
  <2>3. G[i + 1] = IF s[i + 1] \in S THEN Append(G[i], s[i + 1]) ELSE G[i]
    BY <1>0, <1>1, <2>1 DEF Upto
  <2> QED BY <2>1, <2>2, <2>3
<1> HIDE DEF T
<1>4. 0 .. n \subseteq T
  BY <1>2, <1>3, IntervalInduction
<1>5. F[Len(s)] = G[Len(s)]
  BY <1>0, <1>4 DEF T
<1> QED BY <1>1, <1>5

\* There is nothing in the sequence without elements.
LEMMA OnlyEmpty ==
  ASSUME NEW S
  PROVE  Only(<<>>, S) = <<>>
<1>1. <<>> \in Seq({}) /\ Len(<<>>) = 0
  OBVIOUS
<1>2. PICK F : Upto(F, <<>>, S) /\ Only(<<>>, S) = F[0]
  BY <1>1, OnlyUpto
<1> QED BY <1>2 DEF Upto

\* What is appended counts if it is in the set.
LEMMA OnlyAppend ==
  ASSUME NEW A, NEW s \in Seq(A), NEW e \in A, NEW S
  PROVE  Only(Append(s, e), S) = IF e \in S THEN Append(Only(s, S), e) ELSE Only(s, S)
<1> DEFINE n == Len(s)
           t == Append(s, e)
<1>1. t \in Seq(A) /\ Len(t) = n + 1 /\ t[n + 1] = e /\ \A i \in 1 .. n : t[i] = s[i]
  OBVIOUS
<1> HIDE DEF t
<1>2. PICK F : Upto(F, t, S) /\ Only(t, S) = F[n + 1]
  BY <1>1, OnlyUpto
<1>3. Upto(F, s, S)
  BY <1>1, <1>2 DEF Upto
<1>4. Only(s, S) = F[n]
  BY <1>3, OnlyIs
<1>5. n + 1 \in 1 .. n + 1 /\ (n + 1) - 1 = n
  OBVIOUS
<1>6. F[n + 1] = IF e \in S THEN Append(F[n], e) ELSE F[n]
  BY <1>1, <1>2, <1>5 DEF Upto
<1> QED BY <1>2, <1>4, <1>6 DEF t

\* The sets may differ in what the sequence has nothing of.
LEMMA OnlySame ==
  ASSUME NEW A, NEW s \in Seq(A), NEW S, NEW S2, \A i \in 1 .. Len(s) : s[i] \in S <=> s[i] \in S2
  PROVE  Only(s, S) = Only(s, S2)
<1>1. PICK F : Upto(F, s, S) /\ Only(s, S) = F[Len(s)]
  BY OnlyUpto
<1>2. Upto(F, s, S2)
  BY <1>1 DEF Upto
<1>3. Only(s, S2) = F[Len(s)]
  BY <1>2, OnlyIs
<1> QED BY <1>1, <1>3

\* Characters are added at the end.
LEMMA ConcatAppend ==
  ASSUME NEW A, NEW s \in Seq(A), NEW t \in Seq(A), NEW e \in A
  PROVE  /\ s \o Append(t, e) = Append(s \o t, e)
         /\ Append(s, e) \in Seq(A)
OBVIOUS

\* A sequence up to its next element.
LEMMA UpToNext ==
  ASSUME NEW A, NEW s \in Seq(A), NEW n \in 0 .. Len(s), NEW m \in n .. Len(s) - 1
  PROVE  /\ m \in 0 .. Len(s) - 1 /\ s[m + 1] \in A
         /\ SubSeq(s, 1, m) \in Seq(A) /\ SubSeq(s, n + 1, m) \in Seq(A)
         /\ SubSeq(s, 1, m + 1) = Append(SubSeq(s, 1, m), s[m + 1])
         /\ SubSeq(s, n + 1, m + 1) = Append(SubSeq(s, n + 1, m), s[m + 1])
         /\ m + 1 \in n .. Len(s) /\ m + 1 \in n + 1 .. Len(s)
OBVIOUS

\* It is a sequence of the same kind.
LEMMA OnlySeq ==
  ASSUME NEW A, NEW s \in Seq(A), NEW S
  PROVE  Only(s, S) \in Seq(A)
<1>1. PICK F : Upto(F, s, S) /\ Only(s, S) = F[Len(s)]
  BY OnlyUpto
<1>2. PICK n \in Nat : n = Len(s)
  OBVIOUS
<1> DEFINE T == {i \in 0 .. n : F[i] \in Seq(A)}
<1>3. 0 \in T
  <2>1. F[0] = <<>> /\ <<>> \in Seq(A) /\ 0 \in 0 .. n
    BY <1>1, <1>2 DEF Upto
  <2> QED BY <2>1
<1>4. ASSUME NEW i \in 0 .. n - 1, i \in T
      PROVE  i + 1 \in T
  <2>1. /\ i + 1 \in 1 .. Len(s) /\ (i + 1) - 1 = i /\ F[i] \in Seq(A)
        /\ s[i + 1] \in A /\ i + 1 \in 0 .. n
    BY <1>2, <1>4
  <2>2. F[i + 1] = IF s[i + 1] \in S THEN Append(F[i], s[i + 1]) ELSE F[i]
    BY <1>1, <2>1 DEF Upto
  <2> QED BY <2>1, <2>2, ConcatAppend
<1> HIDE DEF T
<1>5. 0 .. n \subseteq T
  BY <1>3, <1>4, IntervalInduction
<1>6. F[n] \in Seq(A)
  BY <1>5 DEF T
<1> QED BY <1>1, <1>2, <1>6

\* What is in the set to the end comes to the end.
LEMMA OnlyRest ==
  ASSUME NEW A, NEW s \in Seq(A), NEW S, NEW n \in 0 .. Len(s),
         \A i \in n + 1 .. Len(s) : s[i] \in S
  PROVE  Only(s, S) = Only(SubSeq(s, 1, n), S) \o SubSeq(s, n + 1, Len(s))
<1>1. PICK l \in Nat : l = Len(s)
  OBVIOUS
<1>2. SubSeq(s, 1, n) \in Seq(A) /\ SubSeq(s, n + 1, n) = <<>> /\ SubSeq(s, 1, l) = s
  BY <1>1
<1>3. PICK h \in Seq(A) : h = Only(SubSeq(s, 1, n), S)
  BY <1>2, OnlySeq
<1> DEFINE T == {m \in n .. l : Only(SubSeq(s, 1, m), S) = h \o SubSeq(s, n + 1, m)}
<1>4. n <= l => n \in T
  BY <1>1, <1>2, <1>3
<1>5. ASSUME NEW m \in n .. l - 1, m \in T
      PROVE  m + 1 \in T
  <2>1. Only(SubSeq(s, 1, m), S) = h \o SubSeq(s, n + 1, m)
    BY <1>5
  <2> HIDE DEF T
  <2>2. /\ m \in 0 .. Len(s) - 1 /\ s[m + 1] \in A
        /\ SubSeq(s, 1, m) \in Seq(A) /\ SubSeq(s, n + 1, m) \in Seq(A)
        /\ SubSeq(s, 1, m + 1) = Append(SubSeq(s, 1, m), s[m + 1])
        /\ SubSeq(s, n + 1, m + 1) = Append(SubSeq(s, n + 1, m), s[m + 1])
        /\ m + 1 \in n .. Len(s) /\ m + 1 \in n + 1 .. Len(s)
    BY <1>1, UpToNext
  <2>3. PICK t \in Seq(A), u \in Seq(A), e \in A :
          t = SubSeq(s, 1, m) /\ u = SubSeq(s, n + 1, m) /\ e = s[m + 1]
    BY <2>2
  <2>4. e \in S
    BY <2>2, <2>3
  <2>5. Only(Append(t, e), S) = Append(Only(t, S), e)
    BY <2>4, OnlyAppend
  <2>6. Append(h \o u, e) = h \o Append(u, e)
    <3>1. h \o Append(u, e) = Append(h \o u, e)
      BY ONLY ConcatAppend, h \in Seq(A), u \in Seq(A), e \in A
    <3> QED BY <3>1
  <2>7. Only(Append(t, e), S) = h \o Append(u, e)
    BY <2>1, <2>3, <2>5, <2>6
  <2> QED BY <1>1, <2>2, <2>3, <2>7 DEF T
<1> HIDE DEF T
<1>6. n .. l \subseteq T
  <2>1. n \in Int /\ l \in Int
    BY <1>1
  <2> QED BY <1>4, <1>5, <2>1, IntervalInduction
<1>7. l \in T
  BY <1>1, <1>6
<1>8. Only(SubSeq(s, 1, l), S) = h \o SubSeq(s, n + 1, l)
  BY <1>7 DEF T
<1> QED BY <1>1, <1>2, <1>3, <1>8

-----------------------------------------------------------------------------
(* The invariant: who prints what.                                         *)

\* The rest of text is still to be printed, and what is not is the end of out.
Saying(text, rest, out) ==
  \E n \in 0 .. Len(text) :
    /\ n <= Len(out) /\ Len(rest) = Len(text) - n
    /\ \A j \in 1 .. Len(text) - n : rest[j] = text[n + j]
    /\ \A j \in 1 .. n : out[Len(out) - n + j] = text[j]

\* text is in out, from one place on.
Whole(text, out) ==
  \E i \in 0 .. Len(out) - Len(text) : \A j \in 1 .. Len(text) : out[i + j] = text[j]

\* Who has interrupted whom.
Stacked ==
  {<<"kernel">>, <<"irq", "kernel">>, <<"fatal", "kernel">>, <<"fatal", "irq", "kernel">>}

TypeOK ==
  /\ fifo \in Seq(Chars) /\ wire \in Seq(Chars)
  /\ lost \subseteq Chars /\ IsFiniteSet(lost)
  /\ left \in [Callers -> Seq(Chars)] /\ ready \in [Callers -> BOOLEAN]
  /\ running \in Stacked
  /\ panicked \in BOOLEAN
  /\ irqs \in 0 .. Len(Lines)

\* The handlers print their lines, each in one piece.
HandlerInv ==
  /\ Runs("irq") => irqs >= 1 /\ Saying(Lines[irqs], left["irq"], Printed)
  /\ Runs("fatal") => Saying(Dump, left["fatal"], Printed)
  /\ running \in {<<"kernel">>, <<"fatal", "kernel">>} => left["irq"] = <<>>
  /\ ~Runs("fatal") => left["fatal"] = <<>>
  /\ \A k \in 1 .. Len(Lines) : Complete(k) => Whole(Lines[k], Printed)

\* Room that a handler has seen stays; room that the kernel has seen stays
\* until it is interrupted, which is once for each character lost.
ReadyInv ==
  /\ \A c \in Callers : ready[c] => left[c] # <<>>
  /\ Runs("irq") /\ ready["irq"] => room
  /\ ready["fatal"] => room
  /\ Cardinality(lost) <= irqs
  /\ ready["kernel"] =>
       (Runs("kernel") /\ room) \/ Cardinality(lost) < irqs \/ Runs("fatal")

IInv == TypeOK /\ HandlerInv /\ ReadyInv

-----------------------------------------------------------------------------
(* Facts about its parts.                                                  *)

\* The next character of a text is printed.
LEMMA SayingNext ==
  ASSUME NEW text \in Seq(Chars), NEW rest \in Seq(Chars), NEW out \in Seq(Chars),
         Saying(text, rest, out), rest # <<>>
  PROVE  /\ Head(rest) \in Of(text) /\ Head(rest) \in Chars
         /\ Saying(text, Tail(rest), Append(out, Head(rest)))
<1>1. PICK n \in 0 .. Len(text) :
        /\ n <= Len(out) /\ Len(rest) = Len(text) - n
        /\ \A j \in 1 .. Len(text) - n : rest[j] = text[n + j]
        /\ \A j \in 1 .. n : out[Len(out) - n + j] = text[j]
  BY DEF Saying
<1>2. /\ n + 1 \in 0 .. Len(text) /\ n + 1 \in DOMAIN text /\ Head(rest) = text[n + 1]
      /\ Len(Tail(rest)) = Len(text) - (n + 1)
      /\ \A j \in 1 .. Len(text) - (n + 1) : Tail(rest)[j] = text[n + 1 + j]
  BY <1>1
<1> DEFINE more == Append(out, Head(rest))
<1>3. /\ Len(more) = Len(out) + 1 /\ more[Len(out) + 1] = text[n + 1]
      /\ \A j \in 1 .. Len(out) : more[j] = out[j]
  BY <1>2
<1> HIDE DEF more
<1>4. ASSUME NEW j \in 1 .. n + 1
      PROVE  more[Len(more) - (n + 1) + j] = text[j]
  <2>1. CASE j = n + 1
    BY <1>3, <2>1
  <2>2. CASE j # n + 1
    <3>1. /\ j \in 1 .. n /\ Len(more) - (n + 1) + j = Len(out) - n + j
          /\ Len(out) - n + j \in 1 .. Len(out)
      BY <1>1, <1>3, <2>2
    <3> QED BY <1>1, <1>3, <3>1
  <2> QED BY <2>1, <2>2
<1>5. Saying(text, Tail(rest), more)
  <2>1. PICK k \in 0 .. Len(text) : k = n + 1
    BY <1>2
  <2>2. /\ k <= Len(more) /\ Len(Tail(rest)) = Len(text) - k
        /\ \A j \in 1 .. Len(text) - k : Tail(rest)[j] = text[k + j]
        /\ \A j \in 1 .. k : more[Len(more) - k + j] = text[j]
    BY <2>1, <1>1, <1>2, <1>3, <1>4
  <2> QED BY <2>2, Zenon DEF Saying
<1>6. Head(rest) \in Of(text) /\ Head(rest) \in Chars
  BY <1>2 DEF Of
<1> QED BY <1>5, <1>6 DEF more

\* A text that has been printed is whole.
LEMMA SayingDone ==
  ASSUME NEW text \in Seq(Chars), NEW out \in Seq(Chars), Saying(text, <<>>, out)
  PROVE  Whole(text, out)
<1>1. PICK n \in 0 .. Len(text) :
        /\ n <= Len(out) /\ Len(<<>>) = Len(text) - n
        /\ \A j \in 1 .. n : out[Len(out) - n + j] = text[j]
  BY DEF Saying
<1>2. n = Len(text) /\ Len(out) - n \in 0 .. Len(out) - Len(text)
  BY <1>1
<1> QED BY <1>1, <1>2 DEF Whole

\* And stays so.
LEMMA WholeKept ==
  ASSUME NEW text \in Seq(Chars), NEW out \in Seq(Chars), NEW ch \in Chars, Whole(text, out)
  PROVE  Whole(text, Append(out, ch))
<1>1. PICK i \in 0 .. Len(out) - Len(text) : \A j \in 1 .. Len(text) : out[i + j] = text[j]
  BY DEF Whole
<1> DEFINE more == Append(out, ch)
<1>2. Len(more) = Len(out) + 1 /\ \A j \in 1 .. Len(out) : more[j] = out[j]
  OBVIOUS
<1> HIDE DEF more
<1>3. i \in 0 .. Len(more) - Len(text)
  BY <1>2
<1>4. \A j \in 1 .. Len(text) : more[i + j] = text[j]
  BY <1>1, <1>2
<1>5. Whole(text, more)
  BY <1>3, <1>4 DEF Whole
<1> QED BY <1>5 DEF more

\* A text of which nothing has been printed, and one without characters.
LEMMA SayingStarts ==
  ASSUME NEW text \in Seq(Chars), NEW out \in Seq(Chars)
  PROVE  Saying(text, text, out) /\ (text = <<>> => Whole(text, out))
<1>1. 0 \in 0 .. Len(text)
  OBVIOUS
<1>2. Saying(text, text, out)
  BY <1>1 DEF Saying
<1> QED BY <1>2, SayingDone

\* The output is a sequence of characters, and who may run.
LEMMA Facts ==
  ASSUME TypeOK
  PROVE  /\ Printed \in Seq(Chars)
         /\ Runs("kernel") <=> running = <<"kernel">>
         /\ Runs("irq") <=> running = <<"irq", "kernel">>
         /\ Runs("fatal") <=> running \in {<<"fatal", "kernel">>, <<"fatal", "irq", "kernel">>}
         /\ \A c : Runs(c) => c \in Callers
         /\ Runs("kernel") \/ Runs("irq") \/ Runs("fatal")
BY DEF TypeOK, Printed, Runs, Stacked, Callers

\* The head of one sequence goes to the end of another.
LEMMA HeadMoves ==
  ASSUME NEW A, NEW s \in Seq(A), NEW t \in Seq(A), t # <<>>
  PROVE  Append(s, Head(t)) \o Tail(t) = s \o t
OBVIOUS

\* The output stays when a character goes from the FIFO to the wire.
LEMMA TransmitKeeps ==
  ASSUME TypeOK, transmit
  PROVE  Printed' = Printed
<1>1. /\ wire \in Seq(Chars) /\ fifo \in Seq(Chars) /\ fifo # <<>>
      /\ wire' = Append(wire, Head(fifo)) /\ fifo' = Tail(fifo)
  BY DEF TypeOK, transmit
<1>2. Append(wire, Head(fifo)) \o Tail(fifo) = wire \o fifo
  BY <1>1, HeadMoves
<1> QED BY <1>1, <1>2 DEF Printed

\* The invariant holds at first.
LEMMA InitIInv == Init => IInv
<1> SUFFICES ASSUME Init
             PROVE  IInv
  OBVIOUS
<1>1. TypeOK
  <2>1. left \in [Callers -> Seq(Chars)] /\ ready \in [Callers -> BOOLEAN]
    BY UartAssumption DEF Init
  <2>2. 0 \in 0 .. Len(Lines)
    BY UartAssumption
  <2>3. fifo \in Seq(Chars) /\ wire \in Seq(Chars)
    BY DEF Init
  <2>4. lost \subseteq Chars /\ IsFiniteSet(lost)
    BY FS_EmptySet DEF Init
  <2>5. running \in Stacked /\ panicked \in BOOLEAN /\ irqs \in 0 .. Len(Lines)
    BY <2>2 DEF Init, Stacked
  <2> QED BY <2>1, <2>3, <2>4, <2>5 DEF TypeOK
<1>2. HandlerInv
  <2>1. Runs("kernel") /\ ~Runs("irq") /\ ~Runs("fatal")
    BY <1>1, Facts DEF Init, Runs
  <2> QED BY <2>1 DEF Init, HandlerInv, Complete, Callers
<1>3. ReadyInv
  <2>1. \A c \in Callers : ~ready[c]
    BY DEF Init
  <2>2. "kernel" \in Callers /\ "irq" \in Callers /\ "fatal" \in Callers
    BY DEF Callers
  <2>3. Cardinality(lost) <= irqs
    BY FS_EmptySet DEF Init
  <2> QED BY <2>1, <2>2, <2>3 DEF ReadyInv
<1> QED BY <1>1, <1>2, <1>3 DEF IInv

-----------------------------------------------------------------------------
(* The steps.                                                              *)

\* What putchar does when it writes.
LEMMA Written ==
  ASSUME IInv, NEW c \in Callers, putchar_write(c)
  PROVE  /\ TypeOK'
         /\ Runs(c) /\ ready[c] /\ left[c] # <<>> /\ Head(left[c]) \in Chars
         /\ left'[c] = Tail(left[c]) /\ ~ready'[c]
         /\ \A d \in Callers \ {c} : left'[d] = left[d] /\ ready'[d] = ready[d]
         /\ UNCHANGED <<running, panicked, irqs>>
         /\ room => Printed' = Append(Printed, Head(left[c])) /\ lost' = lost
         /\ ~room => Printed' = Printed /\ lost' = lost \cup {Head(left[c])} /\ fifo' = fifo
<1>1. /\ Runs(c) /\ ready[c] /\ left[c] # <<>>
      /\ left' = [left EXCEPT ![c] = Tail(left[c])]
      /\ ready' = [ready EXCEPT ![c] = FALSE]
      /\ UNCHANGED <<wire, running, panicked, irqs>>
  BY DEF putchar_write, IInv, ReadyInv
<1>2. /\ left \in [Callers -> Seq(Chars)] /\ ready \in [Callers -> BOOLEAN]
      /\ fifo \in Seq(Chars) /\ wire \in Seq(Chars)
      /\ lost \subseteq Chars /\ IsFiniteSet(lost)
  BY DEF IInv, TypeOK
<1>3. left[c] \in Seq(Chars)
  BY <1>2
<1>4. Head(left[c]) \in Chars /\ Tail(left[c]) \in Seq(Chars)
  BY <1>1, <1>3
<1>5. /\ left' \in [Callers -> Seq(Chars)] /\ ready' \in [Callers -> BOOLEAN]
      /\ left'[c] = Tail(left[c]) /\ ~ready'[c]
      /\ \A d \in Callers \ {c} : left'[d] = left[d] /\ ready'[d] = ready[d]
  BY <1>1, <1>2, <1>4
<1>6. CASE room
  <2>1. fifo' = Append(fifo, Head(left[c])) /\ lost' = lost
    BY <1>6 DEF room, putchar_write
  <2>2. /\ fifo' \in Seq(Chars)
        /\ wire \o Append(fifo, Head(left[c])) = Append(wire \o fifo, Head(left[c]))
    BY <1>2, <1>4, <2>1, ConcatAppend
  <2>3. TypeOK'
    BY <1>1, <1>2, <1>5, <2>1, <2>2 DEF IInv, TypeOK
  <2> QED BY <1>1, <1>4, <1>5, <1>6, <2>1, <2>2, <2>3 DEF Printed
<1>7. CASE ~room
  <2>1. fifo' = fifo /\ lost' = lost \cup {Head(left[c])}
    BY <1>7 DEF room, putchar_write
  <2>2. lost' \subseteq Chars /\ IsFiniteSet(lost')
    BY <1>2, <1>4, <2>1, FS_AddElement
  <2>3. TypeOK'
    BY <1>1, <1>2, <1>5, <2>1, <2>2 DEF IInv, TypeOK
  <2> QED BY <1>1, <1>4, <1>5, <1>7, <2>1, <2>3 DEF Printed
<1> QED BY <1>6, <1>7

\* The lines that are complete stay whole, whatever is printed.
LEMMA WholesKept ==
  ASSUME IInv, Printed' = Printed \/ \E ch \in Chars : Printed' = Append(Printed, ch)
  PROVE  \A k \in 1 .. Len(Lines) : Complete(k) => Whole(Lines[k], Printed')
<1> SUFFICES ASSUME NEW k \in 1 .. Len(Lines), Complete(k)
             PROVE  Whole(Lines[k], Printed')
  OBVIOUS
<1>1. Whole(Lines[k], Printed) /\ Lines[k] \in Seq(Chars) /\ Printed \in Seq(Chars)
  BY UartAssumption, Facts DEF IInv, HandlerInv
<1> QED BY <1>1, WholeKept

\* A caller writes.
LEMMA WriteStep ==
  ASSUME IInv, NEW c \in Callers, putchar_write(c)
  PROVE  IInv'
<1>1. /\ TypeOK' /\ Runs(c) /\ ready[c] /\ left[c] # <<>> /\ Head(left[c]) \in Chars
      /\ left'[c] = Tail(left[c]) /\ ~ready'[c]
      /\ \A d \in Callers \ {c} : left'[d] = left[d] /\ ready'[d] = ready[d]
      /\ UNCHANGED <<running, panicked, irqs>>
      /\ room => Printed' = Append(Printed, Head(left[c])) /\ lost' = lost
      /\ ~room => Printed' = Printed /\ lost' = lost \cup {Head(left[c])} /\ fifo' = fifo
  BY Written
<1>2. /\ TypeOK /\ HandlerInv /\ ReadyInv
      /\ Printed \in Seq(Chars) /\ left[c] \in Seq(Chars)
      /\ \A d : Runs(d)' <=> Runs(d)
  BY <1>1, Facts DEF IInv, TypeOK, Runs
<1>3. /\ Runs("kernel") <=> running = <<"kernel">>
      /\ Runs("irq") <=> running = <<"irq", "kernel">>
      /\ Runs("fatal") <=> running \in {<<"fatal", "kernel">>, <<"fatal", "irq", "kernel">>}
      /\ "kernel" \in Callers /\ "irq" \in Callers /\ "fatal" \in Callers
  BY <1>2, Facts DEF Callers
<1>4. \A k \in 1 .. Len(Lines) : Complete(k) => Whole(Lines[k], Printed')
  BY <1>1, WholesKept
<1>5. CASE c = "irq"
  <2>1. room /\ ~Runs("fatal") /\ ~Runs("kernel") /\ irqs \in 1 .. Len(Lines)
    BY <1>1, <1>2, <1>3, <1>5 DEF ReadyInv, HandlerInv, Runs, TypeOK
  <2>2. Lines[irqs] \in Seq(Chars)
    BY <2>1, UartAssumption
  <2>3. Saying(Lines[irqs], left'["irq"], Printed')
    BY <1>1, <1>2, <1>5, <2>1, <2>2, SayingNext DEF HandlerInv
  <2>4. ASSUME NEW k \in 1 .. Len(Lines), Complete(k)'
        PROVE  Whole(Lines[k], Printed')
    <3>1. CASE k = irqs
      <4>1. left'["irq"] = <<>>
        BY <1>1, <2>1, <2>4, <3>1 DEF Complete
      <4>2. Printed' \in Seq(Chars)
        BY <1>1, <1>2, <2>1, ConcatAppend
      <4> QED BY <2>2, <2>3, <3>1, <4>1, <4>2, SayingDone
    <3>2. CASE k # irqs
      BY <1>1, <1>4, <2>1, <2>4, <3>2 DEF Complete
    <3> QED BY <3>1, <3>2
  <2>5. HandlerInv'
    BY <1>1, <1>2, <1>3, <1>5, <2>1, <2>3, <2>4 DEF HandlerInv
  <2>6. ReadyInv'
    BY <1>1, <1>2, <1>3, <1>5, <2>1 DEF HandlerInv, ReadyInv
  <2> QED BY <1>1, <2>5, <2>6 DEF IInv
<1>6. CASE c = "fatal"
  <2>1. room /\ ~Runs("irq") /\ ~Runs("kernel")
    BY <1>1, <1>2, <1>3, <1>6 DEF ReadyInv, Runs
  <2>2. Saying(Dump, left'["fatal"], Printed')
    BY <1>1, <1>2, <1>6, <2>1, UartAssumption, SayingNext DEF HandlerInv
  <2>3. HandlerInv'
    BY <1>1, <1>2, <1>3, <1>4, <1>6, <2>1, <2>2 DEF HandlerInv, Complete
  <2>4. ReadyInv'
    BY <1>1, <1>2, <1>3, <1>6, <2>1 DEF HandlerInv, ReadyInv
  <2> QED BY <1>1, <2>3, <2>4 DEF IInv
<1>7. CASE c = "kernel"
  <2>1. ~Runs("irq") /\ ~Runs("fatal") /\ ~ready["fatal"]
    BY <1>1, <1>2, <1>3, <1>7 DEF ReadyInv, HandlerInv, Runs
  <2>2. HandlerInv'
    BY <1>1, <1>2, <1>3, <1>4, <1>7, <2>1 DEF HandlerInv, Complete
  <2>3. Cardinality(lost') <= irqs
    <3>1. CASE room
      BY <1>1, <1>2, <3>1 DEF ReadyInv
    <3>2. CASE ~room
      <4>1. Cardinality(lost) < irqs /\ IsFiniteSet(lost) /\ irqs \in Nat
        BY <1>1, <1>2, <1>7, <2>1, <3>2 DEF ReadyInv, TypeOK
      <4>2. /\ Cardinality(lost) \in Nat
            /\ Cardinality(lost') \in {Cardinality(lost), Cardinality(lost) + 1}
        BY <1>1, <3>2, <4>1, FS_AddElement, FS_CardinalityType
      <4> QED BY <4>1, <4>2
    <3> QED BY <3>1, <3>2
  <2>4. ReadyInv'
    BY <1>1, <1>2, <1>3, <1>7, <2>1, <2>3 DEF ReadyInv
  <2> QED BY <1>1, <2>2, <2>4 DEF IInv
<1> QED BY <1>5, <1>6, <1>7 DEF Callers

\* A caller waits for room, or the UART transmits a character: nothing is
\* printed, and there is no less room.
LEMMA WaitStep ==
  ASSUME IInv, transmit \/ \E c \in Callers : putchar_wait(c)
  PROVE  IInv'
<1>1. TypeOK /\ HandlerInv /\ ReadyInv
  BY DEF IInv
<1>2. UNCHANGED <<lost, left, running, panicked, irqs>>
  BY DEF transmit, putchar_wait
<1>3. TypeOK'
  <2>1. CASE transmit
    BY <1>1, <2>1 DEF TypeOK, transmit
  <2>2. ASSUME NEW c \in Callers, putchar_wait(c)
        PROVE  TypeOK'
    BY <1>1, <2>2 DEF TypeOK, putchar_wait
  <2> QED BY <2>1, <2>2
<1>4. Printed' = Printed
  BY <1>1, TransmitKeeps DEF putchar_wait, Printed
<1>5. \A d : Runs(d)' <=> Runs(d)
  BY <1>2 DEF Runs
<1>6. HandlerInv'
  BY <1>1, <1>2, <1>4, <1>5 DEF HandlerInv, Complete
<1>7. ReadyInv'
  <2>1. CASE transmit
    <3>1. ready' = ready /\ (room => room')
      BY <1>1, <2>1, UartAssumption DEF transmit, room, TypeOK
    <3> QED BY <1>1, <1>2, <1>5, <3>1 DEF ReadyInv
  <2>2. ASSUME NEW c \in Callers, putchar_wait(c)
        PROVE  ReadyInv'
    <3>1. /\ Runs(c) /\ left[c] # <<>> /\ room /\ room'
          /\ ready' = [ready EXCEPT ![c] = TRUE] /\ ready \in [Callers -> BOOLEAN]
      BY <1>1, <2>2 DEF putchar_wait, room, TypeOK
    <3> QED BY <1>1, <1>2, <1>5, <3>1 DEF ReadyInv
  <2> QED BY <2>1, <2>2
<1> QED BY <1>3, <1>6, <1>7 DEF IInv

\* Sequences with the same elements are the same.
LEMMA SameSeq ==
  ASSUME NEW A, NEW s \in Seq(A), NEW t \in Seq(A), Len(s) = Len(t),
         \A i \in 1 .. Len(s) : s[i] = t[i]
  PROVE  s = t
OBVIOUS

\* Who interrupts comes first.
LEMMA Pushed ==
  ASSUME NEW A, NEW x \in A, NEW y \in A, NEW z \in A
  PROVE  <<x>> \o <<y>> = <<x, y>> /\ <<x>> \o <<y, z>> = <<x, y, z>>
<1> DEFINE s == <<x>> \o <<y>>
           t == <<x>> \o <<y, z>>
<1>1. /\ s \in Seq(A) /\ Len(s) = 2 /\ s[1] = x /\ s[2] = y
      /\ t \in Seq(A) /\ Len(t) = 3 /\ t[1] = x /\ t[2] = y /\ t[3] = z
  OBVIOUS
<1> HIDE DEF s, t
<1>2. \A i \in 1 .. 2 : s[i] = <<x, y>>[i]
  BY <1>1
<1>3. \A i \in 1 .. 3 : t[i] = <<x, y, z>>[i]
  BY <1>1
<1>4. s = <<x, y>>
  BY <1>1, <1>2, SameSeq
<1>5. t = <<x, y, z>>
  BY <1>1, <1>3, SameSeq
<1> QED BY <1>4, <1>5 DEF s, t

\* An exception comes, or returns.
LEMMA ExceptionStep ==
  ASSUME IInv, exception_irq \/ exception_return \/ exception_fatal
  PROVE  IInv'
<1>1. /\ TypeOK /\ HandlerInv /\ ReadyInv /\ Printed \in Seq(Chars)
      /\ left \in [Callers -> Seq(Chars)] /\ irqs \in Nat
      /\ "kernel" \in Callers /\ "irq" \in Callers /\ "fatal" \in Callers
  BY Facts DEF IInv, TypeOK, Callers
<1>2. /\ Runs("kernel") <=> running = <<"kernel">>
      /\ Runs("irq") <=> running = <<"irq", "kernel">>
      /\ Runs("fatal") <=> running \in {<<"fatal", "kernel">>, <<"fatal", "irq", "kernel">>}
  BY <1>1, Facts
<1>3. UNCHANGED <<fifo, wire, lost, ready, panicked>>
  BY DEF exception_irq, exception_return, exception_fatal
<1>4. Printed' = Printed /\ (room' <=> room)
  BY <1>3 DEF Printed, room
<1>5. CASE exception_irq
  <2>1. /\ Runs("kernel") /\ running = <<"kernel">> /\ irqs < Len(Lines) /\ irqs' = irqs + 1
        /\ left' = [left EXCEPT !["irq"] = Lines[irqs + 1]]
        /\ ~Runs("irq") /\ ~Runs("fatal")
    BY <1>2, <1>5 DEF exception_irq, interruptible, Runs
  <2>2. running' = <<"irq", "kernel">>
    <3>1. <<"irq">> \o <<"kernel">> = <<"irq", "kernel">>
      BY <1>1, Pushed
    <3> QED BY <1>5, <2>1, <3>1 DEF exception_irq
  <2>3. Runs("irq")' /\ ~Runs("kernel")' /\ ~Runs("fatal")'
    BY <2>2 DEF Runs
  <2>4. irqs' \in 1 .. Len(Lines) /\ Lines[irqs'] \in Seq(Chars)
    BY <1>1, <2>1, UartAssumption
  <2>5. /\ left' \in [Callers -> Seq(Chars)] /\ left'["irq"] = Lines[irqs']
        /\ left'["kernel"] = left["kernel"] /\ left'["fatal"] = left["fatal"]
    BY <1>1, <2>1, <2>4
  <2>6. TypeOK'
    BY <1>1, <1>3, <2>2, <2>4, <2>5 DEF TypeOK, Stacked
  <2>7. left["irq"] = <<>> /\ left["fatal"] = <<>> /\ ~ready["irq"] /\ ~ready["fatal"]
    BY <1>1, <2>1 DEF HandlerInv, ReadyInv
  <2>8. ASSUME NEW k \in 1 .. Len(Lines), Complete(k)'
        PROVE  Whole(Lines[k], Printed)
    <3>1. CASE k = irqs'
      <4>1. Lines[k] = <<>>
        BY <1>1, <2>1, <2>5, <2>8, <3>1 DEF Complete
      <4> QED BY <1>1, <2>4, <3>1, <4>1, SayingStarts
    <3>2. CASE k # irqs'
      <4>1. Complete(k)
        BY <1>1, <2>1, <2>7, <2>8, <3>2 DEF Complete
      <4> QED BY <1>1, <4>1 DEF HandlerInv
    <3> QED BY <3>1, <3>2
  <2>9. Saying(Lines[irqs'], left'["irq"], Printed)
    BY <1>1, <2>4, <2>5, SayingStarts
  <2>10. HandlerInv'
    BY <1>4, <2>2, <2>3, <2>4, <2>5, <2>7, <2>8, <2>9 DEF HandlerInv
  <2>11. Cardinality(lost) \in Nat
    BY <1>1, FS_CardinalityType DEF TypeOK
  <2>12. ReadyInv'
    <3>1. Cardinality(lost') < irqs' /\ Cardinality(lost') <= irqs'
      BY <1>1, <1>3, <2>1, <2>11 DEF ReadyInv
    <3>2. \A c \in Callers : ready'[c] => left'[c] # <<>>
      BY <1>1, <1>3, <2>5, <2>7 DEF ReadyInv, Callers
    <3> QED BY <1>3, <2>7, <3>1, <3>2 DEF ReadyInv
  <2> QED BY <2>6, <2>10, <2>12 DEF IInv
<1>6. CASE exception_return
  <2>1. /\ Runs("irq") /\ running = <<"irq", "kernel">> /\ left["irq"] = <<>>
        /\ ~Runs("kernel") /\ ~Runs("fatal") /\ UNCHANGED <<left, irqs>>
    BY <1>2, <1>6 DEF exception_return, Runs
  <2>2. running' = <<"kernel">>
    BY <1>6, <2>1 DEF exception_return
  <2>3. ~Runs("irq")' /\ Runs("kernel")' /\ ~Runs("fatal")'
    BY <2>2 DEF Runs
  <2>4. TypeOK'
    BY <1>1, <1>3, <2>1, <2>2 DEF TypeOK, Stacked
  <2>5. HandlerInv'
    BY <1>1, <1>4, <2>1, <2>3 DEF HandlerInv, Complete
  <2>6. ReadyInv'
    BY <1>1, <1>3, <1>4, <2>1, <2>3 DEF ReadyInv
  <2> QED BY <2>4, <2>5, <2>6 DEF IInv
<1>7. CASE exception_fatal
  <2>1. /\ running \in {<<"kernel">>, <<"irq", "kernel">>} /\ ~Runs("fatal")
        /\ running' = <<"fatal">> \o running /\ irqs' = irqs
        /\ left' = [left EXCEPT !["fatal"] = Dump]
    <3>1. "fatal" \notin {running[i] : i \in DOMAIN running}
      BY <1>7 DEF exception_fatal
    <3>2. running # <<"fatal", "kernel">> /\ running # <<"fatal", "irq", "kernel">>
      BY <3>1
    <3> QED BY <1>1, <1>2, <1>7, <3>2 DEF exception_fatal, TypeOK, Stacked
  <2>2. /\ running' \in {<<"fatal", "kernel">>, <<"fatal", "irq", "kernel">>}
        /\ running' = <<"fatal", "kernel">> <=> running = <<"kernel">>
    <3>1. /\ <<"fatal">> \o <<"kernel">> = <<"fatal", "kernel">>
          /\ <<"fatal">> \o <<"irq", "kernel">> = <<"fatal", "irq", "kernel">>
      BY <1>1, Pushed
    <3>2. /\ <<"kernel">> # <<"irq", "kernel">>
          /\ <<"fatal", "kernel">> # <<"fatal", "irq", "kernel">>
      OBVIOUS
    <3> QED BY <2>1, <3>1, <3>2
  <2>3. ~Runs("irq")' /\ ~Runs("kernel")' /\ Runs("fatal")'
    BY <2>2 DEF Runs
  <2>4. /\ left' \in [Callers -> Seq(Chars)] /\ left'["fatal"] = Dump
        /\ left'["kernel"] = left["kernel"] /\ left'["irq"] = left["irq"]
    BY <1>1, <2>1, UartAssumption
  <2>5. TypeOK'
    BY <1>1, <1>3, <2>1, <2>2, <2>4 DEF TypeOK, Stacked
  <2>6. Saying(Dump, left'["fatal"], Printed)
    BY <1>1, <2>4, UartAssumption, SayingStarts
  <2>7. HandlerInv'
    <3>1. \A k : Complete(k)' <=> Complete(k)
      BY <2>1, <2>4 DEF Complete
    <3>2. running' \in {<<"kernel">>, <<"fatal", "kernel">>} => left'["irq"] = <<>>
      BY <1>1, <2>2, <2>4 DEF HandlerInv
    <3> QED BY <1>1, <1>4, <2>3, <2>6, <3>1, <3>2 DEF HandlerInv
  <2>8. ReadyInv'
    <3>1. ~ready["fatal"]
      BY <1>1, <2>1 DEF HandlerInv, ReadyInv
    <3>2. \A c \in Callers : ready'[c] => left'[c] # <<>>
      BY <1>1, <1>3, <2>4, <3>1 DEF ReadyInv, Callers
    <3> QED BY <1>1, <1>3, <2>1, <2>3, <3>1, <3>2 DEF ReadyInv
  <2> QED BY <2>5, <2>7, <2>8 DEF IInv
<1> QED BY <1>5, <1>6, <1>7

\* The kernel panics.
LEMMA PanicStep ==
  ASSUME IInv, panic
  PROVE  IInv'
<1>1. /\ TypeOK /\ HandlerInv /\ ReadyInv /\ left \in [Callers -> Seq(Chars)]
  BY DEF IInv, TypeOK
<1>2. /\ Runs("kernel") /\ ~ready["kernel"] /\ panicked' = TRUE
      /\ left' = [left EXCEPT !["kernel"] = Panic]
      /\ UNCHANGED <<fifo, wire, lost, ready, running, irqs>>
  BY DEF panic
<1>3. /\ left' \in [Callers -> Seq(Chars)]
      /\ \A c \in Callers \ {"kernel"} : left'[c] = left[c]
      /\ "irq" \in Callers /\ "fatal" \in Callers
  BY <1>1, <1>2, UartAssumption DEF Callers
<1>4. TypeOK'
  BY <1>1, <1>2, <1>3 DEF TypeOK
<1>5. (\A d : Runs(d)' <=> Runs(d)) /\ Printed' = Printed /\ (room' <=> room)
  BY <1>2 DEF Runs, Printed, room
<1>6. HandlerInv'
  BY <1>1, <1>2, <1>3, <1>5 DEF HandlerInv, Complete
<1>7. ReadyInv'
  BY <1>1, <1>2, <1>3, <1>5 DEF ReadyInv
<1> QED BY <1>4, <1>6, <1>7 DEF IInv

\* No step breaks the invariant.
LEMMA NextIInv == IInv /\ [Next]_vars => IInv'
<1> SUFFICES ASSUME IInv, [Next]_vars
             PROVE  IInv'
  OBVIOUS
<1>1. ASSUME UNCHANGED vars
      PROVE  IInv'
  BY <1>1
     DEF vars, IInv, TypeOK, HandlerInv, ReadyInv, Runs, Printed, Complete, room
<1>2. ASSUME NEW c \in Callers, putchar_spin(c)
      PROVE  IInv'
  BY <1>1, <1>2 DEF putchar_spin
<1>3. CASE idle
  BY <1>1, <1>3 DEF idle
<1> QED BY <1>1, <1>2, <1>3, WriteStep, WaitStep, ExceptionStep, PanicStep DEF Next

\* The invariant holds in every reachable state.
LEMMA IInvAlways == Spec => []IInv
BY InitIInv, NextIInv, PTL DEF Spec

-----------------------------------------------------------------------------
(* What the handlers print.                                                *)

\* The line an interrupt printed is in one piece in the output, wherever the
\* kernel was interrupted, and whatever is printed later.
THEOREM IrqLinesWholeAlways == Spec => []IrqLinesWhole
<1>1. ASSUME NEW text \in Seq(Chars), NEW out \in Seq(Chars), Whole(text, out)
      PROVE  \E i \in 0 .. Len(out) - Len(text) : SubSeq(out, i + 1, i + Len(text)) = text
  <2>1. PICK i \in 0 .. Len(out) - Len(text) : \A j \in 1 .. Len(text) : out[i + j] = text[j]
    BY <1>1 DEF Whole
  <2>2. SubSeq(out, i + 1, i + Len(text)) = text
    BY <2>1
  <2> QED BY <2>2
<1>2. ASSUME IInv
      PROVE  IrqLinesWhole
  <2> SUFFICES ASSUME NEW k \in DOMAIN Lines, Complete(k)
               PROVE  \E i \in 0 .. Len(Printed) - Len(Lines[k]) :
                        SubSeq(Printed, i + 1, i + Len(Lines[k])) = Lines[k]
    BY DEF IrqLinesWhole
  <2>1. k \in 1 .. Len(Lines) /\ Lines[k] \in Seq(Chars) /\ Printed \in Seq(Chars)
    BY <1>2, UartAssumption, Facts DEF IInv
  <2>2. Whole(Lines[k], Printed)
    BY <1>2, <2>1 DEF IInv, HandlerInv
  <2> QED BY <1>1, <2>1, <2>2
<1> QED BY <1>2, IInvAlways, PTL

\* What the handler of a fatal exception has printed is the end of the
\* output, with nothing missing.
THEOREM LastWordsAlways == Spec => []LastWords
<1>1. ASSUME IInv
      PROVE  LastWords
  <2> DEFINE said == SubSeq(Dump, 1, Len(Dump) - Len(left["fatal"]))
  <2> SUFFICES ASSUME Runs("fatal") \/ left["fatal"] # <<>>
               PROVE  /\ Len(said) <= Len(Printed)
                      /\ SubSeq(Printed, Len(Printed) - Len(said) + 1, Len(Printed)) = said
    BY DEF LastWords
  <2>1. Saying(Dump, left["fatal"], Printed) /\ Printed \in Seq(Chars) /\ Dump \in Seq(Chars)
    BY <1>1, UartAssumption, Facts DEF IInv, HandlerInv
  <2>2. PICK n \in 0 .. Len(Dump) :
          /\ n <= Len(Printed) /\ Len(left["fatal"]) = Len(Dump) - n
          /\ \A j \in 1 .. n : Printed[Len(Printed) - n + j] = Dump[j]
    BY <2>1 DEF Saying
  <2>3. said = SubSeq(Dump, 1, n) /\ Len(said) = n
    BY <2>1, <2>2
  <2>4. SubSeq(Printed, Len(Printed) - n + 1, Len(Printed)) = SubSeq(Dump, 1, n)
    BY <2>1, <2>2
  <2> QED BY <2>2, <2>3, <2>4
<1> QED BY <1>1, IInvAlways, PTL

-----------------------------------------------------------------------------
(* What the kernel prints.                                                 *)

\* A text without a character twice.
Injective(text) == \A i, j \in 1 .. Len(text) : text[i] = text[j] => i = j

\* Each character tells where it is from.
Distinct ==
  /\ Injective(Text) /\ Injective(Panic)
  /\ Of(Text) \cap Of(Panic) = {}
  /\ \A k \in DOMAIN Lines : Of(Lines[k]) \cap (Of(Text) \cup Of(Panic)) = {}
  /\ Of(Dump) \cap (Of(Text) \cup Of(Panic)) = {}

\* The first n characters of text have been printed, but for those lost.
Out(text, n, out, gone) == Only(out, Of(text)) = Only(SubSeq(text, 1, n), Chars \ gone)

\* How far the kernel is with its text, and with that of panic.
Far(n, m) ==
  /\ n \in 0 .. Len(Text) /\ m \in 0 .. Len(Panic)
  /\ panicked => left["kernel"] = SubSeq(Panic, m + 1, Len(Panic))
  /\ ~panicked => m = 0 /\ left["kernel"] = SubSeq(Text, n + 1, Len(Text))
  /\ lost \subseteq {Text[i] : i \in 1 .. n} \cup {Panic[i] : i \in 1 .. m}
  /\ Out(Text, n, Printed, lost) /\ Out(Panic, m, Printed, lost)

KernelInv == \E n, m : Far(n, m)

\* The next character of the text is printed, or lost.
LEMMA OutNext ==
  ASSUME NEW text \in Seq(Chars), Injective(text), NEW n \in 0 .. Len(text) - 1,
         NEW out \in Seq(Chars), NEW gone, Out(text, n, out, gone)
  PROVE  /\ text[n + 1] \notin gone => Out(text, n + 1, Append(out, text[n + 1]), gone)
         /\ Out(text, n + 1, out, gone \cup {text[n + 1]})
<1>1. PICK c \in Chars, t \in Seq(Chars) :
        /\ c = text[n + 1] /\ t = SubSeq(text, 1, n) /\ SubSeq(text, 1, n + 1) = Append(t, c)
        /\ \A i \in 1 .. Len(t) : t[i] # c /\ t[i] \in Chars
        /\ c \in Of(text)
  <2>1. n \in 0 .. Len(text) /\ n \in n .. Len(text) - 1 /\ n + 1 \in 1 .. Len(text)
    OBVIOUS
  <2>2. /\ text[n + 1] \in Chars /\ SubSeq(text, 1, n) \in Seq(Chars)
        /\ SubSeq(text, 1, n + 1) = Append(SubSeq(text, 1, n), text[n + 1])
    OBVIOUS
  <2>3. \A i \in 1 .. Len(SubSeq(text, 1, n)) :
          SubSeq(text, 1, n)[i] # text[n + 1] /\ SubSeq(text, 1, n)[i] \in Chars
    <3> SUFFICES ASSUME NEW i \in 1 .. n
                 PROVE  text[i] # text[n + 1] /\ text[i] \in Chars
      OBVIOUS
    <3> QED BY <2>1 DEF Injective
  <2>4. text[n + 1] \in Of(text)
    BY <2>1 DEF Of
  <2> QED BY <2>2, <2>3, <2>4
<1>2. Only(out, Of(text)) = Only(t, Chars \ gone)
  BY <1>1 DEF Out
<1>3. ASSUME c \notin gone
      PROVE  Only(Append(out, c), Of(text)) = Only(Append(t, c), Chars \ gone)
  <2>1. Only(Append(out, c), Of(text)) = Append(Only(out, Of(text)), c)
    BY <1>1, OnlyAppend
  <2> DEFINE S == Chars \ gone
  <2>2. c \in S
    BY <1>3
  <2> HIDE DEF S
  <2>3. Only(Append(t, c), S) = Append(Only(t, S), c)
    BY <2>2, OnlyAppend
  <2> QED BY <2>1, <2>3, <1>2 DEF S
<1>4. Only(out, Of(text)) = Only(Append(t, c), Chars \ (gone \cup {c}))
  <2> DEFINE S == Chars \ (gone \cup {c})
  <2>1. c \notin S
    OBVIOUS
  <2>2. \A i \in 1 .. Len(t) : t[i] \in Chars \ gone <=> t[i] \in S
    BY <1>1
  <2> HIDE DEF S
  <2>3. Only(Append(t, c), S) = Only(t, S)
    BY <2>1, OnlyAppend
  <2>4. Only(t, Chars \ gone) = Only(t, S)
    BY <2>2, OnlySame
  <2> QED BY <2>3, <2>4, <1>2 DEF S
<1> QED BY <1>1, <1>3, <1>4 DEF Out

\* A character that is not of the text is printed, or lost.
LEMMA OutOther ==
  ASSUME NEW text \in Seq(Chars), NEW n \in 0 .. Len(text),
         NEW out \in Seq(Chars), NEW gone, Out(text, n, out, gone),
         NEW c \in Chars, c \notin Of(text)
  PROVE  /\ Out(text, n, Append(out, c), gone)
         /\ Out(text, n, out, gone \cup {c})
<1>1. PICK t \in Seq(Chars) : /\ t = SubSeq(text, 1, n)
                              /\ \A i \in 1 .. Len(t) : t[i] # c /\ t[i] \in Chars
  <2>1. SubSeq(text, 1, n) \in Seq(Chars)
    OBVIOUS
  <2>2. \A i \in 1 .. Len(SubSeq(text, 1, n)) :
          SubSeq(text, 1, n)[i] # c /\ SubSeq(text, 1, n)[i] \in Chars
    <3> SUFFICES ASSUME NEW i \in 1 .. n
                 PROVE  text[i] # c /\ text[i] \in Chars
      OBVIOUS
    <3> QED BY DEF Of
  <2> QED BY <2>1, <2>2
<1>2. Only(out, Of(text)) = Only(t, Chars \ gone)
  BY <1>1 DEF Out
<1>3. Only(Append(out, c), Of(text)) = Only(out, Of(text))
  BY OnlyAppend
<1>4. Only(t, Chars \ gone) = Only(t, Chars \ (gone \cup {c}))
  <2> DEFINE S == Chars \ (gone \cup {c})
  <2>1. \A i \in 1 .. Len(t) : t[i] \in Chars \ gone <=> t[i] \in S
    BY <1>1
  <2> HIDE DEF S
  <2>2. Only(t, Chars \ gone) = Only(t, S)
    BY <2>1, OnlySame
  <2> QED BY <2>2 DEF S
<1> QED BY <1>1, <1>2, <1>3, <1>4 DEF Out
\* Nothing is out at first.
LEMMA InitKernelInv == Init => KernelInv
<1> SUFFICES ASSUME Init
             PROVE  Far(0, 0)
  BY DEF KernelInv
<1>1. Text \in Seq(Chars) /\ Panic \in Seq(Chars)
  BY UartAssumption
<1>2. /\ 0 \in 0 .. Len(Text) /\ 0 \in 0 .. Len(Panic)
      /\ SubSeq(Text, 0 + 1, Len(Text)) = Text
      /\ SubSeq(Text, 1, 0) = <<>> /\ SubSeq(Panic, 1, 0) = <<>>
  BY <1>1
<1>3. Printed = <<>> /\ lost = {} /\ panicked = FALSE /\ left["kernel"] = Text
  BY DEF Init, Printed, Callers
<1>4. Only(Printed, Of(Text)) = <<>> /\ Only(Printed, Of(Panic)) = <<>>
      /\ Only(SubSeq(Text, 1, 0), Chars \ lost) = <<>>
      /\ Only(SubSeq(Panic, 1, 0), Chars \ lost) = <<>>
  BY <1>2, <1>3, OnlyEmpty
<1>5. Out(Text, 0, Printed, lost) /\ Out(Panic, 0, Printed, lost)
  BY <1>4 DEF Out
<1> QED BY <1>2, <1>3, <1>5 DEF Far

\* It does not get farther when nothing is printed or lost.
LEMMA FarSame ==
  ASSUME NEW n, NEW m, Far(n, m), Printed' = Printed, lost' = lost,
         left'["kernel"] = left["kernel"], panicked' = panicked
  PROVE  Far(n, m)'
BY DEF Far

\* It does not when a handler prints, which it only does when there is room.
LEMMA FarHandler ==
  ASSUME IInv, Distinct, NEW n, NEW m, Far(n, m),
         NEW c \in {"irq", "fatal"}, putchar_write(c)
  PROVE  Far(n, m)'
<1>1. /\ Runs(c) /\ ready[c] /\ left[c] # <<>>
      /\ left'["kernel"] = left["kernel"] /\ panicked' = panicked
      /\ room => Printed' = Append(Printed, Head(left[c])) /\ lost' = lost
  BY Written DEF Callers
<1>2. Text \in Seq(Chars) /\ Panic \in Seq(Chars) /\ Printed \in Seq(Chars)
  BY UartAssumption, Facts DEF IInv
<1>3. left[c] \in Seq(Chars) /\ irqs \in 0 .. Len(Lines)
  BY DEF IInv, TypeOK, Callers
<1>4. Head(left[c]) \in Chars /\ Head(left[c]) \notin Of(Text) /\ Head(left[c]) \notin Of(Panic)
  <2>1. CASE c = "irq"
    <3>1. irqs \in DOMAIN Lines /\ Lines[irqs] \in Seq(Chars)
      BY <1>1, <1>3, <2>1, UartAssumption DEF IInv, HandlerInv
    <3>2. Head(left[c]) \in Of(Lines[irqs]) /\ Head(left[c]) \in Chars
      BY <1>1, <1>2, <1>3, <2>1, <3>1, SayingNext DEF IInv, HandlerInv
    <3> QED BY <3>1, <3>2 DEF Distinct
  <2>2. CASE c = "fatal"
    <3>1. Head(left[c]) \in Of(Dump) /\ Head(left[c]) \in Chars
      BY <1>1, <1>2, <1>3, <2>2, UartAssumption, SayingNext DEF IInv, HandlerInv
    <3> QED BY <3>1 DEF Distinct
  <2> QED BY <2>1, <2>2
<1>5. room
  BY <1>1 DEF IInv, ReadyInv
<1>6. PICK d \in Chars : d = Head(left[c]) /\ d \notin Of(Text) /\ d \notin Of(Panic)
  BY <1>4
<1>7. /\ n \in 0 .. Len(Text) /\ m \in 0 .. Len(Panic)
      /\ Out(Text, n, Printed, lost) /\ Out(Panic, m, Printed, lost)
  BY DEF Far
<1>8. Out(Text, n, Append(Printed, d), lost)
  BY <1>2, <1>6, <1>7, OutOther
<1>9. Out(Panic, m, Append(Printed, d), lost)
  BY <1>2, <1>6, <1>7, OutOther
<1> QED BY <1>1, <1>5, <1>6, <1>8, <1>9 DEF Far

\* What is left of a text, and its next character.
LEMMA NextOf ==
  ASSUME NEW text \in Seq(Chars), NEW n \in 0 .. Len(text),
         SubSeq(text, n + 1, Len(text)) # <<>>
  PROVE  /\ n \in 0 .. Len(text) - 1 /\ n + 1 \in 0 .. Len(text)
         /\ Head(SubSeq(text, n + 1, Len(text))) = text[n + 1]
         /\ Tail(SubSeq(text, n + 1, Len(text))) = SubSeq(text, n + 2, Len(text))
         /\ text[n + 1] \in Chars /\ text[n + 1] \in Of(text)
         /\ {text[i] : i \in 1 .. n + 1} = {text[i] : i \in 1 .. n} \cup {text[n + 1]}
<1>1. n \in 0 .. Len(text) - 1
  OBVIOUS
<1>2. n + 1 \in DOMAIN text
  BY <1>1
<1>3. text[n + 1] \in Of(text)
  BY <1>2 DEF Of
<1> QED BY <1>1, <1>2, <1>3

\* The kernel gets one character farther: it is printed, or lost.
LEMMA FarKernel ==
  ASSUME IInv, Distinct, NEW n, NEW m, Far(n, m), putchar_write("kernel")
  PROVE  KernelInv'
<1>1. /\ left["kernel"] # <<>> /\ left'["kernel"] = Tail(left["kernel"])
      /\ Head(left["kernel"]) \in Chars /\ panicked' = panicked
      /\ room => Printed' = Append(Printed, Head(left["kernel"])) /\ lost' = lost
      /\ ~room => Printed' = Printed /\ lost' = lost \cup {Head(left["kernel"])}
  BY Written DEF Callers
<1>2. Text \in Seq(Chars) /\ Panic \in Seq(Chars) /\ Printed \in Seq(Chars)
  BY UartAssumption, Facts DEF IInv
<1>3. PICK c \in Chars : c = Head(left["kernel"])
  BY <1>1
<1>4. /\ n \in 0 .. Len(Text) /\ m \in 0 .. Len(Panic)
      /\ lost \subseteq {Text[i] : i \in 1 .. n} \cup {Panic[i] : i \in 1 .. m}
      /\ Out(Text, n, Printed, lost) /\ Out(Panic, m, Printed, lost)
  BY DEF Far
<1>5. CASE panicked
  <2>1. left["kernel"] = SubSeq(Panic, m + 1, Len(Panic))
    BY <1>5 DEF Far
  <2>2. /\ m \in 0 .. Len(Panic) - 1 /\ m + 1 \in 0 .. Len(Panic) /\ c = Panic[m + 1]
        /\ left'["kernel"] = SubSeq(Panic, m + 2, Len(Panic)) /\ c \in Of(Panic)
        /\ {Panic[i] : i \in 1 .. m + 1} = {Panic[i] : i \in 1 .. m} \cup {c}
    <3>1. SubSeq(Panic, m + 1, Len(Panic)) # <<>>
      BY <1>1, <2>1
    <3>2. /\ m \in 0 .. Len(Panic) - 1 /\ m + 1 \in 0 .. Len(Panic)
          /\ Head(SubSeq(Panic, m + 1, Len(Panic))) = Panic[m + 1]
          /\ Tail(SubSeq(Panic, m + 1, Len(Panic))) = SubSeq(Panic, m + 2, Len(Panic))
          /\ Panic[m + 1] \in Of(Panic)
          /\ {Panic[i] : i \in 1 .. m + 1} = {Panic[i] : i \in 1 .. m} \cup {Panic[m + 1]}
      BY <1>2, <1>4, <3>1, NextOf
    <3>3. c = Panic[m + 1]
      BY <1>3, <2>1, <3>2
    <3> QED BY <1>1, <2>1, <3>2, <3>3
  <2>3. c \notin Of(Text)
    BY <2>2 DEF Distinct
  <2>4. c \notin lost
    <3>1. ASSUME NEW i \in 1 .. n
          PROVE  Text[i] \in Of(Text)
      BY <1>4 DEF Of
    <3>2. ASSUME NEW i \in 1 .. m
          PROVE  Panic[i] # c
      BY <1>4, <2>2 DEF Distinct, Injective
    <3> QED BY <1>4, <2>3, <3>1, <3>2
  <2>5. Out(Panic, m + 1, Append(Printed, c), lost) /\ Out(Panic, m + 1, Printed, lost \cup {c})
    BY <1>2, <1>4, <2>2, <2>4, OutNext DEF Distinct
  <2>6. Out(Text, n, Append(Printed, c), lost) /\ Out(Text, n, Printed, lost \cup {c})
    BY <1>2, <1>4, <2>3, OutOther
  <2>7. Far(n, m + 1)'
    <3>1. m + 1 + 1 = m + 2
      BY <2>2
    <3>2. CASE room
      BY <1>1, <1>3, <1>4, <1>5, <2>2, <2>5, <2>6, <3>1, <3>2 DEF Far
    <3>3. CASE ~room
      BY <1>1, <1>3, <1>4, <1>5, <2>2, <2>5, <2>6, <3>1, <3>3 DEF Far
    <3> QED BY <3>2, <3>3
  <2> QED BY <2>7 DEF KernelInv
<1>6. CASE ~panicked
  <2>1. left["kernel"] = SubSeq(Text, n + 1, Len(Text)) /\ m = 0
    BY <1>6 DEF Far
  <2>2. /\ n \in 0 .. Len(Text) - 1 /\ n + 1 \in 0 .. Len(Text) /\ c = Text[n + 1]
        /\ left'["kernel"] = SubSeq(Text, n + 2, Len(Text)) /\ c \in Of(Text)
        /\ {Text[i] : i \in 1 .. n + 1} = {Text[i] : i \in 1 .. n} \cup {c}
    <3>1. SubSeq(Text, n + 1, Len(Text)) # <<>>
      BY <1>1, <2>1
    <3>2. /\ n \in 0 .. Len(Text) - 1 /\ n + 1 \in 0 .. Len(Text)
          /\ Head(SubSeq(Text, n + 1, Len(Text))) = Text[n + 1]
          /\ Tail(SubSeq(Text, n + 1, Len(Text))) = SubSeq(Text, n + 2, Len(Text))
          /\ Text[n + 1] \in Of(Text)
          /\ {Text[i] : i \in 1 .. n + 1} = {Text[i] : i \in 1 .. n} \cup {Text[n + 1]}
      BY <1>2, <1>4, <3>1, NextOf
    <3>3. c = Text[n + 1]
      BY <1>3, <2>1, <3>2
    <3> QED BY <1>1, <2>1, <3>2, <3>3
  <2>3. c \notin Of(Panic)
    BY <2>2 DEF Distinct
  <2>4. c \notin lost
    <3>1. ASSUME NEW i \in 1 .. n
          PROVE  Text[i] # c
      BY <1>4, <2>2 DEF Distinct, Injective
    <3> QED BY <1>4, <2>1, <3>1
  <2>5. Out(Text, n + 1, Append(Printed, c), lost) /\ Out(Text, n + 1, Printed, lost \cup {c})
    BY <1>2, <1>4, <2>2, <2>4, OutNext DEF Distinct
  <2>6. Out(Panic, m, Append(Printed, c), lost) /\ Out(Panic, m, Printed, lost \cup {c})
    BY <1>2, <1>4, <2>3, OutOther
  <2>7. Far(n + 1, m)'
    <3>1. n + 1 + 1 = n + 2
      BY <2>2
    <3>2. CASE room
      BY <1>1, <1>3, <1>4, <1>6, <2>1, <2>2, <2>5, <2>6, <3>1, <3>2 DEF Far
    <3>3. CASE ~room
      BY <1>1, <1>3, <1>4, <1>6, <2>1, <2>2, <2>5, <2>6, <3>1, <3>3 DEF Far
    <3> QED BY <3>2, <3>3
  <2> QED BY <2>7 DEF KernelInv
<1> QED BY <1>5, <1>6

\* Every step keeps it.
LEMMA NextKernelInv == Distinct /\ IInv /\ KernelInv /\ [Next]_vars => KernelInv'
<1> SUFFICES ASSUME Distinct, IInv, NEW n, NEW m, Far(n, m), [Next]_vars
             PROVE  KernelInv'
  BY DEF KernelInv
<1>1. ASSUME NEW c \in Callers, putchar_write(c)
      PROVE  KernelInv'
  <2>1. CASE c = "kernel"
    BY <1>1, <2>1, FarKernel
  <2>2. CASE c # "kernel"
    <3>1. c \in {"irq", "fatal"}
      BY <2>2 DEF Callers
    <3> QED BY <1>1, <3>1, FarHandler DEF KernelInv
  <2> QED BY <2>1, <2>2
<1>2. ASSUME Printed' = Printed, lost' = lost,
             left'["kernel"] = left["kernel"], panicked' = panicked
      PROVE  KernelInv'
  BY <1>2, FarSame DEF KernelInv
<1>3. ASSUME NEW c \in Callers, putchar_wait(c) \/ putchar_spin(c)
      PROVE  KernelInv'
  BY <1>2, <1>3 DEF putchar_wait, putchar_spin, vars, Printed
<1>4. CASE transmit
  BY <1>2, <1>4, TransmitKeeps DEF transmit, IInv
<1>5. CASE exception_irq \/ exception_return \/ exception_fatal
  <2>1. left \in [Callers -> Seq(Chars)]
    BY DEF IInv, TypeOK
  <2>2. /\ Printed' = Printed /\ lost' = lost /\ panicked' = panicked
        /\ left'["kernel"] = left["kernel"]
    BY <1>5, <2>1 DEF exception_irq, exception_return, exception_fatal, Printed, Callers
  <2> QED BY <1>2, <2>2
<1>6. CASE panic
  <2>1. /\ panicked' = TRUE /\ ~panicked /\ left' = [left EXCEPT !["kernel"] = Panic]
        /\ Printed' = Printed /\ lost' = lost
    BY <1>6 DEF panic, Printed
  <2>2. left'["kernel"] = Panic /\ Panic \in Seq(Chars)
    BY <2>1, UartAssumption DEF IInv, TypeOK, Callers
  <2>3. SubSeq(Panic, 0 + 1, Len(Panic)) = Panic
    BY <2>2
  <2>4. m = 0
    BY <2>1 DEF Far
  <2>5. Far(n, 0)'
    BY <2>1, <2>2, <2>3, <2>4 DEF Far
  <2> QED BY <2>5 DEF KernelInv
<1>7. CASE idle \/ UNCHANGED vars
  BY <1>2, <1>7 DEF idle, vars, Printed
<1> QED BY <1>1, <1>3, <1>4, <1>5, <1>6, <1>7 DEF Next

\* What is out and what is left is the text, but for what is lost.
LEMMA RestFollows ==
  ASSUME NEW text \in Seq(Chars), Injective(text), NEW n \in 0 .. Len(text),
         NEW out, NEW gone, Out(text, n, out, gone),
         \A i \in n + 1 .. Len(text) : text[i] \notin gone
  PROVE  Only(out, Of(text)) \o SubSeq(text, n + 1, Len(text)) = Only(text, Chars \ gone)
<1> DEFINE S == Chars \ gone
<1>1. \A i \in n + 1 .. Len(text) : text[i] \in S
  <2> SUFFICES ASSUME NEW i \in n + 1 .. Len(text)
               PROVE  text[i] \in Chars
    OBVIOUS
  <2> QED BY i \in 1 .. Len(text)
<1>2. Only(out, Of(text)) = Only(SubSeq(text, 1, n), S)
  BY DEF Out
<1> HIDE DEF S
<1>3. Only(text, S) = Only(SubSeq(text, 1, n), S) \o SubSeq(text, n + 1, Len(text))
  BY <1>1, OnlyRest
<1> QED BY <1>2, <1>3 DEF S

\* Each interrupt costs the kernel at most one character, and all others of
\* its text and of its panic appear, in their order.  (The theorem is about
\* texts whose characters tell where they are from; that they do is needed to
\* say which of the characters printed are the kernel's.)
THEOREM LossBoundedAlways == Distinct => (Spec => []LossBounded)
<1>1. Distinct /\ Spec => [](IInv /\ KernelInv)
  <2>1. Distinct /\ Init => IInv /\ KernelInv
    BY InitIInv, InitKernelInv
  <2>2. Distinct /\ IInv /\ KernelInv /\ [Next]_vars => IInv' /\ KernelInv'
    BY NextIInv, NextKernelInv
  <2>3. Distinct => []Distinct
    OBVIOUS
  <2> QED BY <2>1, <2>2, <2>3, PTL DEF Spec
<1>2. ASSUME Distinct, IInv, KernelInv
      PROVE  LossBounded
  <2>1. PICK n, m : Far(n, m)
    BY <1>2 DEF KernelInv
  <2>2. /\ n \in 0 .. Len(Text) /\ m \in 0 .. Len(Panic)
        /\ Text \in Seq(Chars) /\ Panic \in Seq(Chars)
        /\ Injective(Text) /\ Injective(Panic)
        /\ lost \subseteq {Text[i] : i \in 1 .. n} \cup {Panic[i] : i \in 1 .. m}
        /\ Out(Text, n, Printed, lost) /\ Out(Panic, m, Printed, lost)
    BY <1>2, <2>1, UartAssumption DEF Far, Distinct
  <2>3. Cardinality(lost) <= irqs
    BY <1>2 DEF IInv, ReadyInv
  <2>4. /\ \A i \in 1 .. Len(Text) : Text[i] \in Of(Text) /\ Text[i] \notin Of(Panic)
        /\ \A i \in 1 .. Len(Panic) : Panic[i] \in Of(Panic) /\ Panic[i] \notin Of(Text)
    <3>1. \A i \in 1 .. Len(Text) : Text[i] \in Of(Text)
      BY <2>2 DEF Of
    <3>2. \A i \in 1 .. Len(Panic) : Panic[i] \in Of(Panic)
      BY <2>2 DEF Of
    <3> QED BY <1>2, <3>1, <3>2 DEF Distinct
  <2>5. lost \subseteq Of(Text) \cup Of(Panic)
    BY <2>2, <2>4
  <2>6. CASE panicked
    <3>1. left["kernel"] = SubSeq(Panic, m + 1, Len(Panic))
      BY <2>1, <2>6 DEF Far
    <3>2. \A i \in m + 1 .. Len(Panic) : Panic[i] \notin lost
      <4> SUFFICES ASSUME NEW i \in m + 1 .. Len(Panic)
                   PROVE  Panic[i] \notin lost
        OBVIOUS
      <4>1. i \in 1 .. Len(Panic)
        BY <2>2
      <4>2. \A j \in 1 .. m : Panic[j] # Panic[i]
        BY <2>2, <4>1 DEF Injective
      <4>3. \A j \in 1 .. n : Text[j] # Panic[i]
        BY <2>2, <2>4, <4>1
      <4> QED BY <2>2, <4>2, <4>3
    <3>3. Only(Printed, Of(Panic)) \o left["kernel"] = Only(Panic, Chars \ lost)
      BY <2>2, <3>1, <3>2, RestFollows
    <3>4. Only(Printed, Of(Text)) = Only(SubSeq(Text, 1, n), Chars \ lost)
      BY <2>2 DEF Out
    <3> QED BY <2>2, <2>3, <2>5, <2>6, <3>3, <3>4 DEF LossBounded, PrintedOf
  <2>7. CASE ~panicked
    <3>1. left["kernel"] = SubSeq(Text, n + 1, Len(Text)) /\ m = 0
      BY <2>1, <2>7 DEF Far
    <3>2. \A i \in n + 1 .. Len(Text) : Text[i] \notin lost
      <4> SUFFICES ASSUME NEW i \in n + 1 .. Len(Text)
                   PROVE  Text[i] \notin lost
        OBVIOUS
      <4>1. i \in 1 .. Len(Text)
        BY <2>2
      <4>2. \A j \in 1 .. n : Text[j] # Text[i]
        BY <2>2, <4>1 DEF Injective
      <4> QED BY <2>2, <3>1, <4>2
    <3>3. Only(Printed, Of(Text)) \o left["kernel"] = Only(Text, Chars \ lost)
      BY <2>2, <3>1, <3>2, RestFollows
    <3> QED BY <2>3, <2>5, <2>7, <3>3 DEF LossBounded, PrintedOf
  <2> QED BY <2>6, <2>7
<1>3. Distinct /\ [](IInv /\ KernelInv) => []LossBounded
  <2>1. Distinct => []Distinct
    OBVIOUS
  <2> QED BY <1>2, <2>1, PTL
<1> QED BY <1>1, <1>3, PTL

=============================================================================
