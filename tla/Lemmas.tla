-------------------------------- MODULE Lemmas --------------------------------
(***************************************************************************)
(* What several of the proofs need: induction on natural numbers, with a   *)
(* set in the place of a predicate; that functions can be defined by       *)
(* recursion; and the lists of list.h as rings: what insertion and removal *)
(* do to the cycle one of the two pointers makes, and that a walk along it *)
(* meets every node.                                                       *)
(***************************************************************************)
EXTENDS Walks, FiniteSetTheorems, SequenceTheorems, NaturalsInduction,
  WellFoundedInduction, TLAPS

-----------------------------------------------------------------------------
(* Induction.                                                              *)

Less == {p \in Nat \X Nat : p[1] < p[2]}

\* No sequence of natural numbers descends for ever.
LEMMA LessWellFounded == IsWellFoundedOn(Less, Nat)
BY NatLessThanWellFounded DEF OpToRel, Less

\* A set of natural numbers that is not empty has a least element.
LEMMA LeastNatural ==
  ASSUME NEW T \in SUBSET Nat, T # {}
  PROVE  \E x \in T : \A y \in T : x <= y
<1>1. PICK x \in T : \A y \in T : ~ (<<y, x>> \in Less)
  BY LessWellFounded, WFMin, Zenon
<1>2. ASSUME NEW y \in T
      PROVE  x <= y
  <2>1. <<y, x>> \notin Less
    BY <1>1
  <2>2. y \in Nat /\ x \in Nat
    OBVIOUS
  <2> QED BY <2>1, <2>2 DEF Less
<1> QED BY <1>2

\* A set that has 0, and n + 1 with every n, has all natural numbers.
LEMMA NatSetInduction ==
  ASSUME NEW T \in SUBSET Nat, 0 \in T, \A n \in T : n + 1 \in T
  PROVE  T = Nat
<1> SUFFICES ASSUME T # Nat
             PROVE  FALSE
  OBVIOUS
<1> DEFINE U == Nat \ T
<1>1. PICK x \in U : \A y \in U : x <= y
  <2>1. U \in SUBSET Nat /\ U # {}
    OBVIOUS
  <2> QED BY <2>1, LeastNatural
<1>2. x # 0
  OBVIOUS
<1>3. x - 1 \in Nat /\ x - 1 \notin U
  BY <1>1, <1>2
<1>4. x - 1 + 1 \in T
  BY <1>3
<1> QED BY <1>4

\* The same on an interval that starts at m.
LEMMA IntervalInduction ==
  ASSUME NEW m \in Int, NEW n \in Int, NEW T,
         m <= n => m \in T,
         \A i \in m .. n - 1 : i \in T => i + 1 \in T
  PROVE  m .. n \subseteq T
<1> DEFINE K == {k \in Nat : m + k <= n => m + k \in T}
<1>1. 0 \in K
  OBVIOUS
<1>2. ASSUME NEW k \in K
      PROVE  k + 1 \in K
  <2> SUFFICES ASSUME m + (k + 1) <= n
               PROVE  m + (k + 1) \in T
    OBVIOUS
  <2>1. k \in Nat /\ m + k \in T
    OBVIOUS
  <2>2. m + k \in m .. n - 1 /\ (m + k) + 1 = m + (k + 1)
    BY <2>1
  <2> QED BY <2>1, <2>2
<1>3. K \in SUBSET Nat
  OBVIOUS
<1>4. K = Nat
  BY <1>1, <1>2, <1>3, NatSetInduction
<1>5. ASSUME NEW i \in m .. n
      PROVE  i \in T
  <2>1. i - m \in Nat /\ m + (i - m) = i /\ i <= n
    OBVIOUS
  <2>2. i - m \in K
    BY <2>1, <1>4, Zenon
  <2> QED BY <2>1, <2>2
<1> QED BY <1>5

-----------------------------------------------------------------------------
(* Recursion.                                                              *)

\* The value of f at i is given by its value at the smaller number e[i].
Recurs(f, n, start, e, G) ==
  f[0] = start /\ \A i \in 1 .. n : f[i] = G[i][f[e[i]]]

\* There is such a function.
LEMMA RecursionExists ==
  ASSUME NEW n \in Nat, NEW V, NEW start \in V,
         NEW e \in [1 .. n -> Nat], \A i \in 1 .. n : e[i] < i,
         NEW G \in [1 .. n -> [V -> V]]
  PROVE  \E f \in [0 .. n -> V] : Recurs(f, n, start, e, G)
<1> DEFINE Good(f, m) == f[0] = start /\ \A i \in 1 .. m : f[i] = G[i][f[e[i]]]
           T == {m \in Nat : m <= n => \E f \in [0 .. m -> V] : Good(f, m)}
<1>1. 0 \in T
  <2>1. Good([i \in 0 .. 0 |-> start], 0)
    OBVIOUS
  <2>2. [i \in 0 .. 0 |-> start] \in [0 .. 0 -> V]
    OBVIOUS
  <2> QED BY <2>1, <2>2
<1>2. ASSUME NEW m \in T
      PROVE  m + 1 \in T
  <2> SUFFICES ASSUME m + 1 <= n
               PROVE  \E f \in [0 .. m + 1 -> V] : Good(f, m + 1)
    OBVIOUS
  <2>1. m \in Nat
    OBVIOUS
  <2>2. PICK f \in [0 .. m -> V] : Good(f, m)
    BY <2>1
  <2> DEFINE g == [i \in 0 .. m + 1 |-> IF i <= m THEN f[i] ELSE G[m + 1][f[e[m + 1]]]]
  <2>3. m + 1 \in 1 .. n /\ e[m + 1] \in 0 .. m /\ f[e[m + 1]] \in V
    <3>1. m + 1 \in 1 .. n
      BY <2>1
    <3>2. e[m + 1] \in Nat /\ e[m + 1] < m + 1
      BY <3>1
    <3> QED BY <2>1, <3>1, <3>2
  <2>4. g \in [0 .. m + 1 -> V]
    BY <2>1, <2>3
  <2>5. \A i \in 0 .. m : g[i] = f[i]
    BY <2>1
  <2>6. g[0] = start
    BY <2>1, <2>2, <2>5
  <2>7. ASSUME NEW i \in 1 .. m + 1
        PROVE  g[i] = G[i][g[e[i]]]
    <3>0. i \in 1 .. n /\ e[i] \in Nat /\ e[i] < i
      BY <2>1
    <3>1. e[i] \in 0 .. i - 1 /\ e[i] \in 0 .. m
      BY <2>1, <3>0
    <3>2. g[e[i]] = f[e[i]]
      BY <2>5, <3>1
    <3>3. CASE i = m + 1
      <4>1. g[i] = G[m + 1][f[e[m + 1]]]
        BY <2>1, <3>3
      <4> HIDE DEF g
      <4> QED BY <4>1, <3>2, <3>3
    <3>4. CASE i # m + 1
      <4>1. i \in 1 .. m
        BY <2>1, <3>4
      <4>2. g[i] = f[i] /\ f[i] = G[i][f[e[i]]]
        BY <2>2, <2>5, <4>1
      <4> QED BY <4>2, <3>2
    <3> QED BY <3>3, <3>4
  <2> HIDE DEF g
  <2> QED BY <2>4, <2>6, <2>7
<1>3. T \in SUBSET Nat
  OBVIOUS
<1> HIDE DEF T
<1>4. T = Nat
  BY <1>1, <1>2, <1>3, NatSetInduction
<1>5. n \in T
  BY <1>4
<1>6. PICK f \in [0 .. n -> V] : Good(f, n)
  BY <1>5 DEF T
<1> QED BY <1>6 DEF Recurs

\* Division leaves less, and a remainder.
LEMMA Division ==
  ASSUME NEW n \in Nat, NEW b \in Nat, b > 1
  PROVE  /\ n \div b \in Nat /\ n % b \in 0 .. b - 1
         /\ n = (n \div b) * b + (n % b)
         /\ n > 0 => n \div b < n
BY SMT

\* It does not matter which two of three sequences are joined first.
LEMMA Associative ==
  ASSUME NEW A, NEW x \in Seq(A), NEW y \in Seq(A), NEW z \in Seq(A)
  PROVE  (x \o y) \o z = x \o (y \o z)
BY ConcatAssociative

\* The elements of two sequences, one after the other.
LEMMA BothHave ==
  ASSUME NEW A, NEW x \in Seq(A), NEW y \in Seq(A)
  PROVE  /\ x \o y \in Seq(A) /\ Len(x \o y) = Len(x) + Len(y)
         /\ Len(x) \in Nat /\ Len(y) \in Nat
         /\ \A i \in 1 .. Len(x) : (x \o y)[i] = x[i]
         /\ \A i \in 1 .. Len(y) : (x \o y)[Len(x) + i] = y[i]
         /\ \A i \in Len(x) + 1 .. Len(x) + Len(y) :
              i - Len(x) \in 1 .. Len(y) /\ (x \o y)[i] = y[i - Len(x)]
OBVIOUS

\* A sequence is its first element and the others.
LEMMA Prefixed ==
  ASSUME NEW A, NEW x \in Seq(A), NEW y \in Seq(A), NEW c \in A,
         Len(x) = Len(y) + 1, x[1] = c, \A i \in 1 .. Len(y) : x[i + 1] = y[i]
  PROVE  x = <<c>> \o y
<1> DEFINE z == <<c>> \o y
<1>1. z \in Seq(A) /\ Len(z) = Len(y) + 1 /\ z[1] = c /\ Len(y) \in Nat
  OBVIOUS
<1>2. ASSUME NEW i \in 1 .. Len(y)
      PROVE  z[i + 1] = y[i]
  OBVIOUS
<1> HIDE DEF z
<1>3. ASSUME NEW i \in 1 .. Len(x)
      PROVE  x[i] = z[i]
  <2>1. CASE i = 1
    BY <1>1, <2>1
  <2>2. CASE i # 1
    <3>1. i - 1 \in 1 .. Len(y) /\ (i - 1) + 1 = i
      BY <1>1, <2>2
    <3> QED BY <1>2, <3>1
  <2> QED BY <2>1, <2>2
<1>4. Len(x) = Len(z)
  BY <1>1
<1>5. x = z
  BY <1>1, <1>3, <1>4, SeqEqual
<1> QED BY <1>5 DEF z

\* A tail is known by its elements.
LEMMA TailIs ==
  ASSUME NEW A, NEW x \in Seq(A), x # <<>>, NEW y \in Seq(A),
         Len(y) = Len(x) - 1, \A i \in 1 .. Len(y) : y[i] = x[i + 1]
  PROVE  Tail(x) = y
<1> DEFINE z == Tail(x)
<1>1. /\ z \in Seq(A) /\ Len(z) = Len(x) - 1
      /\ \A i \in 1 .. Len(z) : z[i] = x[i + 1]
  OBVIOUS
<1> HIDE DEF z
<1>2. z = y
  BY <1>1, SeqEqual
<1> QED BY <1>2 DEF z

\* Three elements, one after the other.
LEMMA ThreeHave ==
  ASSUME NEW A, NEW x \in A, NEW y \in A, NEW z \in A
  PROVE  /\ <<x, y, z>> \in Seq(A) /\ <<x, y, z>> # <<>>
         /\ Head(<<x, y, z>>) = x /\ Tail(<<x, y, z>>) = <<y, z>>
         /\ <<y, z>> \in Seq(A) /\ <<y, z>> # <<>> /\ Head(<<y, z>>) = y
         /\ Tail(<<y, z>>) = <<z>> /\ <<z>> \in Seq(A) /\ <<z>> # <<>>
         /\ Head(<<z>>) = z /\ Tail(<<z>>) = <<>>
<1>1. /\ <<x, y, z>> \in Seq(A) /\ <<y, z>> \in Seq(A) /\ <<z>> \in Seq(A)
      /\ <<>> \in Seq(A)
  OBVIOUS
<1>2. /\ <<x, y, z>> # <<>> /\ <<y, z>> # <<>> /\ <<z>> # <<>>
      /\ Head(<<x, y, z>>) = x /\ Head(<<y, z>>) = y /\ Head(<<z>>) = z
  OBVIOUS
<1>3. Tail(<<x, y, z>>) = <<y, z>>
  <2>1. \A i \in 1 .. Len(<<y, z>>) : <<y, z>>[i] = <<x, y, z>>[i + 1]
    OBVIOUS
  <2>2. Len(<<y, z>>) = Len(<<x, y, z>>) - 1
    OBVIOUS
  <2> QED BY <1>1, <1>2, <2>1, <2>2, TailIs
<1>4. Tail(<<y, z>>) = <<z>>
  <2>1. \A i \in 1 .. Len(<<z>>) : <<z>>[i] = <<y, z>>[i + 1]
    OBVIOUS
  <2>2. Len(<<z>>) = Len(<<y, z>>) - 1
    OBVIOUS
  <2> QED BY <1>1, <1>2, <2>1, <2>2, TailIs
<1>5. Tail(<<z>>) = <<>>
  OBVIOUS
<1> QED BY <1>1, <1>2, <1>3, <1>4, <1>5

\* f[i] is the first i of seqs one after the other.
Joins(f, seqs) ==
  f[0] = <<>> /\ \A i \in 1 .. Len(seqs) : f[i] = f[i - 1] \o seqs[i]

\* There is such a function.
LEMMA JoinsExists ==
  ASSUME NEW A, NEW seqs \in Seq(Seq(A))
  PROVE  \E f \in [0 .. Len(seqs) -> Seq(A)] : Joins(f, seqs)
<1>0. PICK n \in Nat : n = Len(seqs)
  OBVIOUS
<1> DEFINE V == Seq(A)
           start == <<>>
           e == [i \in 1 .. n |-> i - 1]
           G == [i \in 1 .. n |-> [v \in V |-> v \o seqs[i]]]
<1>1. n \in Nat /\ \A i \in 1 .. n : seqs[i] \in V
  BY <1>0
<1>2. /\ G \in [1 .. n -> [V -> V]]
      /\ \A i \in 1 .. n : \A v \in V : G[i][v] = v \o seqs[i]
  <2>1. \A i \in 1 .. n : \A v \in V : v \o seqs[i] \in V
    BY <1>1, ConcatProperties
  <2> QED BY <2>1
<1>3. e \in [1 .. n -> Nat] /\ \A i \in 1 .. n : e[i] < i /\ e[i] = i - 1
  OBVIOUS
<1>4. start \in V /\ start = <<>>
  OBVIOUS
<1>41. \A i \in 1 .. n : i \in 0 .. n /\ i - 1 \in 0 .. n /\ i # 0
  BY <1>1
<1> HIDE DEF G, e, start
<1>5. PICK f \in [0 .. n -> V] : Recurs(f, n, start, e, G)
  BY <1>1, <1>2, <1>3, <1>4, RecursionExists, Zenon
<1>6. f[0] = <<>> /\ \A i \in 1 .. n : f[i] = f[i - 1] \o seqs[i]
  <2>1. f[0] = start /\ \A i \in 1 .. n : f[i] = G[i][f[e[i]]]
    BY <1>5 DEF Recurs
  <2>2. \A i \in 1 .. n : f[i] = G[i][f[i - 1]] /\ f[i - 1] \in V
    BY <1>3, <1>41, <1>5, <2>1
  <2> QED BY <1>2, <1>4, <2>1, <2>2
<1> QED BY <1>0, <1>5, <1>6 DEF Joins

\* The first sequence comes first.
LEMMA JoinsHead ==
  ASSUME NEW A, NEW seqs \in Seq(Seq(A)), seqs # <<>>,
         NEW f \in [0 .. Len(seqs) -> Seq(A)], Joins(f, seqs),
         NEW g \in [0 .. Len(Tail(seqs)) -> Seq(A)], Joins(g, Tail(seqs))
  PROVE  f[Len(seqs)] = Head(seqs) \o g[Len(Tail(seqs))]
<1> DEFINE t == Tail(seqs)
<1>0. PICK n \in Nat : n = Len(seqs)
  OBVIOUS
<1>1. /\ n \in Nat /\ n > 0 /\ Len(t) = n - 1 /\ t \in Seq(Seq(A))
      /\ Head(seqs) = seqs[1] /\ seqs[1] \in Seq(A)
      /\ \A i \in 1 .. n - 1 : t[i] = seqs[i + 1] /\ seqs[i + 1] \in Seq(A)
  BY <1>0
<1>2. f \in [0 .. n -> Seq(A)] /\ Joins(f, seqs)
  BY <1>0
<1>3. g \in [0 .. n - 1 -> Seq(A)] /\ Joins(g, t)
  BY <1>1
<1> HIDE DEF t
<1>31. /\ f[0] = <<>> /\ \A i \in 1 .. n : f[i] = f[i - 1] \o seqs[i]
       /\ g[0] = <<>> /\ \A i \in 1 .. n - 1 : g[i] = g[i - 1] \o t[i]
  BY <1>0, <1>1, <1>2, <1>3 DEF Joins
<1> DEFINE T == {k \in 0 .. n - 1 : f[k + 1] = seqs[1] \o g[k]}
<1>4. 0 <= n - 1 => 0 \in T
  <2>1. f[1] = <<>> \o seqs[1] /\ g[0] = <<>>
    <3>1. 1 \in 1 .. n /\ 1 - 1 = 0
      BY <1>1
    <3> QED BY <1>31, <3>1
  <2>2. <<>> \o seqs[1] = seqs[1] /\ seqs[1] \o <<>> = seqs[1]
    BY <1>1, ConcatEmptySeq
  <2>3. 0 <= n - 1 => 0 \in 0 .. n - 1
    BY <1>1
  <2>4. f[0 + 1] = seqs[1] \o g[0]
    BY <2>1, <2>2
  <2> QED BY <2>3, <2>4
<1>5. ASSUME NEW k \in 0 .. (n - 1) - 1, k \in T
      PROVE  k + 1 \in T
  <2>1. k + 1 \in 1 .. n - 1 /\ k + 1 \in 0 .. n - 1 /\ (k + 1) + 1 \in 1 .. n /\ k \in 0 .. n - 1
    BY <1>1
  <2>2. f[(k + 1) + 1] = f[k + 1] \o seqs[(k + 1) + 1]
    <3>1. ((k + 1) + 1) - 1 = k + 1
      BY <2>1
    <3> QED BY <1>31, <2>1, <3>1
  <2>3. g[k + 1] = g[k] \o seqs[(k + 1) + 1]
    <3>1. (k + 1) - 1 = k
      BY <2>1
    <3>2. t[k + 1] = seqs[(k + 1) + 1]
      BY <1>1, <2>1
    <3> QED BY <1>31, <2>1, <3>1, <3>2
  <2>4. /\ g[k] \in Seq(A) /\ seqs[(k + 1) + 1] \in Seq(A)
    BY <1>1, <1>3, <2>1
  <2>5. (seqs[1] \o g[k]) \o seqs[(k + 1) + 1] = seqs[1] \o (g[k] \o seqs[(k + 1) + 1])
    <3>1. PICK x, y, z : x = seqs[1] /\ y = g[k] /\ z = seqs[(k + 1) + 1]
      OBVIOUS
    <3>2. x \in Seq(A) /\ y \in Seq(A) /\ z \in Seq(A)
      BY <1>1, <2>4, <3>1
    <3>3. (x \o y) \o z = x \o (y \o z)
      BY ONLY <3>2, Associative
    <3> QED BY <3>1, <3>3
  <2>6. f[k + 1] = seqs[1] \o g[k]
    BY <1>5
  <2>7. f[(k + 1) + 1] = seqs[1] \o g[k + 1]
    <3> HIDE DEF T
    <3> QED BY <2>2, <2>3, <2>5, <2>6
  <2> QED BY <2>1, <2>7
<1>6. 0 .. n - 1 \subseteq T
  <2> HIDE DEF T
  <2>1. 0 \in Int /\ n - 1 \in Int
    BY <1>1
  <2> QED BY <1>4, <1>5, <2>1, IntervalInduction
<1>7. n - 1 \in T /\ (n - 1) + 1 = n /\ n - 1 \in 0 .. n - 1 /\ n \in 0 .. n
  <2>1. (n - 1) + 1 = n /\ n - 1 \in 0 .. n - 1 /\ n \in 0 .. n
    BY <1>1
  <2> HIDE DEF T
  <2> QED BY <1>6, <2>1
<1>8. f[n] = seqs[1] \o g[n - 1] /\ f[n] \in Seq(A) /\ g[n - 1] \in Seq(A)
  <2>1. f[(n - 1) + 1] = seqs[1] \o g[n - 1]
    BY <1>7
  <2> QED BY <1>2, <1>3, <1>7, <2>1
<1> QED BY <1>0, <1>1, <1>8 DEF t

-----------------------------------------------------------------------------
(* A single cycle.                                                         *)

\* The pointers f lead around S in one cycle: from no part of S is there a
\* way to stay in that part.
OneRing(f, S) ==
  /\ \A d \in S : f[d] \in S
  /\ \A T \in SUBSET S : T # {} /\ (\A d \in T : f[d] \in T) => T = S

\* The list without nodes is the ring without nodes.
LEMMA RingEmpty == \A f : OneRing(f, {})
BY DEF OneRing

\* A node that points at itself makes a ring.
LEMMA RingSingle ==
  ASSUME NEW f, NEW d, f[d] = d
  PROVE  OneRing(f, {d})
BY DEF OneRing

\* Only the pointers of its nodes matter to a ring.
LEMMA RingSame ==
  ASSUME NEW S, NEW f, NEW g, OneRing(f, S), \A e \in S : g[e] = f[e]
  PROVE  OneRing(g, S)
<1>1. ASSUME NEW T \in SUBSET S, T # {}, \A e \in T : g[e] \in T
      PROVE  T = S
  <2>1. \A e \in T : f[e] \in T
    BY <1>1
  <2> QED BY <1>1, <2>1 DEF OneRing
<1>2. \A e \in S : g[e] \in S
  BY DEF OneRing
<1> QED BY <1>1, <1>2 DEF OneRing

\* A node that is put behind p joins the ring of p.
LEMMA RingJoins ==
  ASSUME NEW S, NEW f, NEW g, OneRing(f, S), NEW p \in S, NEW d, d \notin S,
         g[p] = d, g[d] = f[p], \A e \in S : e # p => g[e] = f[e]
  PROVE  OneRing(g, S \cup {d})
<1>1. \A e \in S : f[e] \in S
  BY DEF OneRing
<1>2. \A e \in S \cup {d} : g[e] \in S \cup {d}
  BY <1>1
<1>3. ASSUME NEW T \in SUBSET (S \cup {d}), T # {}, \A e \in T : g[e] \in T
      PROVE  T = S \cup {d}
  <2>1. CASE d \in T
    <3> DEFINE U == T \ {d}
    <3>1. f[p] \in U
      BY <1>1, <1>3, <2>1
    <3>2. \A e \in U : f[e] \in U
      <4> SUFFICES ASSUME NEW e \in U
                   PROVE  f[e] \in U
        OBVIOUS
      <4>1. CASE e = p
        BY <3>1, <4>1
      <4>2. CASE e # p
        <5>1. e \in S /\ g[e] = f[e] /\ g[e] \in T /\ f[e] \in S
          BY <1>1, <1>3, <4>2
        <5> QED BY <5>1
      <4> QED BY <4>1, <4>2
    <3>3. U \in SUBSET S /\ U # {}
      BY <3>1
    <3>4. U = S
      BY <3>2, <3>3 DEF OneRing
    <3> QED BY <2>1, <3>4
  <2>2. CASE d \notin T
    <3>1. p \notin T
      BY <1>3, <2>2
    <3>2. T \in SUBSET S /\ \A e \in T : f[e] \in T
      BY <1>3, <2>2, <3>1
    <3>3. T = S
      BY <1>3, <3>2 DEF OneRing
    <3> QED BY <3>1, <3>3
  <2> QED BY <2>1, <2>2
<1> QED BY <1>2, <1>3 DEF OneRing

\* A node that p is led past leaves the ring of p.
LEMMA RingLeaves ==
  ASSUME NEW S, NEW f, NEW g, OneRing(f, S), NEW p \in S, NEW d \in S, p # d,
         f[p] = d, \A e \in S : f[e] = d => e = p,
         g[p] = f[d], \A e \in S : e \notin {p, d} => g[e] = f[e]
  PROVE  OneRing(g, S \ {d})
<1>1. \A e \in S : f[e] \in S
  BY DEF OneRing
<1>2. \A e \in S \ {d} : g[e] \in S \ {d}
  BY <1>1
<1>3. ASSUME NEW T \in SUBSET (S \ {d}), T # {}, \A e \in T : g[e] \in T
      PROVE  T = S \ {d}
  <2>1. CASE p \in T
    <3> DEFINE U == T \cup {d}
    <3>1. U \in SUBSET S /\ U # {}
      OBVIOUS
    <3>2. \A e \in U : f[e] \in U
      BY <1>3, <2>1
    <3>3. U = S
      BY <3>1, <3>2 DEF OneRing
    <3> QED BY <3>3
  <2>2. CASE p \notin T
    <3>1. T \in SUBSET S /\ \A e \in T : f[e] \in T
      BY <1>3, <2>2
    <3>2. T = S
      BY <1>3, <3>1 DEF OneRing
    <3> QED BY <2>2, <3>2
  <2> QED BY <2>1, <2>2
<1> QED BY <1>2, <1>3 DEF OneRing

-----------------------------------------------------------------------------
(* A walk.                                                                 *)

\* F[i] are the nodes met from start on in up to i steps along p.
Walked(F, start, p, n) ==
  /\ F[0] = start
  /\ \A i \in 1 .. n : F[i] = F[i - 1] \cup {p[c] : c \in F[i - 1]}

\* There is such a function.
LEMMA WalkExists ==
  ASSUME NEW start, NEW p, NEW n \in Nat
  PROVE  \E F : F = [i \in 0 .. n |-> F[i]] /\ Walked(F, start, p, n)
<1> DEFINE Good(F, m) == F = [i \in 0 .. m |-> F[i]] /\ Walked(F, start, p, m)
           T == {m \in Nat : \E F : Good(F, m)}
<1>1. 0 \in T
  <2>1. Good([i \in 0 .. 0 |-> start], 0)
    BY DEF Walked
  <2> QED BY <2>1
<1>2. ASSUME NEW m \in T
      PROVE  m + 1 \in T
  <2>1. m \in Nat
    OBVIOUS
  <2>2. PICK F : Good(F, m)
    OBVIOUS
  <2> DEFINE x == F[m] \cup {p[c] : c \in F[m]}
             G == [i \in 0 .. m + 1 |-> IF i = m + 1 THEN x ELSE F[i]]
  <2>3. /\ \A i \in 0 .. m : G[i] = F[i]
        /\ G[m + 1] = x
        /\ G = [i \in 0 .. m + 1 |-> G[i]]
    BY <2>1
  <2> HIDE DEF G
  <2>4. G[0] = start
    BY <2>1, <2>2, <2>3 DEF Walked
  <2>5. ASSUME NEW i \in 1 .. m + 1
        PROVE  G[i] = G[i - 1] \cup {p[c] : c \in G[i - 1]}
    <3>1. CASE i = m + 1
      <4>1. i - 1 = m /\ m \in 0 .. m
        BY <2>1, <3>1
      <4>2. G[i] = x /\ G[i - 1] = F[m]
        BY <2>3, <3>1, <4>1
      <4> QED BY <4>2
    <3>2. CASE i # m + 1
      <4>1. i \in 1 .. m /\ i \in 0 .. m /\ i - 1 \in 0 .. m
        BY <2>1, <3>2
      <4>2. F[i] = F[i - 1] \cup {p[c] : c \in F[i - 1]}
        BY <2>2, <4>1 DEF Walked
      <4>3. G[i] = F[i] /\ G[i - 1] = F[i - 1]
        BY <2>3, <4>1
      <4> QED BY <4>2, <4>3
    <3> QED BY <3>1, <3>2
  <2>6. Good(G, m + 1)
    BY <2>3, <2>4, <2>5 DEF Walked
  <2> HIDE DEF Good
  <2> QED BY <2>1, <2>6
<1>3. T \in SUBSET Nat
  OBVIOUS
<1>4. T = Nat
  BY <1>1, <1>2, <1>3, NatSetInduction
<1> QED BY <1>4

\* Reached gives the last value of one.
LEMMA ReachedWalk ==
  ASSUME NEW start, NEW p, NEW n \in Nat
  PROVE  \E F : Walked(F, start, p, n) /\ Reached(start, p, n) = F[n]
<1> DEFINE met == CHOOSE F : F = [i \in 0 .. n |->
                     IF i = 0 THEN start ELSE F[i - 1] \cup {p[c] : c \in F[i - 1]}]
<1>1. Reached(start, p, n) = met[n]
  BY DEF Reached
<1>2. PICK F : F = [i \in 0 .. n |-> F[i]] /\ Walked(F, start, p, n)
  BY WalkExists
<1>3. F = [i \in 0 .. n |->
             IF i = 0 THEN start ELSE F[i - 1] \cup {p[c] : c \in F[i - 1]}]
  <2>1. \A i \in 0 .. n :
          F[i] = IF i = 0 THEN start ELSE F[i - 1] \cup {p[c] : c \in F[i - 1]}
    <3> SUFFICES ASSUME NEW i \in 0 .. n
                 PROVE  F[i] = IF i = 0 THEN start
                               ELSE F[i - 1] \cup {p[c] : c \in F[i - 1]}
      OBVIOUS
    <3>1. CASE i = 0
      BY <1>2, <3>1 DEF Walked
    <3>2. CASE i # 0
      <4>1. i \in 1 .. n
        BY <3>2
      <4> QED BY <1>2, <3>2, <4>1 DEF Walked
    <3> QED BY <3>1, <3>2
  <2>2. [i \in 0 .. n |-> F[i]] = [i \in 0 .. n |->
             IF i = 0 THEN start ELSE F[i - 1] \cup {p[c] : c \in F[i - 1]}]
    BY <2>1
  <2> QED BY <1>2, <2>2, Zenon
<1>4. met = [i \in 0 .. n |->
               IF i = 0 THEN start ELSE met[i - 1] \cup {p[c] : c \in met[i - 1]}]
  BY <1>3
<1> HIDE DEF met
<1> DEFINE along == [i \in 0 .. n |->
               IF i = 0 THEN start ELSE met[i - 1] \cup {p[c] : c \in met[i - 1]}]
<1>5. /\ along[0] = start
      /\ \A i \in 1 .. n : along[i] = met[i - 1] \cup {p[c] : c \in met[i - 1]}
  OBVIOUS
<1>6. met = along
  BY <1>4
<1> HIDE DEF along
<1>7. Walked(met, start, p, n)
  BY <1>5, <1>6 DEF Walked
<1> QED BY <1>1, <1>7

\* From nowhere a walk gets nowhere.
LEMMA ReachedNone ==
  ASSUME NEW p, NEW n \in Nat
  PROVE  Reached({}, p, n) = {}
<1>1. PICK F : Walked(F, {}, p, n) /\ Reached({}, p, n) = F[n]
  BY ReachedWalk
<1> DEFINE T == {i \in 0 .. n : F[i] = {}}
<1>2. 0 \in T
  BY <1>1 DEF Walked
<1>3. ASSUME NEW i \in 0 .. n - 1, i \in T
      PROVE  i + 1 \in T
  <2>1. i + 1 \in 1 .. n /\ (i + 1) - 1 = i /\ F[i] = {}
    BY <1>3
  <2>2. F[i + 1] = F[i] \cup {p[c] : c \in F[i]}
    BY <1>1, <2>1 DEF Walked
  <2> QED BY <2>1, <2>2
<1> HIDE DEF T
<1>4. 0 .. n \subseteq T
  BY <1>2, <1>3, IntervalInduction
<1> QED BY <1>1, <1>4 DEF T

\* A walk that starts in a ring, and is as long as the ring, meets all of it,
\* and nothing else.
LEMMA ReachedRing ==
  ASSUME NEW S, IsFiniteSet(S), NEW p, OneRing(p, S), NEW h \in S,
         NEW n \in Nat, Cardinality(S) <= n + 1
  PROVE  Reached({h}, p, n) = S
<1>1. PICK F : Walked(F, {h}, p, n) /\ Reached({h}, p, n) = F[n]
  BY ReachedWalk
<1>2. Cardinality(S) \in Nat
  BY FS_CardinalityType
<1> DEFINE Grown(i) == /\ F[i] \in SUBSET S /\ F[i] # {}
                       /\ F[i] = S \/ Cardinality(F[i]) >= i + 1
           T == {i \in 0 .. n : Grown(i)}
<1>3. 0 \in T
  <2>1. F[0] = {h}
    BY <1>1 DEF Walked
  <2>2. Cardinality({h}) = 1
    BY FS_Singleton
  <2> QED BY <2>1, <2>2
<1>4. ASSUME NEW i \in 0 .. n - 1, i \in T
      PROVE  i + 1 \in T
  <2>1. i + 1 \in 1 .. n /\ i + 1 \in 0 .. n /\ (i + 1) - 1 = i /\ Grown(i)
    BY <1>4
  <2>2. F[i + 1] = F[i] \cup {p[c] : c \in F[i]}
    BY <1>1, <2>1 DEF Walked
  <2> DEFINE A == F[i]
             D == F[i + 1]
  <2>3. A \in SUBSET S /\ A # {} /\ D = A \cup {p[c] : c \in A}
    BY <2>1, <2>2
  <2>4. A = S \/ Cardinality(A) >= i + 1
    BY <2>1
  <2>5. D = S \/ Cardinality(D) >= (i + 1) + 1
    <3> HIDE DEF A, D
    <3>0. D \in SUBSET S
      BY <2>3 DEF OneRing
    <3>1. CASE A = S
      BY <2>3, <3>0, <3>1
    <3>2. CASE A # S
      <4>1. D # A /\ A \in SUBSET D
        BY <2>3, <3>2 DEF OneRing
      <4>2. IsFiniteSet(D)
        BY <3>0, FS_Subset
      <4>3. Cardinality(A) <= Cardinality(D) /\ Cardinality(D) # Cardinality(A) /\ IsFiniteSet(A)
        BY <4>1, <4>2, FS_Subset
      <4>4. Cardinality(A) \in Nat /\ Cardinality(D) \in Nat
        BY <4>2, <4>3, FS_CardinalityType
      <4> QED BY <2>4, <3>2, <4>3, <4>4
    <3> QED BY <3>1, <3>2
  <2>6. D \in SUBSET S /\ D # {}
    BY <2>3 DEF OneRing
  <2> QED BY <2>1, <2>5, <2>6
<1> HIDE DEF T
<1>5. 0 .. n \subseteq T
  BY <1>3, <1>4, IntervalInduction
<1>6. Grown(n)
  BY <1>5 DEF T
<1>7. F[n] = S
  <2>1. F[n] \in SUBSET S /\ (F[n] = S \/ Cardinality(F[n]) >= n + 1)
    BY <1>6
  <2> DEFINE A == F[n]
  <2> HIDE DEF A
  <2>2. A \in SUBSET S /\ (A = S \/ Cardinality(A) >= n + 1)
    BY <2>1 DEF A
  <2>3. /\ Cardinality(A) <= Cardinality(S) /\ IsFiniteSet(A)
        /\ Cardinality(A) = Cardinality(S) => A = S
    BY <2>2, FS_Subset
  <2>4. Cardinality(A) \in Nat
    BY <2>3, FS_CardinalityType
  <2>5. A = S
    BY <1>2, <2>2, <2>3, <2>4
  <2> QED BY <2>5 DEF A
<1> QED BY <1>1, <1>7

=============================================================================
