---------------------------- MODULE MemoryProofs ----------------------------
(***************************************************************************)
(* Proofs about Memory, for every region, alignment and size.              *)
(*                                                                         *)
(* The inductive invariant is local: it speaks of a chunk and its          *)
(* neighbours on the list `all` (RingOf) and on its free list (ListsOf),   *)
(* and never walks a list: that a free list has all the free chunks of its *)
(* sizes is said by OneRing, that no part of them is a cycle of its own.   *)
(* Each helper of memory.c gets a lemma that says what it does to these    *)
(* two predicates; the lemmas about take (malloc) and freed (free) follow  *)
(* from those, and every action of Next is made of these two.              *)
(***************************************************************************)
EXTENDS Memory, Lemmas

-----------------------------------------------------------------------------
(* Arithmetic: alignment and slots.                                        *)

Aligned(x) == \E k \in Int : x = k * ALIGN

\* Sums and differences of multiples of ALIGN are multiples of ALIGN.
LEMMA AlignedSum ==
  ASSUME NEW x \in Int, NEW y \in Int, Aligned(x), Aligned(y)
  PROVE  Aligned(x + y) /\ Aligned(x - y)
<1>0. ALIGN \in Nat \ {0}
  BY SizesAssumption
<1>1. PICK i \in Int : x = i * ALIGN
  BY DEF Aligned
<1>2. PICK j \in Int : y = j * ALIGN
  BY DEF Aligned
<1>3. x + y = (i + j) * ALIGN /\ x - y = (i - j) * ALIGN
  BY <1>0, <1>1, <1>2
<1>4. i + j \in Int /\ i - j \in Int
  OBVIOUS
<1> QED BY <1>3, <1>4 DEF Aligned

\* AlignDown rounds down to a multiple of ALIGN.
LEMMA AlignDownIs ==
  ASSUME NEW x \in Int
  PROVE  /\ AlignDown(x) \in Int
         /\ Aligned(AlignDown(x))
         /\ AlignDown(x) <= x /\ x < AlignDown(x) + ALIGN
<1>0. ALIGN \in Nat \ {0}
  BY SizesAssumption
<1>1. x \div ALIGN \in Int
  BY <1>0
<1>2. (x \div ALIGN) * ALIGN <= x /\ x < (x \div ALIGN) * ALIGN + ALIGN
  BY <1>0
<1>3. (x \div ALIGN) * ALIGN \in Int
  BY <1>0, <1>1
<1> QED BY <1>1, <1>2, <1>3 DEF AlignDown, Aligned

\* The sizes of the structures of memory.c, as the lemmas below use them.
LEMMA Constants ==
  /\ ALIGN \in Nat \ {0}
  /\ HEADER_SIZE \in Nat \ {0} /\ Aligned(HEADER_SIZE)
  /\ MIN_SIZE \in Nat \ {0} /\ Aligned(MIN_SIZE)
  /\ SIZEOF_CHUNK \in Nat /\ SIZEOF_CHUNK = HEADER_SIZE + MIN_SIZE
  /\ Aligned(SIZEOF_CHUNK)
  /\ NUM_SIZES \in Nat \ {0} /\ SIZE_MOD \in Nat \ {0}
<1>1. ALIGN \in Nat \ {0} /\ HEADER_SIZE \in Nat /\ MIN_SIZE \in Nat
  BY SizesAssumption
<1>2. HEADER_SIZE > 0 /\ Aligned(HEADER_SIZE)
  BY <1>1, SizesAssumption DEF Aligned
<1>3. MIN_SIZE > 0 /\ Aligned(MIN_SIZE)
  BY <1>1, SizesAssumption DEF Aligned
<1>4. Aligned(HEADER_SIZE + MIN_SIZE)
  BY <1>1, <1>2, <1>3, AlignedSum
<1> QED BY <1>1, <1>2, <1>3, <1>4, SizesAssumption DEF SIZEOF_CHUNK

\* The sentinels are aligned, in order, and leave room for a chunk.
LEMMA Ends ==
  /\ first \in Int /\ Aligned(first)
  /\ second \in Int /\ Aligned(second)
  /\ last \in Int /\ Aligned(last)
  /\ first + SIZEOF_CHUNK = second /\ second + SIZEOF_CHUNK <= last
  /\ first >= 0
<1>1. mem \in Nat /\ mem_size \in Nat
  BY RegionAssumption
<1>2. mem + ALIGN - 1 \in Int /\ mem + mem_size \in Int
  BY <1>1, Constants
<1>3. first \in Int /\ Aligned(first) /\ mem <= first
  BY <1>1, <1>2, AlignDownIs, Constants DEF first
<1>4. AlignDown(mem + mem_size) \in Int /\ Aligned(AlignDown(mem + mem_size))
  BY <1>2, AlignDownIs
<1>. SIZEOF_CHUNK \in Int /\ Aligned(SIZEOF_CHUNK)
  BY Constants
<1>5. last \in Int /\ Aligned(last)
  <2> DEFINE end == AlignDown(mem + mem_size)
  <2>1. end \in Int /\ Aligned(end)
    BY <1>4
  <2>2. last = end - SIZEOF_CHUNK
    BY DEF last
  <2> HIDE DEF end
  <2> QED BY <2>1, <2>2, AlignedSum
<1>6. second \in Int /\ Aligned(second)
  BY <1>3, AlignedSum DEF second
<1> QED BY <1>1, <1>3, <1>5, <1>6, RegionAssumption DEF second

\* Addr is every multiple of ALIGN from sentinel to sentinel.
LEMMA AddrIs ==
  \A x : x \in Addr <=> x \in Int /\ first <= x /\ x <= last /\ Aligned(x)
<1>0. ALIGN \in Nat \ {0}
  BY Constants
<1>1. PICK i \in Int : first = i * ALIGN
  BY Ends DEF Aligned
<1>2. PICK j \in Int : last = j * ALIGN
  BY Ends DEF Aligned
<1>3. first \div ALIGN = i /\ last \div ALIGN = j
  BY <1>0, <1>1, <1>2
<1>4. \A k \in Int : /\ i <= k <=> i * ALIGN <= k * ALIGN
                     /\ k <= j <=> k * ALIGN <= j * ALIGN
                     /\ k * ALIGN \in Int
  BY <1>0
<1>5. ASSUME NEW x \in Addr
      PROVE  x \in Int /\ first <= x /\ x <= last /\ Aligned(x)
  <2>1. PICK k \in i .. j : x = k * ALIGN
    BY <1>3 DEF Addr
  <2>2. k \in Int /\ i <= k /\ k <= j
    BY <2>1
  <2> QED BY <2>1, <2>2, <1>1, <1>2, <1>4 DEF Aligned
<1>6. ASSUME NEW x \in Int, first <= x, x <= last, Aligned(x)
      PROVE  x \in Addr
  <2>1. PICK k \in Int : x = k * ALIGN
    BY <1>6 DEF Aligned
  <2>2. k \in i .. j
    BY <2>1, <1>1, <1>2, <1>4, <1>6
  <2> QED BY <2>1, <2>2, <1>3 DEF Addr
<1> QED BY <1>5, <1>6

\* The set whose size memory_chunk_slot counts.
Halvings(size) == {k \in 0 .. NUM_SIZES - 1 : 2 ^ k <= size}

\* The halvings memory_chunk_slot counts are finitely many.
LEMMA HalvingsFinite ==
  ASSUME NEW size \in Int
  PROVE  /\ IsFiniteSet(Halvings(size))
         /\ Cardinality(Halvings(size)) \in 0 .. NUM_SIZES
<1>0. NUM_SIZES \in Int /\ NUM_SIZES > 0
  BY Constants
<1>1. IsFiniteSet(0 .. NUM_SIZES - 1) /\ Cardinality(0 .. NUM_SIZES - 1) = NUM_SIZES
  BY <1>0, FS_Interval
<1>2. Halvings(size) \subseteq 0 .. NUM_SIZES - 1
  BY DEF Halvings
<1>3. /\ IsFiniteSet(Halvings(size))
      /\ Cardinality(Halvings(size)) <= NUM_SIZES
  BY <1>1, <1>2, FS_Subset
<1>4. Cardinality(Halvings(size)) \in Nat
  BY <1>3, FS_CardinalityType
<1> QED BY <1>3, <1>4, Constants

\* A chunk with any data at all belongs in a slot.
LEMMA SlotInSlots ==
  ASSUME NEW size \in Int, size >= 1
  PROVE  memory_chunk_slot(size) \in Slots
<1>1. 0 \in Halvings(size)
  BY Constants DEF Halvings
<1>2. Cardinality(Halvings(size)) # 0
  BY <1>1, HalvingsFinite, FS_EmptySet
<1> QED BY <1>2, HalvingsFinite, Constants DEF memory_chunk_slot, Halvings, Slots

\* Smaller chunks belong in no higher slot, so that a chunk from a slot above
\* that of size - 1 has at least size bytes.
LEMMA SlotMonotonic ==
  ASSUME NEW s \in Int, NEW t \in Int, s <= t
  PROVE  /\ memory_chunk_slot(s) \in Int
         /\ memory_chunk_slot(s) <= memory_chunk_slot(t)
<1>1. Halvings(s) \subseteq Halvings(t)
  BY Constants DEF Halvings
<1>2. /\ Cardinality(Halvings(s)) <= Cardinality(Halvings(t))
      /\ Cardinality(Halvings(s)) \in Nat
      /\ Cardinality(Halvings(t)) \in Nat
  BY <1>1, HalvingsFinite, FS_Subset, Constants
<1> QED BY <1>2 DEF memory_chunk_slot, Halvings

-----------------------------------------------------------------------------
(* The list `all`.                                                         *)

\* The pointers A close the chunks C into a ring, in address order, with room
\* in each for the node of a free list.
RingOf(A, C) ==
  /\ A \in Pointers
  /\ C \subseteq Addr
  /\ first \in C /\ second \in C /\ last \in C
  /\ A.next[first] = second /\ A.next[last] = first
  /\ \A c \in C : /\ A.next[c] \in C /\ A.prev[A.next[c]] = c
                  /\ A.prev[c] \in C /\ A.next[A.prev[c]] = c
  /\ \A c \in C : c # last => /\ A.next[c] >= c + SIZEOF_CHUNK
                              /\ \A d \in C : d > c => d >= A.next[c]
  /\ \A c \in Addr \ C : A.next[c] = c

\* The chunks of a ring are those its pointers lead on from.
LEMMA RingChunks ==
  ASSUME NEW A, NEW C, RingOf(A, C)
  PROVE  C = {c \in Addr : A.next[c] # c}
<1>1. \A c \in C : c \in Int
  BY AddrIs DEF RingOf
<1>2. \A c \in C : A.next[c] # c
  <2>1. A.next[last] # last
    BY Ends, Constants DEF RingOf
  <2>2. ASSUME NEW c \in C, c # last
        PROVE  A.next[c] # c
    BY <2>2, <1>1, Constants DEF RingOf
  <2> QED BY <2>1, <2>2
<1> QED BY <1>2 DEF RingOf

\* memory_chunk_init and dlist_insert_after, as malloc calls them on the header
\* it puts between c and the next one.
LEMMA RingInsert ==
  ASSUME NEW A, NEW C, RingOf(A, C),
         NEW c \in C, c # last,
         NEW d \in Addr, c + SIZEOF_CHUNK <= d, d + SIZEOF_CHUNK <= A.next[c]
  PROVE  LET B == dlist_insert_after(dlist_init(A, d), c, d)
         IN  /\ d \notin C
             /\ c # first
             /\ RingOf(B, C \cup {d})
             /\ B.next[c] = d /\ B.next[d] = A.next[c]
             /\ \A e \in C \ {c} : B.next[e] = A.next[e]
<1> DEFINE n == A.next[c]
           B == dlist_insert_after(dlist_init(A, d), c, d)
           nxt == [A.next EXCEPT ![c] = d, ![d] = n]
           prv == [A.prev EXCEPT ![d] = c, ![n] = d]
<1>0. /\ SIZEOF_CHUNK \in Int /\ SIZEOF_CHUNK > 0
      /\ first \in Int /\ last \in Int /\ first < last
      /\ second = first + SIZEOF_CHUNK
  BY Constants, Ends
<1>1. /\ \A x \in Addr : x \in Int /\ first <= x /\ x <= last
      /\ C \subseteq Addr /\ n \in C
      /\ A.next \in [Addr -> Addr] /\ A.prev \in [Addr -> Addr]
  BY AddrIs DEF RingOf, Pointers
<1>20. /\ n >= c + SIZEOF_CHUNK
       /\ \A f \in C : f > c => f >= n
  BY DEF RingOf
<1>21. /\ c \in Int /\ d \in Int /\ n \in Int
       /\ c < d /\ d < n /\ c + SIZEOF_CHUNK <= d /\ d + SIZEOF_CHUNK <= n
  BY <1>0, <1>1
<1> HIDE DEF n
<1>2. d \notin C
  BY <1>20, <1>21
<1> USE DEF n
<1>3. c # first
  BY <1>0, <1>1 DEF RingOf
<1>4. c # d /\ n # d /\ n # c
  BY <1>0, <1>1, <1>2
<1>5. B = [next |-> nxt, prev |-> prv]
  <2>1. dlist_init(A, d).next[c] = n /\ dlist_init(A, d).prev[d] = d
    BY <1>1, <1>4 DEF dlist_init
  <2>2. [[A.next EXCEPT ![d] = d] EXCEPT ![c] = d, ![d] = n] = nxt
    BY <1>1, <1>4
  <2>3. [[A.prev EXCEPT ![d] = d] EXCEPT ![d] = c, ![n] = d] = prv
    BY <1>1, <1>4
  <2> QED BY <2>1, <2>2, <2>3 DEF dlist_insert_after, dlist_init
<1>6. nxt \in [Addr -> Addr] /\ prv \in [Addr -> Addr]
  BY <1>1
<1>7. /\ nxt[c] = d /\ nxt[d] = n /\ prv[d] = c /\ prv[n] = d
      /\ \A e \in Addr \ {c, d} : nxt[e] = A.next[e]
      /\ \A e \in Addr \ {n, d} : prv[e] = A.prev[e]
  BY <1>1, <1>4
<1> HIDE DEF nxt, prv
<1>8. \A e \in C : A.next[e] # e
  BY RingChunks
<1>9. ASSUME NEW e \in C \cup {d}
      PROVE  /\ nxt[e] \in C \cup {d} /\ prv[nxt[e]] = e
             /\ prv[e] \in C \cup {d} /\ nxt[prv[e]] = e
  <2>1. CASE e = c
    BY <2>1, <1>1, <1>2, <1>4, <1>7, <1>8 DEF RingOf
  <2>2. CASE e = d
    BY <2>2, <1>1, <1>2, <1>4, <1>7
  <2>3. CASE e \in C /\ e # c
    <3>1. /\ nxt[e] = A.next[e] /\ A.next[e] \in C /\ A.prev[A.next[e]] = e
          /\ A.next[e] # n
      BY <2>3, <1>1, <1>2, <1>7 DEF RingOf
    <3>2. prv[A.next[e]] = e
      BY <3>1, <1>1, <1>2, <1>7
    <3>3. prv[e] \in C \cup {d} /\ nxt[prv[e]] = e
      BY <2>3, <1>1, <1>2, <1>4, <1>7, <1>8 DEF RingOf
    <3> QED BY <3>1, <3>2, <3>3
  <2> QED BY <2>1, <2>2, <2>3
<1>10. ASSUME NEW e \in C \cup {d}, e # last
       PROVE  /\ nxt[e] >= e + SIZEOF_CHUNK
              /\ \A f \in C \cup {d} : f > e => f >= nxt[e]
  <2>0. \A x \in C \cup {d} : x \in Int
    BY <1>1
  <2> HIDE DEF n
  <2>1. CASE e = c
    BY <2>0, <2>1, <1>0, <1>20, <1>21, <1>7
  <2>2. CASE e = d
    <3>1. \A f \in C : f > d => f >= n
      BY <2>0, <1>20, <1>21
    <3> QED BY <3>1, <2>2, <1>0, <1>21, <1>7
  <2>3. CASE e \in C /\ e # c
    <3>1. /\ nxt[e] = A.next[e] /\ A.next[e] \in C
          /\ A.next[e] >= e + SIZEOF_CHUNK
          /\ \A f \in C : f > e => f >= A.next[e]
      BY <2>3, <1>1, <1>2, <1>7, <1>10 DEF RingOf
    <3>2. d > e => d >= A.next[e]
      <4>1. /\ e \in C /\ e \in Int /\ A.next[e] \in Int
            /\ e > c => e >= n
            /\ c > e => c >= A.next[e]
        BY <2>0, <2>3, <3>1, <1>20
      <4> QED BY <4>1, <2>3, <1>21
    <3> QED BY <3>1, <3>2
  <2> QED BY <2>1, <2>2, <2>3
<1>11. /\ nxt[first] = second /\ nxt[last] = first
       /\ \A e \in Addr \ (C \cup {d}) : nxt[e] = e
  BY <1>1, <1>2, <1>3, <1>7 DEF RingOf
<1>12. RingOf(B, C \cup {d})
  BY <1>1, <1>5, <1>6, <1>9, <1>10, <1>11 DEF RingOf, Pointers
<1> QED BY <1>1, <1>2, <1>3, <1>5, <1>7, <1>12

\* dlist_remove on the header of a chunk that becomes part of the one before.
LEMMA RingRemove ==
  ASSUME NEW A, NEW C, RingOf(A, C),
         NEW d \in C, d \notin {first, second, last}
  PROVE  LET B == dlist_remove(A, d)
         IN  /\ A.prev[d] \in C \ {last}
             /\ RingOf(B, C \ {d})
             /\ B.next[A.prev[d]] = A.next[d]
             /\ \A e \in C \ {d, A.prev[d]} : B.next[e] = A.next[e]
<1> DEFINE n == A.next[d]
           p == A.prev[d]
           B == dlist_remove(A, d)
           nxt == [A.next EXCEPT ![p] = n, ![d] = d]
           prv == [A.prev EXCEPT ![n] = p, ![d] = d]
<1>0. /\ SIZEOF_CHUNK \in Int /\ SIZEOF_CHUNK > 0
      /\ first \in Int /\ last \in Int /\ first < last
      /\ second = first + SIZEOF_CHUNK
  BY Constants, Ends
<1>1. /\ \A x \in Addr : x \in Int /\ first <= x /\ x <= last
      /\ C \subseteq Addr /\ n \in C /\ p \in C
      /\ A.next \in [Addr -> Addr] /\ A.prev \in [Addr -> Addr]
      /\ A.next[p] = d /\ A.prev[n] = d
  BY AddrIs DEF RingOf, Pointers
<1>2. \A e \in C : A.next[e] # e
  BY RingChunks
<1>3. p # d /\ n # d /\ p # last /\ p # first
  BY <1>1, <1>2 DEF RingOf
<1>4. B = [next |-> nxt, prev |-> prv]
  BY DEF dlist_remove
<1>5. nxt \in [Addr -> Addr] /\ prv \in [Addr -> Addr]
  BY <1>1
<1>6. /\ nxt[p] = n /\ nxt[d] = d /\ prv[n] = p /\ prv[d] = d
      /\ \A e \in Addr \ {p, d} : nxt[e] = A.next[e]
      /\ \A e \in Addr \ {n, d} : prv[e] = A.prev[e]
  BY <1>1, <1>3
<1> HIDE DEF nxt, prv
<1>7. ASSUME NEW e \in C \ {d}
      PROVE  /\ nxt[e] \in C \ {d} /\ prv[nxt[e]] = e
             /\ prv[e] \in C \ {d} /\ nxt[prv[e]] = e
  <2>1. nxt[e] \in C \ {d} /\ prv[nxt[e]] = e
    <3>1. CASE e = p
      BY <3>1, <1>1, <1>3, <1>6
    <3>2. CASE e # p
      <4>1. /\ nxt[e] = A.next[e] /\ A.next[e] \in C /\ A.prev[A.next[e]] = e
            /\ A.next[e] # d /\ A.next[e] # n
        BY <3>2, <1>1, <1>6 DEF RingOf
      <4> QED BY <4>1, <1>1, <1>6
    <3> QED BY <3>1, <3>2
  <2>2. prv[e] \in C \ {d} /\ nxt[prv[e]] = e
    <3>1. CASE e = n
      BY <3>1, <1>1, <1>3, <1>6
    <3>2. CASE e # n
      <4>1. /\ prv[e] = A.prev[e] /\ A.prev[e] \in C /\ A.next[A.prev[e]] = e
            /\ A.prev[e] # d /\ A.prev[e] # p
        BY <3>2, <1>1, <1>6 DEF RingOf
      <4> QED BY <4>1, <1>1, <1>6
    <3> QED BY <3>1, <3>2
  <2> QED BY <2>1, <2>2
<1>8. ASSUME NEW e \in C \ {d}, e # last
      PROVE  /\ nxt[e] >= e + SIZEOF_CHUNK
             /\ \A f \in C \ {d} : f > e => f >= nxt[e]
  <2>0. /\ \A x \in C : x \in Int
        /\ n >= d + SIZEOF_CHUNK /\ \A f \in C : f > d => f >= n
        /\ d >= p + SIZEOF_CHUNK /\ \A f \in C : f > p => f >= d
    BY <1>0, <1>1, <1>3 DEF RingOf
  <2>1. CASE e = p
    BY <2>0, <2>1, <1>0, <1>1, <1>6
  <2>2. CASE e # p
    BY <2>2, <1>1, <1>6, <1>8 DEF RingOf
  <2> QED BY <2>1, <2>2
<1>9. /\ nxt[first] = second /\ nxt[last] = first
      /\ \A e \in Addr \ (C \ {d}) : nxt[e] = e
  BY <1>1, <1>3, <1>6 DEF RingOf
<1>10. RingOf(B, C \ {d})
  BY <1>1, <1>4, <1>5, <1>7, <1>8, <1>9 DEF RingOf, Pointers
<1> QED BY <1>1, <1>3, <1>4, <1>6, <1>10

-----------------------------------------------------------------------------
(* The free lists.                                                         *)

\* The chunks of S that belong in slot n by sl.
OnSlot(S, sl, n) == {c \in S : sl[c] = n}

\* They are on one list.
Listed(F, hd, S, sl, n) ==
  /\ OneRing(F.next, OnSlot(S, sl, n))
  /\ hd[n] = NULL => OnSlot(S, sl, n) = {}

\* The chunks S are on lists, rings of the pointers F; all chunks of one list
\* have one slot by sl, the head in hd of a slot is a chunk of that slot, and
\* a slot has one list.
ListsOf(F, hd, S, sl) ==
  /\ F \in FreePointers
  /\ hd \in [Slots -> Addr \cup {NULL}]
  /\ S \subseteq Addr
  /\ \A c \in S : /\ sl[c] \in Slots /\ sl[F.next[c]] = sl[c]
                  /\ F.next[c] \in S /\ F.prev[F.next[c]] = c
                  /\ F.prev[c] \in S /\ F.next[F.prev[c]] = c
  /\ \A n \in Slots : hd[n] # NULL => hd[n] \in S /\ sl[hd[n]] = n
  /\ \A n \in Slots : Listed(F, hd, S, sl, n)

\* What the data of a chunk on no list holds makes no difference.
LEMMA ListsData ==
  ASSUME NEW F, NEW hd, NEW S, NEW sl, ListsOf(F, hd, S, sl),
         NEW c \in Addr \ S, NEW x \in Addr \cup {Data}, NEW y \in Addr \cup {Data}
  PROVE  ListsOf([next |-> [F.next EXCEPT ![c] = x],
                  prev |-> [F.prev EXCEPT ![c] = y]], hd, S, sl)
<1> DEFINE nxt == [F.next EXCEPT ![c] = x]
           prv == [F.prev EXCEPT ![c] = y]
<1>1. F.next \in [Addr -> Addr \cup {Data}] /\ F.prev \in [Addr -> Addr \cup {Data}]
  BY DEF ListsOf, FreePointers
<1>2. nxt \in [Addr -> Addr \cup {Data}] /\ prv \in [Addr -> Addr \cup {Data}]
  BY <1>1
<1>3. \A e \in S : nxt[e] = F.next[e] /\ prv[e] = F.prev[e]
  BY <1>1 DEF ListsOf
<1> HIDE DEF nxt, prv
<1>4. ASSUME NEW n \in Slots
      PROVE  Listed([next |-> nxt, prev |-> prv], hd, S, sl, n)
  <2> DEFINE R == OnSlot(S, sl, n)
  <2>1. OneRing(F.next, R) /\ (hd[n] = NULL => R = {})
    BY DEF ListsOf, Listed
  <2>2. \A e \in R : nxt[e] = F.next[e]
    BY <1>3 DEF OnSlot
  <2>3. OneRing(nxt, R)
    <3> HIDE DEF R
    <3> QED BY <2>1, <2>2, RingSame
  <2> QED BY <2>1, <2>3 DEF Listed
<1>5. ListsOf([next |-> nxt, prev |-> prv], hd, S, sl)
  BY <1>2, <1>3, <1>4 DEF ListsOf, FreePointers
<1> QED BY <1>5 DEF nxt, prv

\* dlist_init on the header of a chunk on no list.
LEMMA ListsInit ==
  ASSUME NEW F, NEW hd, NEW S, NEW sl, ListsOf(F, hd, S, sl), NEW c \in Addr \ S
  PROVE  LET G == dlist_init(F, c)
         IN  ListsOf(G, hd, S, sl) /\ G.next[c] = c /\ G.prev[c] = c
<1>1. F.next \in [Addr -> Addr \cup {Data}] /\ F.prev \in [Addr -> Addr \cup {Data}]
  BY DEF ListsOf, FreePointers
<1> QED BY <1>1, ListsData DEF dlist_init

\* A chunk may change its slot while it is on no list.
LEMMA ListsSlots ==
  ASSUME NEW F, NEW hd, NEW S, NEW sl, ListsOf(F, hd, S, sl),
         NEW tl, \A c \in S : tl[c] = sl[c]
  PROVE  ListsOf(F, hd, S, tl)
<1>1. \A n : OnSlot(S, tl, n) = OnSlot(S, sl, n)
  BY DEF OnSlot
<1> QED BY <1>1 DEF ListsOf, Listed

\* DLIST_REMOVE_FROM, and DLIST_POP when c is the head.
LEMMA ListsRemove ==
  ASSUME NEW F, NEW hd, NEW S, NEW sl, ListsOf(F, hd, S, sl), NEW c \in S
  PROVE  LET n == sl[c]
             G == dlist_remove(F, c)
         IN  /\ n \in Slots
             /\ ListsOf(G, [hd EXCEPT ![n] = dlist_remove_from_head(F, hd[n], c)],
                        S \ {c}, sl)
             /\ G.next[c] = c /\ G.prev[c] = c
<1> DEFINE n == sl[c]
           s == F.next[c]
           p == F.prev[c]
           nxt == [F.next EXCEPT ![p] = s, ![c] = c]
           prv == [F.prev EXCEPT ![s] = p, ![c] = c]
           top == dlist_remove_from_head(F, hd[n], c)
           hd2 == [hd EXCEPT ![n] = top]
<1>1. /\ F.next \in [Addr -> Addr \cup {Data}]
      /\ F.prev \in [Addr -> Addr \cup {Data}]
      /\ hd \in [Slots -> Addr \cup {NULL}]
      /\ S \subseteq Addr /\ s \in S /\ p \in S /\ n \in Slots
      /\ F.prev[s] = c /\ F.next[p] = c /\ sl[s] = n
  BY DEF ListsOf, FreePointers
<1>2. dlist_remove(F, c) = [next |-> nxt, prev |-> prv]
  BY DEF dlist_remove
<1>3. nxt \in [Addr -> Addr \cup {Data}] /\ prv \in [Addr -> Addr \cup {Data}]
  BY <1>1
<1>4. /\ nxt[c] = c /\ prv[c] = c
      /\ p # c => nxt[p] = s
      /\ s # c => prv[s] = p
      /\ \A e \in Addr \ {p, c} : nxt[e] = F.next[e]
      /\ \A e \in Addr \ {s, c} : prv[e] = F.prev[e]
  BY <1>1
<1>5. /\ top \in Addr \cup {NULL}
      /\ top # NULL => top \in S \ {c} /\ sl[top] = n
  BY <1>1 DEF ListsOf, dlist_remove_from_head, dlist_pop_head
<1>6. /\ hd2 \in [Slots -> Addr \cup {NULL}]
      /\ hd2[n] = top /\ \A m \in Slots \ {n} : hd2[m] = hd[m]
  BY <1>1, <1>5
<1> HIDE DEF nxt, prv, hd2, top
<1>7. ASSUME NEW m \in Slots, hd2[m] # NULL
      PROVE  hd2[m] \in S \ {c} /\ sl[hd2[m]] = m
  <2>1. CASE m = n
    BY <2>1, <1>5, <1>6, <1>7
  <2>2. CASE m # n
    BY <2>2, <1>6, <1>7 DEF ListsOf
  <2> QED BY <2>1, <2>2
<1>8. ASSUME NEW e \in S \ {c}
      PROVE  /\ sl[e] \in Slots /\ sl[nxt[e]] = sl[e]
             /\ nxt[e] \in S \ {c} /\ prv[nxt[e]] = e
             /\ prv[e] \in S \ {c} /\ nxt[prv[e]] = e
  <2>1. sl[e] \in Slots /\ sl[nxt[e]] = sl[e] /\ nxt[e] \in S \ {c} /\ prv[nxt[e]] = e
    <3>1. CASE e = p
      BY <3>1, <1>1, <1>4 DEF ListsOf
    <3>2. CASE e # p
      <4>1. /\ nxt[e] = F.next[e] /\ F.next[e] \in S /\ F.prev[F.next[e]] = e
            /\ F.next[e] # c /\ F.next[e] # s
            /\ sl[e] \in Slots /\ sl[F.next[e]] = sl[e]
        BY <3>2, <1>1, <1>4 DEF ListsOf
      <4> QED BY <4>1, <1>1, <1>4
    <3> QED BY <3>1, <3>2
  <2>2. prv[e] \in S \ {c} /\ nxt[prv[e]] = e
    <3>1. CASE e = s
      BY <3>1, <1>1, <1>4 DEF ListsOf
    <3>2. CASE e # s
      <4>1. /\ prv[e] = F.prev[e] /\ F.prev[e] \in S /\ F.next[F.prev[e]] = e
            /\ F.prev[e] # c /\ F.prev[e] # p
        BY <3>2, <1>1, <1>4 DEF ListsOf
      <4> QED BY <4>1, <1>1, <1>4
    <3> QED BY <3>1, <3>2
  <2> QED BY <2>1, <2>2
<1>9. ASSUME NEW m \in Slots
      PROVE  Listed([next |-> nxt, prev |-> prv], hd2, S \ {c}, sl, m)
  <2> DEFINE R == OnSlot(S, sl, m)
             Q == OnSlot(S \ {c}, sl, m)
  <2>1. OneRing(F.next, R) /\ (hd[m] = NULL => R = {}) /\ R \subseteq S
    BY DEF ListsOf, Listed, OnSlot
  <2>2. CASE m # n
    <3>1. Q = R /\ c \notin R /\ p \notin R
      BY <1>1, <2>2 DEF OnSlot, ListsOf
    <3>2. \A e \in R : nxt[e] = F.next[e]
      BY <1>1, <1>4, <2>1, <3>1
    <3>3. OneRing(nxt, R)
      <4> HIDE DEF R
      <4> QED BY <2>1, <3>2, RingSame
    <3> QED BY <1>6, <2>1, <2>2, <3>1, <3>3 DEF Listed
  <2>3. CASE m = n /\ p # c
    <3>1. c \in R /\ p \in R /\ Q = R \ {c} /\ s # c
      BY <1>1, <2>3 DEF OnSlot, ListsOf
    <3>2. \A e \in R : F.next[e] = c => e = p
      BY <2>1 DEF ListsOf
    <3>3. nxt[p] = F.next[c] /\ \A e \in R : e \notin {p, c} => nxt[e] = F.next[e]
      BY <1>1, <1>4, <2>1, <2>3
    <3>4. OneRing(nxt, R \ {c})
      <4> HIDE DEF R, Q, p, s
      <4>1. F.next[p] = c
        BY <1>1
      <4> QED BY <2>1, <2>3, <3>1, <3>2, <3>3, <4>1, RingLeaves
    <3>5. hd2[m] # NULL
      <4>1. hd[n] # NULL
        BY <2>1, <2>3, <3>1
      <4>2. top \in Addr
        BY <1>1, <3>1, <4>1 DEF top, dlist_remove_from_head, dlist_pop_head
      <4> QED BY <1>6, <2>3, <4>2, NullAssumption, AddrIs
    <3> QED BY <3>1, <3>4, <3>5 DEF Listed
  <2>4. CASE m = n /\ p = c
    <3>1. c \in R /\ F.next[c] = c
      BY <1>1, <2>4 DEF OnSlot
    <3>2. R = {c}
      <4>1. {c} \in SUBSET R /\ {c} # {} /\ \A e \in {c} : F.next[e] \in {c}
        BY <3>1
      <4> QED BY <2>1, <4>1 DEF OneRing
    <3>3. Q = {}
      BY <3>2 DEF OnSlot
    <3> QED BY <3>3, RingEmpty DEF Listed
  <2> QED BY <2>2, <2>3, <2>4
<1>10. ListsOf([next |-> nxt, prev |-> prv], hd2, S \ {c}, sl)
  BY <1>1, <1>3, <1>6, <1>7, <1>8, <1>9 DEF ListsOf, FreePointers
<1> QED BY <1>1, <1>2, <1>4, <1>10 DEF hd2, top

\* DLIST_PUSH of a node that is a ring of its own.
LEMMA ListsPush ==
  ASSUME NEW F, NEW hd, NEW S, NEW sl, ListsOf(F, hd, S, sl),
         NEW c \in Addr \ S, F.next[c] = c, F.prev[c] = c, sl[c] \in Slots
  PROVE  LET n == sl[c]
         IN  ListsOf(dlist_push(F, hd[n], c), [hd EXCEPT ![n] = c], S \cup {c}, sl)
<1> DEFINE n == sl[c]
           G == dlist_push(F, hd[n], c)
           hd2 == [hd EXCEPT ![n] = c]
<1>1. /\ F = [next |-> F.next, prev |-> F.prev]
      /\ F.next \in [Addr -> Addr \cup {Data}]
      /\ F.prev \in [Addr -> Addr \cup {Data}]
      /\ hd \in [Slots -> Addr \cup {NULL}]
      /\ S \subseteq Addr /\ c \in Addr /\ c \notin S
  BY DEF ListsOf, FreePointers
<1>2. /\ hd2 \in [Slots -> Addr \cup {NULL}]
      /\ hd2[n] = c /\ \A m \in Slots \ {n} : hd2[m] = hd[m]
  BY <1>1
<1> HIDE DEF hd2
<1>3. ASSUME NEW m \in Slots, hd2[m] # NULL
      PROVE  hd2[m] \in S \cup {c} /\ sl[hd2[m]] = m
  BY <1>2, <1>3 DEF ListsOf
<1>4. CASE hd[n] = NULL
  <2>1. G = F
    BY <1>4 DEF dlist_push
  <2>2. ASSUME NEW e \in S \cup {c}
        PROVE  /\ sl[e] \in Slots /\ sl[F.next[e]] = sl[e]
               /\ F.next[e] \in S \cup {c} /\ F.prev[F.next[e]] = e
               /\ F.prev[e] \in S \cup {c} /\ F.next[F.prev[e]] = e
    BY DEF ListsOf
  <2>3. ASSUME NEW m \in Slots
        PROVE  Listed(F, hd2, S \cup {c}, sl, m)
    <3>1. Listed(F, hd, S, sl, m)
      BY DEF ListsOf
    <3>2. CASE m # n
      <4>1. OnSlot(S \cup {c}, sl, m) = OnSlot(S, sl, m)
        BY <3>2 DEF OnSlot
      <4> QED BY <1>2, <3>1, <3>2, <4>1 DEF Listed
    <3>3. CASE m = n
      <4>1. OnSlot(S \cup {c}, sl, m) = {c}
        BY <1>4, <3>1, <3>3 DEF OnSlot, Listed
      <4>2. c # NULL
        BY AddrIs, NullAssumption
      <4> QED BY <1>2, <3>3, <4>1, <4>2, RingSingle DEF Listed
    <3> QED BY <3>2, <3>3
  <2>4. ListsOf(F, hd2, S \cup {c}, sl)
    BY <1>1, <1>2, <1>3, <2>2, <2>3 DEF ListsOf
  <2> QED BY <2>1, <2>4 DEF hd2
<1>5. CASE hd[n] # NULL
  <2> DEFINE h == hd[n]
             p == F.prev[h]
             nxt == [F.next EXCEPT ![p] = c, ![c] = h]
             prv == [F.prev EXCEPT ![c] = p, ![h] = c]
  <2>1. /\ h \in S /\ sl[h] = n /\ p \in S /\ F.next[p] = h /\ sl[p] = n
    BY <1>5 DEF ListsOf
  <2>2. G = [next |-> nxt, prev |-> prv]
    BY <1>5 DEF dlist_push, dlist_insert_before
  <2>3. nxt \in [Addr -> Addr \cup {Data}] /\ prv \in [Addr -> Addr \cup {Data}]
    BY <1>1, <2>1
  <2>4. /\ nxt[p] = c /\ nxt[c] = h /\ prv[c] = p /\ prv[h] = c
        /\ \A e \in Addr \ {p, c} : nxt[e] = F.next[e]
        /\ \A e \in Addr \ {h, c} : prv[e] = F.prev[e]
    BY <1>1, <2>1
  <2> HIDE DEF nxt, prv
  <2>5. ASSUME NEW e \in S \cup {c}
        PROVE  /\ sl[e] \in Slots /\ sl[nxt[e]] = sl[e]
               /\ nxt[e] \in S \cup {c} /\ prv[nxt[e]] = e
               /\ prv[e] \in S \cup {c} /\ nxt[prv[e]] = e
    <3>1. CASE e = c
      BY <3>1, <1>1, <2>1, <2>4
    <3>2. CASE e \in S
      <4>1. /\ sl[e] \in Slots /\ sl[nxt[e]] = sl[e]
            /\ nxt[e] \in S \cup {c} /\ prv[nxt[e]] = e
        <5>1. CASE e = p
          BY <5>1, <1>1, <2>1, <2>4
        <5>2. CASE e # p
          <6>1. /\ nxt[e] = F.next[e] /\ F.next[e] \in S /\ F.prev[F.next[e]] = e
                /\ F.next[e] # h
                /\ sl[e] \in Slots /\ sl[F.next[e]] = sl[e]
            BY <3>2, <5>2, <1>1, <2>1, <2>4 DEF ListsOf
          <6> QED BY <6>1, <1>1, <2>4
        <5> QED BY <5>1, <5>2
      <4>2. prv[e] \in S \cup {c} /\ nxt[prv[e]] = e
        <5>1. CASE e = h
          BY <5>1, <1>1, <2>1, <2>4
        <5>2. CASE e # h
          <6>1. /\ prv[e] = F.prev[e] /\ F.prev[e] \in S /\ F.next[F.prev[e]] = e
                /\ F.prev[e] # p
            BY <3>2, <5>2, <1>1, <2>1, <2>4 DEF ListsOf
          <6> QED BY <6>1, <1>1, <2>4
        <5> QED BY <5>1, <5>2
      <4> QED BY <4>1, <4>2
    <3> QED BY <3>1, <3>2
  <2>6. ASSUME NEW m \in Slots
        PROVE  Listed([next |-> nxt, prev |-> prv], hd2, S \cup {c}, sl, m)
    <3> DEFINE R == OnSlot(S, sl, m)
               Q == OnSlot(S \cup {c}, sl, m)
    <3>1. OneRing(F.next, R) /\ (hd[m] = NULL => R = {}) /\ R \subseteq S
      BY DEF ListsOf, Listed, OnSlot
    <3>2. CASE m # n
      <4>1. Q = R /\ p \notin R
        BY <2>1, <3>2 DEF OnSlot
      <4>2. \A e \in R : nxt[e] = F.next[e]
        BY <1>1, <2>4, <3>1, <4>1
      <4>3. OneRing(nxt, R)
        <5> HIDE DEF R
        <5> QED BY <3>1, <4>2, RingSame
      <4> QED BY <1>2, <3>1, <3>2, <4>1, <4>3 DEF Listed
    <3>3. CASE m = n
      <4>1. Q = R \cup {c} /\ c \notin R /\ p \in R
        BY <1>1, <2>1, <3>3 DEF OnSlot
      <4>2. \A e \in R : e # p => nxt[e] = F.next[e]
        BY <1>1, <2>4, <3>1, <4>1
      <4>3. nxt[p] = c /\ nxt[c] = F.next[p]
        BY <2>1, <2>4
      <4>4. OneRing(nxt, R \cup {c})
        <5> HIDE DEF R, Q, p, h
        <5> QED BY <3>1, <4>1, <4>2, <4>3, RingJoins
      <4>5. c # NULL
        BY AddrIs, NullAssumption
      <4> QED BY <1>2, <3>3, <4>1, <4>4, <4>5 DEF Listed
    <3> QED BY <3>2, <3>3
  <2>7. ListsOf([next |-> nxt, prev |-> prv], hd2, S \cup {c}, sl)
    BY <1>1, <1>2, <1>3, <2>3, <2>5, <2>6 DEF ListsOf, FreePointers
  <2> QED BY <2>2, <2>7 DEF hd2
<1> QED BY <1>4, <1>5

-----------------------------------------------------------------------------
(* Sums over finite sets.                                                  *)

\* The element a sum starts with.
First(s) == CHOOSE x \in s : TRUE

\* F[s] is the sum of w over s, for every part s of S.
Adds(F, w, S) ==
  /\ F = [s \in SUBSET S |-> F[s]]
  /\ F[{}] = 0
  /\ \A s \in SUBSET S : s # {} => F[s] = w[First(s)] + F[s \ {First(s)}]

\* A part of a finite set without one of its elements.
LEMMA Smaller ==
  ASSUME NEW S, IsFiniteSet(S), NEW s \in SUBSET S, NEW n \in Nat
  PROVE  /\ IsFiniteSet(s) /\ Cardinality(s) \in Nat
         /\ Cardinality(s) = 0 => s = {}
         /\ \A x \in s : Cardinality(s) = n + 1 => Cardinality(s \ {x}) = n
         /\ Cardinality(s) = n + 1 => s # {} /\ First(s) \in s
<1>1. IsFiniteSet(s)
  BY FS_Subset
<1>2. Cardinality(s) \in Nat /\ (Cardinality(s) = 0 <=> s = {})
  BY <1>1, FS_CardinalityType, FS_EmptySet
<1>3. ASSUME NEW x \in s, Cardinality(s) = n + 1
      PROVE  Cardinality(s \ {x}) = n
  <2>1. Cardinality(s \ {x}) = Cardinality(s) - 1
    BY <1>1, FS_RemoveElement
  <2> QED BY <1>3, <2>1
<1>4. s # {} => First(s) \in s
  BY DEF First
<1> QED BY <1>1, <1>2, <1>3, <1>4

\* Every finite set has such a function.
LEMMA AddsExists ==
  ASSUME NEW w, NEW S, IsFiniteSet(S)
  PROVE  \E F : Adds(F, w, S)
<1> DEFINE Small(n) == {s \in SUBSET S : Cardinality(s) <= n}
           Good(F, n) == /\ F = [s \in Small(n) |-> F[s]]
                         /\ F[{}] = 0
                         /\ \A s \in Small(n) :
                              s # {} => F[s] = w[First(s)] + F[s \ {First(s)}]
           T == {n \in Nat : \E F : Good(F, n)}
<1>0. {} \in SUBSET S /\ Cardinality({}) = 0
  BY FS_EmptySet
<1>1. 0 \in T
  <2> DEFINE G == [s \in Small(0) |-> 0]
  <2>1. \A s \in Small(0) : s = {}
    BY Smaller
  <2>2. {} \in Small(0)
    BY <1>0
  <2>3. Good(G, 0)
    BY <2>1, <2>2
  <2> QED BY <2>3
<1>2. ASSUME NEW n \in T
      PROVE  n + 1 \in T
  <2>1. n \in Nat
    OBVIOUS
  <2>2. PICK F : Good(F, n)
    OBVIOUS
  <2> DEFINE G == [s \in Small(n + 1) |->
                     IF Cardinality(s) = n + 1 THEN w[First(s)] + F[s \ {First(s)}]
                                               ELSE F[s]]
  <2>3. G = [s \in Small(n + 1) |-> G[s]]
    OBVIOUS
  <2>4. ASSUME NEW s \in Small(n + 1)
        PROVE  /\ s \in SUBSET S /\ Cardinality(s) \in Nat
               /\ Cardinality(s) = n + 1 \/ Cardinality(s) <= n
               /\ G[s] = IF Cardinality(s) = n + 1
                         THEN w[First(s)] + F[s \ {First(s)}] ELSE F[s]
    BY <2>1, Smaller
  <2>5. ASSUME NEW s \in SUBSET S, Cardinality(s) <= n
        PROVE  G[s] = F[s] /\ s \in Small(n + 1) /\ s \in Small(n)
    <3>1. Cardinality(s) \in Nat
      BY Smaller
    <3>2. s \in Small(n + 1) /\ Cardinality(s) # n + 1 /\ s \in Small(n)
      BY <2>1, <2>5, <3>1
    <3> QED BY <2>4, <3>2
  <2>6. G[{}] = 0
    <3>1. G[{}] = F[{}]
      BY <1>0, <2>1, <2>5
    <3> QED BY <2>2, <3>1
  <2>7. ASSUME NEW s \in Small(n + 1), s # {}
        PROVE  G[s] = w[First(s)] + G[s \ {First(s)}]
    <3>1. s \in SUBSET S
      OBVIOUS
    <3>2. PICK k \in Nat : Cardinality(s) = k + 1
      <4>1. Cardinality(s) \in Nat /\ Cardinality(s) # 0
        BY <2>7, <3>1, Smaller
      <4>2. Cardinality(s) - 1 \in Nat /\ Cardinality(s) = (Cardinality(s) - 1) + 1
        BY <4>1
      <4> QED BY <4>2
    <3>3. Cardinality(s \ {First(s)}) = k /\ s \ {First(s)} \in SUBSET S
      BY <3>1, <3>2, Smaller
    <3>4. k <= n
      BY <2>1, <2>4, <3>2
    <3>5. G[s \ {First(s)}] = F[s \ {First(s)}]
      BY <2>1, <2>5, <3>3, <3>4
    <3>6. CASE Cardinality(s) = n + 1
      BY <2>4, <3>5, <3>6
    <3>7. CASE Cardinality(s) <= n
      <4>1. G[s] = F[s] /\ s \in Small(n)
        BY <2>5, <3>1, <3>7
      <4>2. F[s] = w[First(s)] + F[s \ {First(s)}]
        BY <2>2, <2>7, <4>1
      <4> QED BY <3>5, <4>1, <4>2
    <3> QED BY <2>4, <3>6, <3>7
  <2> HIDE DEF G
  <2>8. Good(G, n + 1) /\ n + 1 \in Nat
    BY <2>1, <2>3, <2>6, <2>7
  <2> HIDE DEF Good
  <2> QED BY <2>8
<1>3. T = Nat
  <2> HIDE DEF T
  <2>1. T \in SUBSET Nat
    BY DEF T
  <2> QED BY <1>1, <1>2, <2>1, NatSetInduction
<1>4. PICK n \in Nat : n = Cardinality(S)
  BY FS_CardinalityType
<1>5. PICK F : Good(F, n)
  BY <1>3
<1>6. \A s \in SUBSET S : s \in Small(n)
  BY <1>4, FS_Subset
<1>7. Small(n) = SUBSET S
  BY <1>6
<1> HIDE DEF Small
<1> QED BY <1>5, <1>7 DEF Adds

\* SumFunctionOnSet gives the last value of one.
LEMMA AddsIs ==
  ASSUME NEW w, NEW S, IsFiniteSet(S)
  PROVE  \E F : Adds(F, w, S) /\ SumFunctionOnSet(w, S) = F[S]
<1> DEFINE iter == CHOOSE f : f = [s \in SUBSET S |->
                      IF s = {} THEN 0 ELSE w[First(s)] + f[s \ {First(s)}]]
<1>1. SumFunctionOnSet(w, S) = iter[S]
  BY DEF SumFunctionOnSet, FoldFunctionOnSet, MapThenFoldSet, First
<1>2. PICK F : Adds(F, w, S)
  BY AddsExists
<1>3. F = [s \in SUBSET S |-> IF s = {} THEN 0 ELSE w[First(s)] + F[s \ {First(s)}]]
  <2>1. \A s \in SUBSET S : F[s] = IF s = {} THEN 0 ELSE w[First(s)] + F[s \ {First(s)}]
    BY <1>2 DEF Adds
  <2>2. F = [s \in SUBSET S |-> F[s]]
    BY <1>2 DEF Adds
  <2> QED BY <2>1, <2>2
<1>4. iter = [s \in SUBSET S |-> IF s = {} THEN 0 ELSE w[First(s)] + iter[s \ {First(s)}]]
  BY <1>3
<1>5. Adds(iter, w, S)
  BY <1>4 DEF Adds
<1> QED BY <1>1, <1>5

\* It depends on the values that are added only.
LEMMA AddsSame ==
  ASSUME NEW S, IsFiniteSet(S), NEW w, NEW v, \A x \in S : v[x] = w[x],
         NEW F, Adds(F, w, S), NEW R, S \subseteq R, NEW G, Adds(G, v, R)
  PROVE  \A s \in SUBSET S : G[s] = F[s]
<1> DEFINE T == {n \in Nat : \A s \in SUBSET S : Cardinality(s) = n => G[s] = F[s]}
<1>1. 0 \in T
  <2>1. \A s \in SUBSET S : Cardinality(s) = 0 => s = {}
    BY Smaller
  <2> QED BY <2>1 DEF Adds
<1>2. ASSUME NEW n \in T
      PROVE  n + 1 \in T
  <2>1. n \in Nat
    OBVIOUS
  <2> SUFFICES ASSUME NEW s \in SUBSET S, Cardinality(s) = n + 1
               PROVE  G[s] = F[s]
    BY <2>1
  <2>2. s # {} /\ First(s) \in s /\ Cardinality(s \ {First(s)}) = n
    BY <2>1, Smaller
  <2>3. s \ {First(s)} \in SUBSET S /\ s \in SUBSET R /\ v[First(s)] = w[First(s)]
    BY <2>2
  <2>4. G[s \ {First(s)}] = F[s \ {First(s)}]
    BY <2>2, <2>3
  <2>5. F[s] = w[First(s)] + F[s \ {First(s)}]
    BY <2>2 DEF Adds
  <2>6. G[s] = v[First(s)] + G[s \ {First(s)}]
    BY <2>2, <2>3 DEF Adds
  <2> QED BY <2>3, <2>4, <2>5, <2>6
<1>3. T = Nat
  <2> HIDE DEF T
  <2>1. T \in SUBSET Nat
    BY DEF T
  <2> QED BY <1>1, <1>2, <2>1, NatSetInduction
<1>4. \A s \in SUBSET S : Cardinality(s) \in Nat
  BY Smaller
<1> QED BY <1>3, <1>4

\* The order does not matter: any element can be the last to be added.
LEMMA AddsJoin ==
  ASSUME NEW S, IsFiniteSet(S), NEW w, \A x \in S : w[x] \in Int,
         NEW F, Adds(F, w, S)
  PROVE  \A s \in SUBSET S : /\ F[s] \in Int
                             /\ \A x \in S \ s : F[s \cup {x}] = F[s] + w[x]
<1> DEFINE Good(s) == /\ F[s] \in Int
                      /\ \A x \in S \ s : F[s \cup {x}] = F[s] + w[x]
           T == {n \in Nat : \A s \in SUBSET S : Cardinality(s) = n => Good(s)}
<1>0. /\ F[{}] = 0
      /\ \A s \in SUBSET S : s # {} => F[s] = w[First(s)] + F[s \ {First(s)}]
  BY DEF Adds
<1>1. 0 \in T
  <2> SUFFICES ASSUME NEW s \in SUBSET S, Cardinality(s) = 0
               PROVE  Good(s)
    OBVIOUS
  <2>1. s = {}
    BY Smaller
  <2>2. ASSUME NEW x \in S
        PROVE  F[{x}] = w[x]
    <3>1. First({x}) = x /\ {x} \in SUBSET S /\ {x} # {} /\ {x} \ {x} = {}
      BY DEF First
    <3>2. F[{x}] = w[x] + F[{}]
      BY <1>0, <3>1
    <3> QED BY <1>0, <3>2
  <2>3. ASSUME NEW x \in S \ s
        PROVE  F[s \cup {x}] = F[s] + w[x]
    <3>1. s \cup {x} = {x} /\ w[x] \in Int
      BY <2>1
    <3> QED BY <1>0, <2>1, <2>2, <3>1
  <2>4. F[s] \in Int
    BY <1>0, <2>1
  <2> QED BY <2>3, <2>4
<1>2. ASSUME NEW n \in T
      PROVE  n + 1 \in T
  <2>1. n \in Nat /\ \A s \in SUBSET S : Cardinality(s) = n => Good(s)
    OBVIOUS
  <2> HIDE DEF T
  <2> SUFFICES ASSUME NEW s \in SUBSET S, Cardinality(s) = n + 1
               PROVE  Good(s)
    BY <2>1 DEF T
  <2>2. /\ s # {} /\ First(s) \in s /\ s \ {First(s)} \in SUBSET S
        /\ Cardinality(s \ {First(s)}) = n
    BY <2>1, Smaller
  <2>3. F[s] \in Int
    BY <1>0, <2>1, <2>2
  <2>4. ASSUME NEW x \in S \ s
        PROVE  F[s \cup {x}] = F[s] + w[x]
    <3> DEFINE t == s \cup {x}
               y == First(t)
    <3>0. t = s \cup {x}
      OBVIOUS
    <3> HIDE DEF t
    <3>1. t \in SUBSET S /\ t # {} /\ y \in t
      BY <3>0 DEF First
    <3>2. F[t] = w[y] + F[t \ {y}]
      BY <1>0, <3>1
    <3> HIDE DEF y
    <3>3. CASE y = x
      <4>1. t \ {y} = s
        BY <2>4, <3>0, <3>3
      <4>2. w[x] \in Int
        OBVIOUS
      <4>3. F[t] = w[x] + F[s]
        BY <3>2, <3>3, <4>1
      <4> QED BY <2>3, <3>0, <4>2, <4>3, <3>3, <4>1
    <3>4. CASE y # x
      <4> DEFINE u == s \ {y}
      <4>1. y \in s /\ y \in S /\ u \in SUBSET S /\ t \ {y} = u \cup {x} /\ s = u \cup {y}
        BY <3>0, <3>1, <3>4
      <4>2. Cardinality(u) = n
        BY <2>1, <4>1, Smaller
      <4>3. x \in S \ u /\ y \in S \ u
        BY <4>1
      <4> HIDE DEF u
      <4>4. /\ F[u] \in Int /\ F[u \cup {x}] = F[u] + w[x]
            /\ F[u \cup {y}] = F[u] + w[y]
        BY <2>1, <4>1, <4>2, <4>3
      <4>5. w[x] \in Int /\ w[y] \in Int
        BY <4>1
      <4>6. F[s] = F[u] + w[y] /\ F[t] = w[y] + (F[u] + w[x])
        BY <3>2, <4>1, <4>4
      <4> QED BY <3>0, <4>4, <4>5, <4>6
    <3> QED BY <3>3, <3>4
  <2> QED BY <2>3, <2>4
<1>3. T = Nat
  <2> HIDE DEF T
  <2>1. T \in SUBSET Nat
    BY DEF T
  <2> QED BY <1>1, <1>2, <2>1, NatSetInduction
<1>4. \A s \in SUBSET S : Cardinality(s) \in Nat
  BY Smaller
<1> QED BY <1>3, <1>4

\* The sum over nothing is 0.
LEMMA SumEmpty ==
  ASSUME NEW w
  PROVE  SumFunctionOnSet(w, {}) = 0
<1>1. IsFiniteSet({})
  BY FS_EmptySet
<1> QED BY <1>1, AddsIs DEF Adds

\* Sums of the same values are the same.
LEMMA SumSame ==
  ASSUME NEW S, IsFiniteSet(S), NEW w, NEW v, \A x \in S : v[x] = w[x]
  PROVE  SumFunctionOnSet(v, S) = SumFunctionOnSet(w, S)
<1>1. PICK F : Adds(F, w, S) /\ SumFunctionOnSet(w, S) = F[S]
  BY AddsIs
<1>2. PICK G : Adds(G, v, S) /\ SumFunctionOnSet(v, S) = G[S]
  BY AddsIs
<1>3. G[S] = F[S]
  BY <1>1, <1>2, AddsSame
<1> QED BY <1>1, <1>2, <1>3

\* A sum of integers is one, and with one element more it is that much more.
LEMMA SumJoins ==
  ASSUME NEW S, IsFiniteSet(S), NEW w, \A x \in S : w[x] \in Int
  PROVE  /\ SumFunctionOnSet(w, S) \in Int
         /\ \A x : x \notin S /\ w[x] \in Int =>
              SumFunctionOnSet(w, S \cup {x}) = SumFunctionOnSet(w, S) + w[x]
<1>1. PICK F : Adds(F, w, S) /\ SumFunctionOnSet(w, S) = F[S]
  BY AddsIs
<1>2. F[S] \in Int
  BY <1>1, AddsJoin
<1>3. ASSUME NEW x, x \notin S, w[x] \in Int
      PROVE  SumFunctionOnSet(w, S \cup {x}) = SumFunctionOnSet(w, S) + w[x]
  <2> DEFINE R == S \cup {x}
  <2>1. IsFiniteSet(R) /\ S \subseteq R /\ S \in SUBSET R /\ x \in R \ S
    BY <1>3, FS_AddElement
  <2>2. \A e \in R : w[e] \in Int
    BY <1>3
  <2>3. R = S \cup {x}
    OBVIOUS
  <2> HIDE DEF R
  <2>4. PICK G : Adds(G, w, R) /\ SumFunctionOnSet(w, R) = G[R]
    BY <2>1, AddsIs
  <2>5. G[R] = G[S] + w[x]
    BY <2>1, <2>2, <2>3, <2>4, AddsJoin
  <2>6. \A s \in SUBSET S : G[s] = F[s]
    BY <1>1, <2>1, <2>4, AddsSame
  <2> QED BY <1>1, <2>3, <2>4, <2>5, <2>6
<1> QED BY <1>1, <1>2, <1>3

-----------------------------------------------------------------------------
(* The heap.                                                               *)

\* The slot of every chunk by its present size.
slot_in(h) == [c \in Addr |-> memory_chunk_slot(memory_chunk_size(h, c))]

\* What every call finds and leaves behind: the two kinds of list, and no two
\* free chunks side by side.
HeapInv(h) ==
  /\ h \in HeapType
  /\ RingOf(h.all, Chunks(h))
  /\ h.used[first] = 1 /\ h.used[last] = 1
  /\ ListsOf(h.free, h.free_chunk, FreeChunks(h), slot_in(h))
  /\ \A c \in FreeChunks(h) : h.used[h.all.next[c]] = 1

\* Counters are size_t.
LEMMA CounterType == \A x \in Int : x % SIZE_MOD \in SizeT
BY Constants DEF SizeT

\* Every chunk but the last has room for the node of a free list, and so a
\* slot it belongs in.
LEMMA ChunkSize ==
  ASSUME NEW h, NEW C, RingOf(h.all, C), NEW c \in C, c # last
  PROVE  /\ c \in Int /\ h.all.next[c] \in Int
         /\ memory_chunk_size(h, c) \in Int
         /\ memory_chunk_size(h, c) >= MIN_SIZE /\ memory_chunk_size(h, c) >= 1
         /\ h.all.next[c] = c + HEADER_SIZE + memory_chunk_size(h, c)
         /\ slot_in(h)[c] = memory_chunk_slot(memory_chunk_size(h, c))
         /\ slot_in(h)[c] \in Slots
<1>1. c \in Addr /\ h.all.next[c] \in Addr
  BY DEF RingOf
<1>2. c \in Int /\ h.all.next[c] \in Int
  BY <1>1, AddrIs
<1>3. h.all.next[c] >= c + SIZEOF_CHUNK
  BY DEF RingOf
<1> DEFINE size == memory_chunk_size(h, c)
<1>4. /\ size \in Int /\ size >= MIN_SIZE /\ size >= 1
      /\ h.all.next[c] = c + HEADER_SIZE + size
  BY <1>2, <1>3, Constants DEF memory_chunk_size
<1>5. slot_in(h)[c] = memory_chunk_slot(size)
  BY <1>1 DEF slot_in
<1> QED BY <1>2, <1>4, <1>5, SlotInSlots

\* The chunks free finds next to a used one.
LEMMA Neighbours ==
  ASSUME NEW h, HeapInv(h), NEW c \in UsedChunks(h)
  PROVE  /\ c \in Addr /\ c \in Chunks(h) /\ c \notin {first, last}
         /\ h.used[c] = 1 /\ c \notin FreeChunks(h)
         /\ h.all.next[c] \in Chunks(h) /\ h.all.prev[h.all.next[c]] = c
         /\ h.all.prev[c] \in Chunks(h) /\ h.all.next[h.all.prev[c]] = c
         /\ h.all.prev[c] # last /\ h.all.next[c] # c /\ h.all.prev[c] # c
         /\ h.used[h.all.next[c]] \in {0, 1} /\ h.used[h.all.prev[c]] \in {0, 1}
<1>1. /\ c \in Addr /\ c \in Chunks(h) /\ c \notin {first, last}
      /\ h.used[c] = 1 /\ c \notin FreeChunks(h)
  BY DEF UsedChunks, Inner, Chunks, FreeChunks
<1>2. /\ h.all.next[c] \in Chunks(h) /\ h.all.prev[h.all.next[c]] = c
      /\ h.all.prev[c] \in Chunks(h) /\ h.all.next[h.all.prev[c]] = c
      /\ h.all.next[last] = first
  BY <1>1 DEF HeapInv, RingOf
<1>3. h.all.prev[c] # last /\ h.all.next[c] # c /\ h.all.prev[c] # c
  BY <1>1, <1>2 DEF Chunks
<1> QED BY <1>1, <1>2, <1>3 DEF HeapInv, HeapType, Chunks

\* What remove_free and push_free do to the lists and leave alone.
LEMMA RemoveFree ==
  ASSUME NEW h, h \in HeapType,
         NEW S, ListsOf(h.free, h.free_chunk, S, slot_in(h)), NEW c \in S,
         memory_chunk_size(h, c) \in Int
  PROVE  LET g == remove_free(h, c)
         IN  /\ g \in HeapType /\ g.all = h.all /\ g.used = h.used
             /\ ListsOf(g.free, g.free_chunk, S \ {c}, slot_in(h))
             /\ g.free.next[c] = c /\ g.free.prev[c] = c
<1> DEFINE n == slot_in(h)[c]
           g == remove_free(h, c)
           count == (h.mem_free - (memory_chunk_size(h, c) - HEADER_SIZE)) % SIZE_MOD
           links == dlist_remove(h.free, c)
           heads == [h.free_chunk EXCEPT ![n] =
                       dlist_remove_from_head(h.free, h.free_chunk[n], c)]
<1>1. /\ c \in Addr /\ n = memory_chunk_slot(memory_chunk_size(h, c))
      /\ n \in Slots
  BY DEF ListsOf, slot_in
<1>2. count \in SizeT
  BY CounterType, Constants DEF HeapType, SizeT
<1>3. /\ ListsOf(links, heads, S \ {c}, slot_in(h))
      /\ links.next[c] = c /\ links.prev[c] = c
  BY ListsRemove
<1>4. g = [h EXCEPT !.free = links, !.free_chunk = heads, !.mem_free = count]
  BY <1>1 DEF remove_free, HeapType
<1>5. links \in FreePointers /\ heads \in [Slots -> Addr \cup {NULL}]
  BY <1>3 DEF ListsOf
<1> HIDE DEF g, links, heads, count
<1>6. /\ g \in HeapType /\ g.all = h.all /\ g.used = h.used
      /\ g.free = links /\ g.free_chunk = heads
  BY <1>2, <1>4, <1>5 DEF HeapType
<1> QED BY <1>3, <1>6 DEF g

\* push_free puts a chunk that is alone on the list of its slot.
LEMMA PushFree ==
  ASSUME NEW h, h \in HeapType,
         NEW S, ListsOf(h.free, h.free_chunk, S, slot_in(h)),
         NEW c \in Addr \ S, h.free.next[c] = c, h.free.prev[c] = c,
         memory_chunk_size(h, c) \in Int, slot_in(h)[c] \in Slots
  PROVE  LET g == push_free(h, c)
         IN  /\ g \in HeapType /\ g.all = h.all /\ g.used = h.used
             /\ ListsOf(g.free, g.free_chunk, S \cup {c}, slot_in(h))
<1> DEFINE n == slot_in(h)[c]
           g == push_free(h, c)
           count == (h.mem_free + memory_chunk_size(h, c) - HEADER_SIZE) % SIZE_MOD
           links == dlist_push(h.free, h.free_chunk[n], c)
           heads == [h.free_chunk EXCEPT ![n] = c]
<1>1. n = memory_chunk_slot(memory_chunk_size(h, c))
  BY DEF slot_in
<1>2. count \in SizeT
  BY CounterType, Constants DEF HeapType, SizeT
<1>3. ListsOf(links, heads, S \cup {c}, slot_in(h))
  BY ListsPush
<1>4. g = [h EXCEPT !.free = links, !.free_chunk = heads, !.mem_free = count]
  BY <1>1 DEF push_free, HeapType
<1>5. links \in FreePointers /\ heads \in [Slots -> Addr \cup {NULL}]
  BY <1>3 DEF ListsOf
<1> HIDE DEF g, links, heads, count
<1>6. /\ g \in HeapType /\ g.all = h.all /\ g.used = h.used
      /\ g.free = links /\ g.free_chunk = heads
  BY <1>2, <1>4, <1>5 DEF HeapType
<1> QED BY <1>3, <1>6 DEF g

\* The counters play no part in HeapInv.
LEMMA CountersApart ==
  ASSUME NEW h, NEW g, HeapInv(h), g \in HeapType,
         g.all = h.all, g.used = h.used, g.free = h.free, g.free_chunk = h.free_chunk
  PROVE  /\ HeapInv(g)
         /\ Chunks(g) = Chunks(h) /\ FreeChunks(g) = FreeChunks(h)
         /\ UsedChunks(g) = UsedChunks(h)
<1>1. /\ Chunks(g) = Chunks(h) /\ FreeChunks(g) = FreeChunks(h)
      /\ UsedChunks(g) = UsedChunks(h)
  BY DEF Chunks, FreeChunks, UsedChunks, Inner
<1>2. slot_in(g) = slot_in(h)
  BY DEF slot_in, memory_chunk_size
<1> QED BY <1>1, <1>2 DEF HeapInv

\* free, first merge: the chunk after c, when it is free, becomes part of c.
LEMMA MergeNext ==
  ASSUME NEW h, HeapInv(h), NEW c \in UsedChunks(h),
         h.used[h.all.next[c]] = 0
  PROVE  LET g == merge_next(h, h.all.next[c])
         IN  /\ HeapInv(g)
             /\ UsedChunks(g) = UsedChunks(h)
             /\ \A e \in UsedChunks(h) \ {c} : g.all.next[e] = h.all.next[e]
             /\ g.all.prev[c] = h.all.prev[c] /\ g.used = h.used
             /\ g.used[g.all.next[c]] = 1
             /\ Chunks(g) = Chunks(h) \ {h.all.next[c]}
             /\ FreeChunks(g) = FreeChunks(h) \ {h.all.next[c]}
             /\ h.all.next[c] \in FreeChunks(h) \ {second}
             /\ g.all.next[c] = h.all.next[h.all.next[c]]
             /\ \A e \in Chunks(g) \ {c} : g.all.next[e] = h.all.next[e]
<1> DEFINE d == h.all.next[c]
           u == remove_free(h, d)
           g == merge_next(h, d)
           C == Chunks(h)
           ring == dlist_remove(h.all, d)
           meta == (u.mem_meta - HEADER_SIZE) % SIZE_MOD
           count == (u.mem_free + HEADER_SIZE) % SIZE_MOD
<1>1. /\ c \in Addr /\ c \in C /\ c \notin {first, last} /\ h.used[c] = 1
      /\ d \in C /\ h.all.prev[d] = c /\ d # c
  BY Neighbours
<1>2. d \in FreeChunks(h) /\ h.used[h.all.next[d]] = 1
  BY <1>1 DEF FreeChunks, HeapInv
<1>3. d \notin {first, second, last}
  <2>1. d # first /\ d # last
    BY <1>2 DEF FreeChunks, HeapInv
  <2>2. h.all.prev[second] = first
    BY DEF HeapInv, RingOf
  <2> QED BY <2>1, <2>2, <1>1
<1>4. memory_chunk_size(h, d) \in Int
  BY <1>1, <1>3, ChunkSize DEF HeapInv
<1>5. /\ u \in HeapType /\ u.all = h.all /\ u.used = h.used
      /\ ListsOf(u.free, u.free_chunk, FreeChunks(h) \ {d}, slot_in(h))
  BY <1>2, <1>4, RemoveFree DEF HeapInv
<1>6. /\ RingOf(ring, C \ {d})
      /\ ring.next[c] = h.all.next[d]
      /\ \A e \in C \ {d, c} : ring.next[e] = h.all.next[e]
  <2>1. RingOf(h.all, C)
    BY DEF HeapInv
  <2> HIDE DEF C, d
  <2> QED BY <2>1, <1>1, <1>3, RingRemove
<1>7. ring.prev[c] = h.all.prev[c]
  <2>1. h.all.next[d] # c
    <3>1. RingOf(h.all, C)
      BY DEF HeapInv
    <3>2. /\ c \in Int /\ d \in Int
          /\ d = c + HEADER_SIZE + memory_chunk_size(h, c)
          /\ memory_chunk_size(h, c) \in Int /\ memory_chunk_size(h, c) >= 1
      BY <3>1, <1>1, ChunkSize
    <3>3. /\ h.all.next[d] = d + HEADER_SIZE + memory_chunk_size(h, d)
          /\ memory_chunk_size(h, d) \in Int /\ memory_chunk_size(h, d) >= 1
      BY <3>1, <1>1, <1>3, ChunkSize
    <3> HIDE DEF d
    <3> QED BY <3>2, <3>3, Constants
  <2> QED BY <1>1, <2>1 DEF dlist_remove, HeapInv, RingOf, Pointers
<1>8. meta \in SizeT /\ count \in SizeT
  <2>1. u.mem_meta - HEADER_SIZE \in Int /\ u.mem_free + HEADER_SIZE \in Int
    BY <1>5, Constants DEF HeapType, SizeT
  <2> QED BY <2>1, CounterType
<1>9. g = [u EXCEPT !.all = ring, !.mem_meta = meta, !.mem_free = count]
  BY <1>5 DEF merge_next
<1>10. ring \in Pointers
  BY <1>6 DEF RingOf
<1> HIDE DEF g, u, ring, meta, count
<1>11. /\ g \in HeapType /\ g.all = ring /\ g.used = h.used
       /\ g.free = u.free /\ g.free_chunk = u.free_chunk
  BY <1>5, <1>8, <1>9, <1>10 DEF HeapType
<1>12. Chunks(g) = C \ {d}
  BY <1>6, <1>11, RingChunks DEF Chunks
<1>13. FreeChunks(g) = FreeChunks(h) \ {d} /\ UsedChunks(g) = UsedChunks(h)
  BY <1>2, <1>11, <1>12 DEF FreeChunks, UsedChunks, Inner
<1>14. \A e \in FreeChunks(g) : e \in C \ {d, c} /\ e \in Addr
  BY <1>1, <1>13 DEF FreeChunks, Chunks
<1>15. ListsOf(g.free, g.free_chunk, FreeChunks(g), slot_in(g))
  <2>1. \A e \in FreeChunks(g) : slot_in(g)[e] = slot_in(h)[e]
    BY <1>6, <1>11, <1>14 DEF slot_in, memory_chunk_size
  <2> QED BY <2>1, <1>5, <1>11, <1>13, ListsSlots
<1>16. \A e \in FreeChunks(g) : g.used[g.all.next[e]] = 1
  BY <1>6, <1>11, <1>13, <1>14 DEF HeapInv
<1>17. HeapInv(g)
  BY <1>6, <1>11, <1>12, <1>15, <1>16 DEF HeapInv
<1>18. \A e \in UsedChunks(h) \ {c} : g.all.next[e] = h.all.next[e]
  BY <1>2, <1>6, <1>11 DEF UsedChunks, Inner, FreeChunks
<1>19. \A e \in Chunks(g) \ {c} : g.all.next[e] = h.all.next[e]
  BY <1>6, <1>11, <1>12
<1> QED BY <1>2, <1>3, <1>6, <1>7, <1>11, <1>12, <1>13, <1>17, <1>18, <1>19 DEF g

\* free, second merge: c becomes part of the chunk before it, when that is free.
LEMMA MergeToPrev ==
  ASSUME NEW h, HeapInv(h), NEW c \in UsedChunks(h),
         h.used[h.all.prev[c]] = 0, h.used[h.all.next[c]] = 1
  PROVE  LET g == merge_to_prev(h, h.all.prev[c], c)
         IN  /\ HeapInv(g)
             /\ UsedChunks(g) = UsedChunks(h) \ {c}
             /\ \A e \in UsedChunks(h) \ {c} : g.all.next[e] = h.all.next[e]
             /\ Chunks(g) = Chunks(h) \ {c} /\ FreeChunks(g) = FreeChunks(h)
             /\ h.all.prev[c] \in FreeChunks(h) /\ h.all.next[h.all.prev[c]] = c
             /\ g.all.next[h.all.prev[c]] = h.all.next[c]
             /\ \A e \in Chunks(g) \ {h.all.prev[c]} : g.all.next[e] = h.all.next[e]
             /\ g.used = h.used
<1> DEFINE p == h.all.prev[c]
           C == Chunks(h)
           S == FreeChunks(h) \ {p}
           u == remove_free(h, p)
           ring == dlist_remove(h.all, c)
           v == [u EXCEPT !.all = ring]
           w == push_free(v, p)
           g == merge_to_prev(h, p, c)
           meta == (w.mem_meta - HEADER_SIZE) % SIZE_MOD
           count == (w.mem_free + HEADER_SIZE) % SIZE_MOD
<1>0. RingOf(h.all, C)
  BY DEF HeapInv
<1>1. /\ c \in Addr /\ c \in C /\ c \notin {first, last} /\ h.used[c] = 1
      /\ p \in C /\ h.all.next[p] = c /\ p # c /\ p # last
      /\ h.all.next[c] # c /\ c \notin FreeChunks(h)
  BY Neighbours
<1>2. p \in FreeChunks(h) /\ p # first /\ p \in Addr /\ p \notin S
  BY <1>1 DEF FreeChunks, Chunks, HeapInv
<1>3. c # second
  <2>1. h.all.prev[second] = first
    BY DEF HeapInv, RingOf
  <2> QED BY <2>1, <1>2
<1>4. memory_chunk_size(h, p) \in Int
  <2> HIDE DEF C, p
  <2> QED BY <1>0, <1>1, ChunkSize
<1>5. /\ u \in HeapType /\ u.all = h.all /\ u.used = h.used
      /\ ListsOf(u.free, u.free_chunk, S, slot_in(h))
      /\ u.free.next[p] = p /\ u.free.prev[p] = p
  <2>1. h \in HeapType /\ ListsOf(h.free, h.free_chunk, FreeChunks(h), slot_in(h))
    BY DEF HeapInv
  <2> HIDE DEF p
  <2> QED BY <2>1, <1>2, <1>4, RemoveFree
<1>6. /\ RingOf(ring, C \ {c})
      /\ ring.next[p] = h.all.next[c]
      /\ \A e \in C \ {c, p} : ring.next[e] = h.all.next[e]
  <2>1. RingOf(h.all, C)
    BY <1>0
  <2> HIDE DEF C
  <2> QED BY <2>1, <1>1, <1>3, RingRemove
<1>7. /\ v \in HeapType /\ v.all = ring /\ v.used = h.used
      /\ v.free = u.free /\ v.free_chunk = u.free_chunk
  <2>1. ring \in Pointers
    BY <1>6 DEF RingOf
  <2> HIDE DEF u, ring
  <2> QED BY <1>5, <2>1 DEF HeapType
<1>8. memory_chunk_size(v, p) \in Int /\ slot_in(v)[p] \in Slots
  <2>1. p \in C \ {c} /\ p # last
    BY <1>1
  <2> HIDE DEF u, ring, v, p, C
  <2> QED BY <2>1, <1>6, <1>7, ChunkSize
<1>9. \A e \in S : /\ e \in C \ {c, p} /\ e \in Addr
                   /\ ring.next[e] = h.all.next[e]
  BY <1>1, <1>6 DEF FreeChunks, Chunks
<1>10. \A e \in S : slot_in(v)[e] = slot_in(h)[e]
  <2> HIDE DEF S, u, ring, v
  <2> QED BY <1>7, <1>9 DEF slot_in, memory_chunk_size
<1>11. ListsOf(v.free, v.free_chunk, S, slot_in(v))
  <2> HIDE DEF S, u, v
  <2> QED BY <1>5, <1>7, <1>10, ListsSlots
<1>12. /\ w \in HeapType /\ w.all = ring /\ w.used = h.used
       /\ ListsOf(w.free, w.free_chunk, S \cup {p}, slot_in(v))
  <2>1. v.free.next[p] = p /\ v.free.prev[p] = p
    BY <1>5, <1>7
  <2> HIDE DEF S, u, ring, v, p
  <2> QED BY <2>1, <1>2, <1>7, <1>8, <1>11, PushFree
<1>13. meta \in SizeT /\ count \in SizeT
  <2>1. w.mem_meta \in SizeT /\ w.mem_free \in SizeT
    <3> HIDE DEF w
    <3> QED BY <1>12 DEF HeapType
  <2> HIDE DEF w
  <2>2. w.mem_meta - HEADER_SIZE \in Int /\ w.mem_free + HEADER_SIZE \in Int
    BY <2>1, Constants DEF SizeT
  <2> QED BY <2>2, CounterType
<1>14. g = [w EXCEPT !.mem_meta = meta, !.mem_free = count]
  BY <1>5 DEF merge_to_prev
<1> HIDE DEF u, ring, v, w, g, meta, count
<1>15. /\ g \in HeapType /\ g.all = ring /\ g.used = h.used
       /\ g.free = w.free /\ g.free_chunk = w.free_chunk
  BY <1>12, <1>13, <1>14 DEF HeapType
<1>16. Chunks(g) = C \ {c}
  BY <1>6, <1>15, RingChunks DEF Chunks
<1>17. FreeChunks(g) = S \cup {p} /\ UsedChunks(g) = UsedChunks(h) \ {c}
  BY <1>1, <1>2, <1>15, <1>16 DEF FreeChunks, UsedChunks, Inner
<1>18. slot_in(g) = slot_in(v)
  BY <1>7, <1>15 DEF slot_in, memory_chunk_size
<1>19. ASSUME NEW e \in FreeChunks(g)
       PROVE  g.used[g.all.next[e]] = 1
  <2>1. CASE e = p
    BY <2>1, <1>6, <1>15
  <2>2. CASE e # p
    <3>1. e \in FreeChunks(h) /\ g.all.next[e] = h.all.next[e]
      BY <2>2, <1>9, <1>15, <1>17
    <3>2. h.used[h.all.next[e]] = 1
      BY <3>1 DEF HeapInv
    <3> QED BY <3>1, <3>2, <1>15
  <2> QED BY <2>1, <2>2
<1>20. HeapInv(g)
  <2>1. h.used[first] = 1 /\ h.used[last] = 1
    BY DEF HeapInv
  <2> QED BY <2>1, <1>6, <1>12, <1>15, <1>16, <1>17, <1>18, <1>19 DEF HeapInv
<1>21. \A e \in UsedChunks(h) \ {c} : g.all.next[e] = h.all.next[e]
  BY <1>2, <1>6, <1>15 DEF UsedChunks, Inner, FreeChunks
<1>22. /\ Chunks(g) = Chunks(h) \ {c} /\ FreeChunks(g) = FreeChunks(h)
       /\ g.all.next[p] = h.all.next[c]
       /\ \A e \in Chunks(g) \ {p} : g.all.next[e] = h.all.next[e]
  BY <1>2, <1>6, <1>15, <1>16, <1>17
<1> QED BY <1>1, <1>2, <1>15, <1>17, <1>20, <1>21, <1>22 DEF g

\* free without a second merge: c becomes a free chunk of its own.
LEMMA Release ==
  ASSUME NEW h, HeapInv(h), NEW c \in UsedChunks(h),
         h.used[h.all.prev[c]] = 1, h.used[h.all.next[c]] = 1
  PROVE  LET g == release(h, c)
         IN  /\ HeapInv(g)
             /\ UsedChunks(g) = UsedChunks(h) \ {c}
             /\ FreeChunks(g) = FreeChunks(h) \cup {c}
             /\ g.all = h.all
             /\ g.used[c] = 0 /\ \A e \in Addr \ {c} : g.used[e] = h.used[e]
<1> DEFINE marks == [h.used EXCEPT ![c] = 0]
           links == dlist_init(h.free, c)
           v == [h EXCEPT !.used = marks, !.free = links]
           g == release(h, c)
<1>1. /\ c \in Addr /\ c \in Chunks(h) /\ c \notin {first, last}
      /\ h.used[c] = 1 /\ c \notin FreeChunks(h)
      /\ h.all.next[c] # c
  BY Neighbours
<1>2. /\ ListsOf(links, h.free_chunk, FreeChunks(h), slot_in(h))
      /\ links.next[c] = c /\ links.prev[c] = c
  BY <1>1, ListsInit DEF HeapInv
<1>3. /\ h.used \in [Addr -> {0, 1}] /\ marks \in [Addr -> {0, 1}]
      /\ marks[c] = 0 /\ \A e \in Addr \ {c} : marks[e] = h.used[e]
  BY <1>1 DEF HeapInv, HeapType
<1>4. g = push_free(v, c)
  BY DEF release
<1> HIDE DEF marks, links
<1>5. /\ v \in HeapType /\ v.all = h.all /\ v.used = marks
      /\ v.free = links /\ v.free_chunk = h.free_chunk
  <2>1. links \in FreePointers
    BY <1>2 DEF ListsOf
  <2> QED BY <1>3, <2>1 DEF HeapType, HeapInv
<1>6. slot_in(v) = slot_in(h)
  BY <1>5 DEF slot_in, memory_chunk_size
<1>7. memory_chunk_size(v, c) \in Int /\ slot_in(v)[c] \in Slots
  BY <1>1, <1>5, <1>6, ChunkSize DEF HeapInv
<1> HIDE DEF v, g
<1>8. /\ g \in HeapType /\ g.all = h.all /\ g.used = marks
      /\ ListsOf(g.free, g.free_chunk, FreeChunks(h) \cup {c}, slot_in(h))
  BY <1>1, <1>2, <1>4, <1>5, <1>6, <1>7, PushFree
<1>9. /\ Chunks(g) = Chunks(h) /\ Chunks(h) \subseteq Addr
      /\ slot_in(g) = slot_in(h)
  BY <1>8 DEF Chunks, slot_in, memory_chunk_size
<1>10. /\ FreeChunks(g) = FreeChunks(h) \cup {c}
       /\ UsedChunks(g) = UsedChunks(h) \ {c}
  BY <1>1, <1>3, <1>8, <1>9 DEF FreeChunks, UsedChunks, Inner
<1>11. ASSUME NEW e \in FreeChunks(g)
       PROVE  g.used[g.all.next[e]] = 1
  <2>1. /\ e \in Chunks(h) /\ h.all.next[e] \in Addr
        /\ h.all.prev[h.all.next[e]] = e
    BY <1>9 DEF HeapInv, RingOf, FreeChunks
  <2>2. h.all.next[e] # c /\ h.used[h.all.next[e]] = 1
    BY <2>1, <1>1, <1>10 DEF HeapInv, FreeChunks
  <2> QED BY <2>1, <2>2, <1>3, <1>8
<1>12. HeapInv(g)
  <2>1. g.used[first] = 1 /\ g.used[last] = 1
    BY <1>1, <1>3, <1>8 DEF HeapInv, RingOf
  <2> QED BY <2>1, <1>8, <1>9, <1>10, <1>11 DEF HeapInv
<1> QED BY <1>3, <1>8, <1>10, <1>12 DEF g

\* free: the chunk is no longer used, and the other used chunks have kept
\* their size.
LEMMA Freed ==
  ASSUME NEW h, HeapInv(h), NEW c \in UsedChunks(h)
  PROVE  LET g == freed(h, c)
         IN  /\ HeapInv(g)
             /\ UsedChunks(g) = UsedChunks(h) \ {c}
             /\ \A e \in UsedChunks(g) :
                  memory_chunk_size(g, e) = memory_chunk_size(h, e)
<1> DEFINE next == h.all.next[c]
           prev == h.all.prev[c]
           h1 == [h EXCEPT !.mem_used = (@ - memory_chunk_size(h, c)) % SIZE_MOD]
           h2 == IF h.used[next] = 0 THEN merge_next(h1, next) ELSE h1
           g == IF h.used[prev] = 0 THEN merge_to_prev(h2, prev, c) ELSE release(h2, c)
<1>1. /\ c \in Chunks(h) /\ c # last
      /\ h.used[next] \in {0, 1} /\ h.used[prev] \in {0, 1}
  BY Neighbours
<1>2. HeapInv(h1) /\ UsedChunks(h1) = UsedChunks(h) /\ h1.all = h.all /\ h1.used = h.used
  <2>1. memory_chunk_size(h, c) \in Int
    BY <1>1, ChunkSize DEF HeapInv
  <2>2. (h.mem_used - memory_chunk_size(h, c)) % SIZE_MOD \in SizeT
    BY <2>1, CounterType, Constants DEF HeapInv, HeapType, SizeT
  <2>3. /\ h1 \in HeapType /\ h1.all = h.all /\ h1.used = h.used
        /\ h1.free = h.free /\ h1.free_chunk = h.free_chunk
    BY <2>2 DEF HeapInv, HeapType
  <2> QED BY <2>3, CountersApart
<1> HIDE DEF h1
<1>3. /\ HeapInv(h2) /\ UsedChunks(h2) = UsedChunks(h) /\ h2.used = h.used
      /\ h2.all.prev[c] = prev /\ h2.used[h2.all.next[c]] = 1
      /\ \A e \in UsedChunks(h) \ {c} : h2.all.next[e] = h.all.next[e]
  <2>1. CASE h.used[next] = 0
    BY <2>1, <1>2, MergeNext
  <2>2. CASE h.used[next] # 0
    BY <2>2, <1>1, <1>2
  <2> QED BY <2>1, <2>2
<1> HIDE DEF h2
<1>4. /\ HeapInv(g) /\ UsedChunks(g) = UsedChunks(h) \ {c}
      /\ \A e \in UsedChunks(h) \ {c} : g.all.next[e] = h.all.next[e]
  <2>1. CASE h.used[prev] = 0
    BY <2>1, <1>3, MergeToPrev
  <2>2. CASE h.used[prev] # 0
    BY <2>2, <1>1, <1>3, Release
  <2> QED BY <2>1, <2>2
<1>5. freed(h, c) = g
  BY DEF freed, h1, h2
<1> HIDE DEF g
<1> QED BY <1>4, <1>5 DEF memory_chunk_size

\* Between the time malloc takes c off its free list and marks it used.
TakenInv(h, c) ==
  /\ h \in HeapType
  /\ RingOf(h.all, Chunks(h))
  /\ h.used[first] = 1 /\ h.used[last] = 1
  /\ c \in FreeChunks(h)
  /\ ListsOf(h.free, h.free_chunk, FreeChunks(h) \ {c}, slot_in(h))
  /\ \A e \in FreeChunks(h) \ {c} : h.used[h.all.next[e]] = 1

\* malloc takes the first chunk of list n.
LEMMA Pop ==
  ASSUME NEW h, HeapInv(h), NEW n \in Slots, h.free_chunk[n] # NULL
  PROVE  LET c == taken(h, n)
             g == [h EXCEPT !.free = dlist_remove(@, c),
                            !.free_chunk[n] = dlist_pop_head(h.free, c)]
         IN  /\ TakenInv(g, c) /\ g.all = h.all
             /\ g.used[g.all.next[c]] = 1
             /\ UsedChunks(g) = UsedChunks(h) /\ FreeChunks(g) = FreeChunks(h)
             /\ memory_chunk_slot(memory_chunk_size(h, c)) = n
<1> DEFINE c == h.free_chunk[n]
           links == dlist_remove(h.free, c)
           heads == [h.free_chunk EXCEPT ![n] = dlist_pop_head(h.free, c)]
           g == [h EXCEPT !.free = links, !.free_chunk = heads]
<1>1. c \in FreeChunks(h) /\ slot_in(h)[c] = n
  BY DEF HeapInv, ListsOf
<1>2. c \in Addr
  BY <1>1 DEF FreeChunks, Chunks
<1>3. ListsOf(links, heads, FreeChunks(h) \ {c}, slot_in(h))
  <2>1. dlist_remove_from_head(h.free, h.free_chunk[n], c) = dlist_pop_head(h.free, c)
    BY DEF dlist_remove_from_head
  <2>2. ListsOf(h.free, h.free_chunk, FreeChunks(h), slot_in(h))
    BY DEF HeapInv
  <2> QED BY <1>1, <2>1, <2>2, ListsRemove
<1>4. links \in FreePointers /\ heads \in [Slots -> Addr \cup {NULL}]
  BY <1>3 DEF ListsOf
<1>5. h \in HeapType
  BY DEF HeapInv
<1> HIDE DEF links, heads
<1>6. /\ g \in HeapType /\ g.all = h.all /\ g.used = h.used
      /\ g.free = links /\ g.free_chunk = heads
  BY <1>4, <1>5 DEF HeapType
<1> HIDE DEF g
<1>7. /\ Chunks(g) = Chunks(h) /\ FreeChunks(g) = FreeChunks(h)
      /\ UsedChunks(g) = UsedChunks(h) /\ slot_in(g) = slot_in(h)
  BY <1>6 DEF Chunks, FreeChunks, UsedChunks, Inner, slot_in, memory_chunk_size
<1>8. TakenInv(g, c) /\ g.used[g.all.next[c]] = 1
  BY <1>1, <1>3, <1>6, <1>7 DEF TakenInv, HeapInv
<1>9. g = [h EXCEPT !.free = dlist_remove(@, c),
                    !.free_chunk[n] = dlist_pop_head(h.free, c)]
  BY <1>5 DEF g, links, heads, HeapType
<1>10. memory_chunk_slot(memory_chunk_size(h, c)) = n
  BY <1>1, <1>2 DEF slot_in
<1> QED BY <1>6, <1>7, <1>8, <1>9, <1>10 DEF taken

\* malloc cuts off what it does not need of c.
LEMMA Split ==
  ASSUME NEW h, NEW c, TakenInv(h, c),
         h.used[h.all.next[c]] = 1,
         NEW size \in Int, Aligned(size), MIN_SIZE <= size,
         size + SIZEOF_CHUNK <= memory_chunk_size(h, c)
  PROVE  LET g == split(h, c, size)
         IN  /\ TakenInv(g, c)
             /\ UsedChunks(g) = UsedChunks(h)
             /\ memory_chunk_size(g, c) = size
             /\ \A e \in UsedChunks(h) : g.all.next[e] = h.all.next[e]
             /\ LET d == c + HEADER_SIZE + size
                IN  /\ d \notin Chunks(h)
                    /\ Chunks(g) = Chunks(h) \cup {d}
                    /\ FreeChunks(g) = FreeChunks(h) \cup {d}
                    /\ g.used[d] = 0 /\ \A e \in Addr \ {d} : g.used[e] = h.used[e]
                    /\ g.all.next[c] = d /\ g.all.next[d] = h.all.next[c]
             /\ \A e \in Chunks(h) \ {c} : g.all.next[e] = h.all.next[e]
<1> DEFINE C == Chunks(h)
           S == FreeChunks(h) \ {c}
           d == c + HEADER_SIZE + size
           ring == dlist_insert_after(dlist_init(h.all, d), c, d)
           marks == [h.used EXCEPT ![d] = 0]
           links == dlist_init(h.free, d)
           v == [h EXCEPT !.all = ring, !.used = marks, !.free = links]
           w == push_free(v, d)
           meta == (w.mem_meta + HEADER_SIZE) % SIZE_MOD
           g == [w EXCEPT !.mem_meta = meta]
<1>0. RingOf(h.all, C) /\ h \in HeapType
  BY DEF TakenInv
<1>1. /\ c \in C /\ c \in Addr /\ c # last /\ h.used[c] = 0
      /\ h.used[h.all.next[c]] = 1 /\ C \subseteq Addr
      /\ h.all.next[c] \in C
  BY DEF TakenInv, FreeChunks, Chunks, RingOf
<1>2. /\ c \in Int /\ h.all.next[c] \in Int /\ Aligned(c)
      /\ memory_chunk_size(h, c) \in Int
      /\ h.all.next[c] = c + HEADER_SIZE + memory_chunk_size(h, c)
  BY <1>0, <1>1, ChunkSize, AddrIs
<1>3. d \in Int /\ c + SIZEOF_CHUNK <= d /\ d + SIZEOF_CHUNK <= h.all.next[c]
  BY <1>2, Constants
<1>4. d \in Addr
  <2>1. Aligned(c + HEADER_SIZE)
    BY <1>2, Constants, AlignedSum
  <2>2. Aligned(d)
    <3>1. c + HEADER_SIZE \in Int
      BY <1>2, Constants
    <3> QED BY <2>1, <3>1, AlignedSum
  <2>3. first <= d /\ d <= last
    <3>1. first <= c /\ h.all.next[c] <= last
      BY <1>1, AddrIs
    <3> QED BY <3>1, <1>2, <1>3, Constants, Ends
  <2> QED BY <1>3, <2>2, <2>3, AddrIs
<1> HIDE DEF d, C
<1>5. /\ d \notin C /\ RingOf(ring, C \cup {d})
      /\ ring.next[c] = d /\ ring.next[d] = h.all.next[c]
      /\ \A e \in C \ {c} : ring.next[e] = h.all.next[e]
  BY <1>0, <1>1, <1>3, <1>4, RingInsert
<1>6. S \subseteq C \ {c} /\ d \in Addr \ S
  BY <1>4, <1>5 DEF FreeChunks, C
<1>7. /\ ListsOf(links, h.free_chunk, S, slot_in(h))
      /\ links.next[d] = d /\ links.prev[d] = d
  BY <1>6, ListsInit DEF TakenInv
<1>8. /\ h.used \in [Addr -> {0, 1}] /\ marks \in [Addr -> {0, 1}]
      /\ marks[d] = 0 /\ \A e \in Addr \ {d} : marks[e] = h.used[e]
  BY <1>0, <1>4 DEF HeapType
<1>9. ring \in Pointers /\ links \in FreePointers
  BY <1>5, <1>7 DEF RingOf, ListsOf
<1>10. split(h, c, size) = g
  BY <1>0 DEF split, HeapType, d
<1> HIDE DEF ring, marks, links
<1>11. /\ v \in HeapType /\ v.all = ring /\ v.used = marks
       /\ v.free = links /\ v.free_chunk = h.free_chunk
  BY <1>0, <1>8, <1>9 DEF HeapType
<1>12. /\ memory_chunk_size(v, d) \in Int /\ slot_in(v)[d] \in Slots
  <2>1. d # last
    BY <1>1, <1>3, Constants, <1>5, <1>0 DEF RingOf
  <2> HIDE DEF v
  <2> QED BY <2>1, <1>5, <1>11, ChunkSize
<1> HIDE DEF v
<1>13. \A e \in S : slot_in(v)[e] = slot_in(h)[e]
  BY <1>1, <1>5, <1>6, <1>11 DEF slot_in, memory_chunk_size
<1>14. /\ w \in HeapType /\ w.all = ring /\ w.used = marks
       /\ ListsOf(w.free, w.free_chunk, S \cup {d}, slot_in(v))
  <2>1. ListsOf(v.free, v.free_chunk, S, slot_in(v))
    BY <1>7, <1>11, <1>13, ListsSlots
  <2> HIDE DEF S
  <2> QED BY <2>1, <1>6, <1>7, <1>11, <1>12, PushFree
<1> HIDE DEF w
<1>15. meta \in SizeT
  <2>1. w.mem_meta + HEADER_SIZE \in Int
    BY <1>14, Constants DEF HeapType, SizeT
  <2> QED BY <2>1, CounterType
<1> HIDE DEF meta
<1>16. /\ g \in HeapType /\ g.all = ring /\ g.used = marks
       /\ g.free = w.free /\ g.free_chunk = w.free_chunk
  BY <1>14, <1>15 DEF HeapType
<1> HIDE DEF g
<1>17. Chunks(g) = C \cup {d}
  BY <1>5, <1>16, RingChunks DEF Chunks
<1>18. FreeChunks(g) = FreeChunks(h) \cup {d} /\ UsedChunks(g) = UsedChunks(h)
  BY <1>1, <1>4, <1>5, <1>8, <1>16, <1>17 DEF FreeChunks, UsedChunks, Inner, C
<1>19. c \in FreeChunks(h) /\ FreeChunks(g) \ {c} = S \cup {d} /\ c \in FreeChunks(g)
  BY <1>5, <1>18, <1>1 DEF TakenInv
<1>20. slot_in(g) = slot_in(v)
  BY <1>11, <1>16 DEF slot_in, memory_chunk_size
<1>21. ASSUME NEW e \in FreeChunks(g) \ {c}
       PROVE  g.used[g.all.next[e]] = 1
  <2>1. CASE e = d
    BY <2>1, <1>1, <1>5, <1>8, <1>16
  <2>2. CASE e # d
    <3>1. e \in FreeChunks(h) \ {c} /\ e \in C \ {c}
      BY <2>2, <1>18 DEF FreeChunks, C
    <3>2. /\ g.all.next[e] = h.all.next[e] /\ h.all.next[e] \in C
          /\ h.used[h.all.next[e]] = 1
      BY <3>1, <1>0, <1>5, <1>16 DEF TakenInv, RingOf
    <3> QED BY <3>2, <1>1, <1>5, <1>8, <1>16
  <2> QED BY <2>1, <2>2
<1>22. TakenInv(g, c)
  <2>1. g.used[first] = 1 /\ g.used[last] = 1
    BY <1>0, <1>1, <1>5, <1>8, <1>16 DEF TakenInv, RingOf
  <2> QED BY <2>1, <1>5, <1>14, <1>16, <1>17, <1>19, <1>20, <1>21 DEF TakenInv
<1>23. memory_chunk_size(g, c) = size
  BY <1>2, <1>5, <1>16, Constants DEF memory_chunk_size, d
<1>24. \A e \in UsedChunks(h) : g.all.next[e] = h.all.next[e]
  BY <1>1, <1>5, <1>16 DEF UsedChunks, Inner, C
<1>25. /\ d \notin Chunks(h)
       /\ Chunks(g) = Chunks(h) \cup {d} /\ FreeChunks(g) = FreeChunks(h) \cup {d}
       /\ g.all.next[c] = d /\ g.all.next[d] = h.all.next[c]
       /\ \A e \in Chunks(h) \ {c} : g.all.next[e] = h.all.next[e]
  BY <1>5, <1>16, <1>17, <1>18 DEF C
<1>26. g.used[d] = 0 /\ \A e \in Addr \ {d} : g.used[e] = h.used[e]
  BY <1>8, <1>16
<1> QED BY <1>10, <1>18, <1>22, <1>23, <1>24, <1>25, <1>26 DEF d

\* malloc marks c used.
LEMMA HandOut ==
  ASSUME NEW h, NEW c, TakenInv(h, c), NEW size2 \in Int, NEW len \in Int
  PROVE  LET g == hand_out(h, c, size2, len)
         IN  /\ HeapInv(g) /\ g.all = h.all
             /\ UsedChunks(g) = UsedChunks(h) \cup {c}
             /\ FreeChunks(g) = FreeChunks(h) \ {c}
             /\ g.used[c] = 1 /\ \A e \in Addr \ {c} : g.used[e] = h.used[e]
<1> DEFINE marks == [h.used EXCEPT ![c] = 1]
           nxt == [h.free.next EXCEPT ![c] = Data]
           prv == [h.free.prev EXCEPT ![c] = Data]
           links == [next |-> nxt, prev |-> prv]
           count == (h.mem_free - size2) % SIZE_MOD
           inuse == (h.mem_used + size2 - len - HEADER_SIZE) % SIZE_MOD
           g == hand_out(h, c, size2, len)
<1>0. h \in HeapType
  BY DEF TakenInv
<1>1. /\ c \in FreeChunks(h) /\ c \in Chunks(h) /\ c \in Addr /\ h.used[c] = 0
      /\ c \notin {first, last}
  BY DEF TakenInv, FreeChunks, Chunks
<1>2. count \in SizeT /\ inuse \in SizeT
  <2>1. h.mem_free \in Int /\ h.mem_used \in Int /\ HEADER_SIZE \in Int
    BY <1>0, Constants DEF HeapType, SizeT
  <2>2. /\ h.mem_free - size2 \in Int
        /\ h.mem_used + size2 - len - HEADER_SIZE \in Int
    BY <2>1
  <2> QED BY <2>2, CounterType
<1>3. ListsOf(links, h.free_chunk, FreeChunks(h) \ {c}, slot_in(h))
  BY <1>1, ListsData DEF TakenInv
<1>4. /\ h.used \in [Addr -> {0, 1}] /\ marks \in [Addr -> {0, 1}]
      /\ marks[c] = 1 /\ \A e \in Addr \ {c} : marks[e] = h.used[e]
  BY <1>0, <1>1 DEF HeapType
<1>5. g = [h EXCEPT !.used = marks, !.mem_free = count, !.mem_used = inuse,
                    !.free = links]
  BY <1>0 DEF hand_out, overwritten, HeapType
<1>6. links \in FreePointers
  BY <1>3 DEF ListsOf
<1> HIDE DEF marks, links, count, inuse, g
<1>7. /\ g \in HeapType /\ g.all = h.all /\ g.used = marks
      /\ g.free = links /\ g.free_chunk = h.free_chunk
  BY <1>0, <1>2, <1>4, <1>5, <1>6 DEF HeapType
<1>8. /\ Chunks(g) = Chunks(h) /\ Chunks(h) \subseteq Addr
      /\ slot_in(g) = slot_in(h)
  BY <1>7 DEF Chunks, slot_in, memory_chunk_size
<1>9. /\ FreeChunks(g) = FreeChunks(h) \ {c}
      /\ UsedChunks(g) = UsedChunks(h) \cup {c}
  BY <1>1, <1>4, <1>7, <1>8 DEF FreeChunks, UsedChunks, Inner
<1>10. ASSUME NEW e \in FreeChunks(g)
       PROVE  g.used[g.all.next[e]] = 1
  <2>1. h.all.next[e] \in Addr /\ h.used[h.all.next[e]] = 1
    BY <1>9, <1>8 DEF TakenInv, RingOf, FreeChunks
  <2> QED BY <2>1, <1>4, <1>7
<1>11. HeapInv(g)
  <2>1. g.used[first] = 1 /\ g.used[last] = 1
    BY <1>1, <1>4, <1>7 DEF TakenInv, RingOf
  <2> QED BY <2>1, <1>3, <1>7, <1>8, <1>9, <1>10 DEF HeapInv, TakenInv
<1> QED BY <1>4, <1>7, <1>9, <1>11 DEF g

\* The size malloc works with is that of a chunk, and unless rounding it up
\* leaves size_t it is no less than the size asked for.
LEMMA Rounded ==
  ASSUME NEW size \in Nat
  PROVE  /\ rounded(size) \in Int /\ Aligned(rounded(size))
         /\ rounded(size) >= MIN_SIZE
         /\ size + ALIGN - 1 < SIZE_MOD => size <= rounded(size)
<1> DEFINE up == (size + ALIGN - 1) % SIZE_MOD
<1>1. /\ ALIGN \in Nat \ {0} /\ SIZE_MOD \in Nat \ {0}
      /\ MIN_SIZE \in Int /\ Aligned(MIN_SIZE)
      /\ size + ALIGN - 1 \in Nat
  BY Constants
<1>2. up \in Int /\ (size + ALIGN - 1 < SIZE_MOD => up = size + ALIGN - 1)
  BY <1>1
<1> HIDE DEF up
<1>3. /\ AlignDown(up) \in Int /\ Aligned(AlignDown(up))
      /\ up < AlignDown(up) + ALIGN
  BY <1>2, AlignDownIs
<1>4. rounded(size) = IF AlignDown(up) < MIN_SIZE THEN MIN_SIZE ELSE AlignDown(up)
  BY DEF rounded, up
<1>5. size + ALIGN - 1 < SIZE_MOD => size <= AlignDown(up)
  BY <1>1, <1>2, <1>3
<1> HIDE DEF AlignDown
<1> QED BY <1>1, <1>3, <1>4, <1>5

\* malloc: a free chunk that is large enough is now used, and the other used
\* chunks have kept their size.
LEMMA Take ==
  ASSUME NEW h, HeapInv(h), NEW size \in Nat, NEW n \in candidates(h, size)
  PROVE  LET c == taken(h, n)
             g == take(h, n, size)
         IN  /\ HeapInv(g)
             /\ c \notin UsedChunks(h)
             /\ UsedChunks(g) = UsedChunks(h) \cup {c}
             /\ memory_chunk_size(g, c) >= rounded(size)
             /\ \A e \in UsedChunks(h) :
                  memory_chunk_size(g, e) = memory_chunk_size(h, e)
<1> DEFINE c == taken(h, n)
           r == rounded(size)
           size2 == memory_chunk_size(h, c)
           popped == [h EXCEPT !.free = dlist_remove(@, c),
                               !.free_chunk[n] = dlist_pop_head(h.free, c)]
           rest == IF cuts(size, size2) THEN split(popped, c, r) ELSE popped
           len == IF cuts(size, size2) THEN size2 - r - HEADER_SIZE ELSE 0
           g == hand_out(rest, c, size2, len)
<1>1. /\ n \in Slots /\ h.free_chunk[n] # NULL
      /\ n >= memory_chunk_slot(r - 1) + 1
  BY DEF candidates
<1>2. r \in Int /\ Aligned(r) /\ r >= MIN_SIZE
  BY Rounded
<1>3. /\ TakenInv(popped, c) /\ popped.all = h.all
      /\ popped.used[popped.all.next[c]] = 1
      /\ UsedChunks(popped) = UsedChunks(h)
      /\ memory_chunk_slot(size2) = n
  BY <1>1, Pop
<1> HIDE DEF popped, r
<1>4. c \in Chunks(popped) /\ c # last /\ c \notin UsedChunks(h)
  BY <1>3 DEF TakenInv, FreeChunks, UsedChunks
<1>5. size2 \in Int /\ size2 = memory_chunk_size(popped, c)
  <2>1. RingOf(popped.all, Chunks(popped))
    BY <1>3 DEF TakenInv
  <2>2. size2 = memory_chunk_size(popped, c)
    BY <1>3 DEF memory_chunk_size
  <2> QED BY <2>1, <2>2, <1>4, ChunkSize
<1> HIDE DEF c, size2
<1>6. size2 >= r
  <2> SUFFICES ASSUME size2 <= r - 1
               PROVE  FALSE
    BY <1>2, <1>5
  <2>1. /\ memory_chunk_slot(size2) \in Int
        /\ memory_chunk_slot(size2) <= memory_chunk_slot(r - 1)
    BY <1>2, <1>5, SlotMonotonic
  <2>2. memory_chunk_slot(r - 1) \in Int
    BY <1>2, SlotMonotonic
  <2> QED BY <2>1, <2>2, <1>1, <1>3 DEF Slots
<1>7. /\ TakenInv(rest, c) /\ UsedChunks(rest) = UsedChunks(h)
      /\ memory_chunk_size(rest, c) >= r
      /\ \A e \in UsedChunks(h) : rest.all.next[e] = h.all.next[e]
  <2>1. CASE cuts(size, size2)
    <3>1. r + SIZEOF_CHUNK <= memory_chunk_size(popped, c)
      BY <2>1, <1>5 DEF cuts, r
    <3>2. /\ TakenInv(split(popped, c, r), c)
          /\ UsedChunks(split(popped, c, r)) = UsedChunks(popped)
          /\ memory_chunk_size(split(popped, c, r), c) = r
          /\ \A e \in UsedChunks(popped) :
               split(popped, c, r).all.next[e] = popped.all.next[e]
      BY <3>1, <1>2, <1>3, Split
    <3> QED BY <2>1, <3>2, <1>2, <1>3
  <2>2. CASE ~cuts(size, size2)
    BY <2>2, <1>3, <1>5, <1>6
  <2> QED BY <2>1, <2>2
<1>8. len \in Int
  BY <1>2, <1>5, Constants
<1>9. take(h, n, size) = g
  BY DEF take, popped, r, c, size2
<1> HIDE DEF rest, len
<1>10. HeapInv(g) /\ g.all = rest.all /\ UsedChunks(g) = UsedChunks(rest) \cup {c}
  BY <1>5, <1>7, <1>8, HandOut
<1> HIDE DEF g
<1>11. /\ memory_chunk_size(g, c) = memory_chunk_size(rest, c)
       /\ \A e \in UsedChunks(h) : memory_chunk_size(g, e) = memory_chunk_size(h, e)
  BY <1>7, <1>10 DEF memory_chunk_size
<1> QED BY <1>4, <1>7, <1>9, <1>10, <1>11 DEF c, r

\* memory_init: one free chunk between the sentinels.
LEMMA Initial ==
  /\ HeapInv(memory_init) /\ UsedChunks(memory_init) = {}
  /\ Chunks(memory_init) = {first, second, last} /\ FreeChunks(memory_init) = {second}
<1> DEFINE id == [a \in Addr |-> a]
           C == {first, second, last}
           nxt == [id EXCEPT ![first] = second, ![second] = last, ![last] = first]
           prv == [id EXCEPT ![second] = first, ![last] = second, ![first] = last]
           marks == [a \in Addr |-> IF a \in {first, last} THEN 1 ELSE 0]
           heads == [n \in Slots |-> NULL]
           h == [all |-> Ring, used |-> marks, free |-> [next |-> id, prev |-> id],
                 free_chunk |-> heads, mem_free |-> 0, mem_used |-> 0,
                 mem_meta |-> (2 * SIZEOF_CHUNK + HEADER_SIZE) % SIZE_MOD]
           g == push_free(h, second)
<1>1. /\ SIZEOF_CHUNK \in Int /\ SIZEOF_CHUNK > 0
      /\ first \in Addr /\ second \in Addr /\ last \in Addr
      /\ first \in Int /\ second \in Int /\ last \in Int
      /\ second = first + SIZEOF_CHUNK /\ second + SIZEOF_CHUNK <= last
  BY Constants, Ends, AddrIs
<1>2. first # second /\ second # last /\ first # last
  BY <1>1
<1>3. Ring = [next |-> nxt, prev |-> prv]
  <2> DEFINE alone == [next |-> id, prev |-> id]
             two == [next |-> [id EXCEPT ![first] = second, ![second] = first],
                     prev |-> [id EXCEPT ![second] = first, ![first] = second]]
  <2>1. dlist_insert_after(alone, first, second) = two
    BY <1>1, <1>2 DEF dlist_insert_after
  <2>2. two.next[second] = first /\ two.prev[last] = last
    BY <1>1, <1>2
  <2>3. dlist_insert_after(two, second, last)
          = [next |-> [two.next EXCEPT ![second] = last, ![last] = first],
             prev |-> [two.prev EXCEPT ![last] = second, ![first] = last]]
    BY <2>2 DEF dlist_insert_after
  <2>4. /\ [two.next EXCEPT ![second] = last, ![last] = first] = nxt
        /\ [two.prev EXCEPT ![last] = second, ![first] = last] = prv
    BY <1>1, <1>2
  <2> QED BY <2>1, <2>3, <2>4 DEF Ring
<1>4. /\ nxt \in [Addr -> Addr] /\ prv \in [Addr -> Addr]
      /\ nxt[first] = second /\ nxt[second] = last /\ nxt[last] = first
      /\ prv[second] = first /\ prv[last] = second /\ prv[first] = last
      /\ \A a \in Addr \ C : nxt[a] = a
  BY <1>1, <1>2
<1> HIDE DEF nxt, prv
<1>5. RingOf(Ring, C)
  BY <1>1, <1>2, <1>3, <1>4 DEF RingOf, Pointers
<1>6. /\ marks \in [Addr -> {0, 1}] /\ marks[first] = 1 /\ marks[last] = 1
      /\ marks[second] = 0
  BY <1>1, <1>2
<1>7. (2 * SIZEOF_CHUNK + HEADER_SIZE) % SIZE_MOD \in SizeT /\ 0 \in SizeT
  BY CounterType, Constants DEF SizeT
<1>8. ListsOf([next |-> id, prev |-> id], heads, {}, slot_in(h))
  BY RingEmpty DEF ListsOf, FreePointers, Listed, OnSlot
<1>9. Ring \in Pointers
  BY <1>3, <1>4 DEF Pointers
<1>10. memory_init = g
  BY DEF memory_init
<1>11. id[second] = second
  BY <1>1
<1> HIDE DEF marks, heads, id
<1>12. /\ h \in HeapType /\ h.all = Ring /\ h.used = marks
       /\ h.free = [next |-> id, prev |-> id] /\ h.free_chunk = heads
  BY <1>6, <1>7, <1>8, <1>9 DEF HeapType, ListsOf
<1> HIDE DEF h
<1>13. memory_chunk_size(h, second) \in Int /\ slot_in(h)[second] \in Slots
  BY <1>2, <1>5, <1>12, ChunkSize
<1>14. /\ g \in HeapType /\ g.all = Ring /\ g.used = marks
       /\ ListsOf(g.free, g.free_chunk, {second}, slot_in(h))
  <2>1. second \in Addr \ {} /\ {} \cup {second} = {second}
    BY <1>1
  <2> QED BY <2>1, <1>8, <1>11, <1>12, <1>13, PushFree
<1> HIDE DEF g
<1>15. Chunks(g) = C
  BY <1>5, <1>14, RingChunks DEF Chunks
<1>16. FreeChunks(g) = {second} /\ UsedChunks(g) = {}
  BY <1>2, <1>6, <1>14, <1>15 DEF FreeChunks, UsedChunks, Inner
<1>17. slot_in(g) = slot_in(h)
  BY <1>12, <1>14 DEF slot_in, memory_chunk_size
<1>18. HeapInv(g)
  BY <1>3, <1>4, <1>5, <1>6, <1>14, <1>15, <1>16, <1>17 DEF HeapInv
<1> QED BY <1>10, <1>15, <1>16, <1>18

-----------------------------------------------------------------------------
(* The counters.                                                           *)

\* The same in size_t.
Congruent(a, b) == \E k \in Int : a = b + k * SIZE_MOD

\* Congruence of a number with itself, of a counter, and of what is added up.
LEMMA CongruentIs ==
  /\ \A a \in Int : Congruent(a, a)
  /\ \A a \in Int : a % SIZE_MOD \in Int /\ Congruent(a % SIZE_MOD, a)
  /\ \A a, b \in Int : Congruent(a, b) => a % SIZE_MOD = b % SIZE_MOD
<1>0. SIZE_MOD \in Nat \ {0}
  BY Constants
<1>1. ASSUME NEW a \in Int
      PROVE  Congruent(a, a)
  <2>1. a = a + 0 * SIZE_MOD
    BY <1>0
  <2> QED BY <2>1 DEF Congruent
<1>2. ASSUME NEW a \in Int
      PROVE  /\ a % SIZE_MOD \in 0 .. SIZE_MOD - 1
             /\ \E q \in Int : a = q * SIZE_MOD + (a % SIZE_MOD)
  <2>1. a % SIZE_MOD \in 0 .. SIZE_MOD - 1 /\ a \div SIZE_MOD \in Int
    BY <1>0
  <2>2. a = (a \div SIZE_MOD) * SIZE_MOD + (a % SIZE_MOD)
    BY <1>0
  <2> QED BY <2>1, <2>2
<1>3. ASSUME NEW a \in Int
      PROVE  a % SIZE_MOD \in Int /\ Congruent(a % SIZE_MOD, a)
  <2>1. PICK q \in Int : a = q * SIZE_MOD + (a % SIZE_MOD)
    BY <1>2
  <2>2. PICK r \in Int : r = a % SIZE_MOD
    BY <1>2
  <2>3. r = a + (-q) * SIZE_MOD
    BY <1>0, <2>1, <2>2
  <2>4. -q \in Int
    OBVIOUS
  <2> QED BY <2>2, <2>3, <2>4 DEF Congruent
<1>4. ASSUME NEW a \in Int, NEW b \in Int, Congruent(a, b)
      PROVE  a % SIZE_MOD = b % SIZE_MOD
  <2>1. PICK k \in Int : a = b + k * SIZE_MOD
    BY <1>4 DEF Congruent
  <2>2. PICK p \in Int, x \in 0 .. SIZE_MOD - 1 : x = a % SIZE_MOD /\ a = p * SIZE_MOD + x
    BY <1>2
  <2>3. PICK q \in Int, y \in 0 .. SIZE_MOD - 1 : y = b % SIZE_MOD /\ b = q * SIZE_MOD + y
    BY <1>2
  <2>4. PICK t \in Int : t = p - q - k
    OBVIOUS
  <2>5. t * SIZE_MOD = y - x
    <3>1. t * SIZE_MOD = p * SIZE_MOD - q * SIZE_MOD - k * SIZE_MOD
      BY <1>0, <2>4
    <3>2. PICK i \in Int, j \in Int, l \in Int :
            i = p * SIZE_MOD /\ j = q * SIZE_MOD /\ l = k * SIZE_MOD
      BY <1>0
    <3>3. a = b + l /\ a = i + x /\ b = j + y /\ x \in Int /\ y \in Int
      BY <1>0, <2>1, <2>2, <2>3, <3>2
    <3>4. i - j - l = y - x
      BY <3>3
    <3> QED BY <3>1, <3>2, <3>4
  <2>6. /\ t >= 1 => t * SIZE_MOD >= SIZE_MOD
        /\ t <= -1 => t * SIZE_MOD <= -SIZE_MOD
        /\ t = 0 => t * SIZE_MOD = 0
    BY <1>0
  <2>7. x = y
    BY <1>0, <2>5, <2>6
  <2> QED BY <2>2, <2>3, <2>7
<1> QED BY <1>1, <1>3, <1>4

\* Congruences add up.
LEMMA CongruentSum ==
  ASSUME NEW a \in Int, NEW b \in Int, NEW c \in Int, NEW d \in Int,
         Congruent(a, b), Congruent(c, d)
  PROVE  Congruent(a + c, b + d) /\ Congruent(a - c, b - d)
<1>0. SIZE_MOD \in Nat \ {0}
  BY Constants
<1>1. PICK i \in Int : a = b + i * SIZE_MOD
  BY DEF Congruent
<1>2. PICK j \in Int : c = d + j * SIZE_MOD
  BY DEF Congruent
<1>3. a + c = (b + d) + (i + j) * SIZE_MOD /\ a - c = (b - d) + (i - j) * SIZE_MOD
  BY <1>0, <1>1, <1>2
<1>4. i + j \in Int /\ i - j \in Int
  OBVIOUS
<1> QED BY <1>3, <1>4 DEF Congruent

\* Congruence is transitive.
LEMMA CongruentTrans ==
  ASSUME NEW a \in Int, NEW b \in Int, NEW c \in Int, Congruent(a, b), Congruent(b, c)
  PROVE  Congruent(a, c)
<1>1. PICK x \in Int : x = a - b
  OBVIOUS
<1>2. Congruent(a + b, b + c)
  BY CongruentSum
<1>3. Congruent((a + b) - b, (b + c) - b)
  <2>1. Congruent(b, b) /\ a + b \in Int /\ b + c \in Int
    BY CongruentIs
  <2>2. PICK p \in Int, q \in Int : p = a + b /\ q = b + c
    BY <2>1
  <2> QED BY <1>2, <2>1, <2>2, CongruentSum
<1>4. (a + b) - b = a /\ (b + c) - b = c
  OBVIOUS
<1> QED BY <1>3, <1>4

\* The chunks are finitely many.
LEMMA ChunksFinite ==
  ASSUME NEW h
  PROVE  /\ IsFiniteSet(Chunks(h)) /\ IsFiniteSet(Inner(h))
         /\ IsFiniteSet(FreeChunks(h)) /\ IsFiniteSet(UsedChunks(h))
         /\ Cardinality(Inner(h)) \in Nat /\ Cardinality(FreeChunks(h)) \in Nat
<1>1. IsFiniteSet(first .. last)
  BY Ends, FS_Interval
<1>2. \A x \in Addr : x \in first .. last
  BY AddrIs, Ends
<1>3. /\ Chunks(h) \in SUBSET (first .. last) /\ Inner(h) \in SUBSET (first .. last)
      /\ FreeChunks(h) \in SUBSET (first .. last) /\ UsedChunks(h) \in SUBSET (first .. last)
  BY <1>2 DEF Chunks, Inner, FreeChunks, UsedChunks
<1>4. /\ IsFiniteSet(Chunks(h)) /\ IsFiniteSet(Inner(h))
      /\ IsFiniteSet(FreeChunks(h)) /\ IsFiniteSet(UsedChunks(h))
  BY <1>1, <1>3, FS_Subset
<1> QED BY <1>4, FS_CardinalityType

\* What a chunk adds to the difference of mem_free and mem_used: its bytes, and
\* the headers that are in neither of them.
share(h) ==
  [c \in Addr |-> IF h.used[c] = 1 THEN -(memory_chunk_size(h, c) + HEADER_SIZE)
                                   ELSE memory_chunk_size(h, c) - 2 * HEADER_SIZE]

Weight(h) == SumFunctionOnSet(share(h), Inner(h))

\* The counters of h are right but for due bytes that are still to be counted
\* as free, or no longer as used.
Balanced(h, due) ==
  /\ Congruent(h.mem_meta, 2 * SIZEOF_CHUNK + HEADER_SIZE * Cardinality(Inner(h)))
  /\ Congruent(h.mem_free - h.mem_used, HEADER_SIZE + Weight(h) + due)

\* Shares, weights and headers are integers.
LEMMA WeightIs ==
  ASSUME NEW h, RingOf(h.all, Chunks(h))
  PROVE  /\ Inner(h) \in SUBSET Addr
         /\ \A c \in Inner(h) : share(h)[c] \in Int /\ memory_chunk_size(h, c) \in Int
         /\ Weight(h) \in Int /\ HEADER_SIZE * Cardinality(Inner(h)) \in Int
<1>1. \A c \in Inner(h) : c \in Addr /\ c \in Chunks(h) /\ c # last
  BY DEF Inner, Chunks
<1>2. \A c \in Inner(h) : memory_chunk_size(h, c) \in Int
  BY <1>1, ChunkSize
<1>3. \A c \in Inner(h) : share(h)[c] \in Int
  BY <1>1, <1>2, Constants DEF share
<1>4. IsFiniteSet(Inner(h)) /\ Cardinality(Inner(h)) \in Nat
  BY ChunksFinite
<1>5. Weight(h) \in Int
  <2> DEFINE w == share(h)
             S == Inner(h)
  <2>1. IsFiniteSet(S) /\ \A c \in S : w[c] \in Int
    BY <1>3, <1>4
  <2> HIDE DEF w, S
  <2>2. SumFunctionOnSet(w, S) \in Int
    BY <2>1, SumJoins
  <2> QED BY <2>2 DEF Weight, w, S
<1> QED BY <1>1, <1>2, <1>3, <1>4, <1>5, Constants

\* The weight with one share changed.
LEMMA Reweighed ==
  ASSUME NEW h, RingOf(h.all, Chunks(h)), NEW g, RingOf(g.all, Chunks(g)),
         Inner(g) = Inner(h), NEW c \in Inner(h),
         \A e \in Inner(h) \ {c} : share(g)[e] = share(h)[e]
  PROVE  Weight(g) = Weight(h) + share(g)[c] - share(h)[c]
<1> DEFINE S == Inner(h) \ {c}
           v == share(g)
           w == share(h)
<1>1. /\ IsFiniteSet(S) /\ c \notin S /\ S \cup {c} = Inner(h)
      /\ \A e \in S : v[e] = w[e]
  BY ChunksFinite, FS_Subset
<1>2. /\ \A e \in S : v[e] \in Int /\ w[e] \in Int
      /\ v[c] \in Int /\ w[c] \in Int
  BY WeightIs
<1>3. Weight(g) = SumFunctionOnSet(v, Inner(h)) /\ Weight(h) = SumFunctionOnSet(w, Inner(h))
  BY DEF Weight
<1> HIDE DEF S, v, w
<1>4. /\ SumFunctionOnSet(v, S) = SumFunctionOnSet(w, S)
      /\ SumFunctionOnSet(w, S) \in Int
      /\ SumFunctionOnSet(v, S \cup {c}) = SumFunctionOnSet(v, S) + v[c]
      /\ SumFunctionOnSet(w, S \cup {c}) = SumFunctionOnSet(w, S) + w[c]
  BY <1>1, <1>2, SumJoins, SumSame
<1>5. Weight(g) = SumFunctionOnSet(w, S) + v[c] /\ Weight(h) = SumFunctionOnSet(w, S) + w[c]
  BY <1>1, <1>3, <1>4
<1>6. Weight(g) = Weight(h) + v[c] - w[c]
  BY <1>2, <1>4, <1>5
<1> QED BY <1>6 DEF v, w

\* The weight with one chunk more.
LEMMA Outweighed ==
  ASSUME NEW h, RingOf(h.all, Chunks(h)), NEW g, RingOf(g.all, Chunks(g)),
         NEW d \in Inner(g), d \notin Inner(h), Inner(g) = Inner(h) \cup {d},
         NEW c \in Inner(h),
         \A e \in Inner(h) \ {c} : share(g)[e] = share(h)[e]
  PROVE  /\ Weight(g) = Weight(h) + share(g)[c] - share(h)[c] + share(g)[d]
         /\ HEADER_SIZE * Cardinality(Inner(g))
              = HEADER_SIZE * Cardinality(Inner(h)) + HEADER_SIZE
<1> DEFINE S == Inner(h) \ {c}
           v == share(g)
           w == share(h)
<1>1. /\ IsFiniteSet(S) /\ c \notin S /\ S \cup {c} = Inner(h)
      /\ IsFiniteSet(Inner(h))
      /\ \A e \in S : v[e] = w[e]
  BY ChunksFinite, FS_Subset
<1>2. /\ \A e \in S : v[e] \in Int /\ w[e] \in Int
      /\ v[c] \in Int /\ w[c] \in Int /\ v[d] \in Int
      /\ \A e \in Inner(h) : v[e] \in Int
  BY WeightIs
<1>3. /\ Weight(g) = SumFunctionOnSet(v, Inner(h) \cup {d})
      /\ Weight(h) = SumFunctionOnSet(w, Inner(h))
  BY DEF Weight
<1> HIDE DEF S, v, w
<1>4. /\ SumFunctionOnSet(v, S) = SumFunctionOnSet(w, S)
      /\ SumFunctionOnSet(w, S) \in Int
      /\ SumFunctionOnSet(v, S \cup {c}) = SumFunctionOnSet(v, S) + v[c]
      /\ SumFunctionOnSet(w, S \cup {c}) = SumFunctionOnSet(w, S) + w[c]
  BY <1>1, <1>2, SumJoins, SumSame
<1>5. SumFunctionOnSet(v, Inner(h) \cup {d}) = SumFunctionOnSet(v, Inner(h)) + v[d]
  BY <1>1, <1>2, SumJoins
<1>6. /\ Weight(g) = SumFunctionOnSet(w, S) + v[c] + v[d]
      /\ Weight(h) = SumFunctionOnSet(w, S) + w[c]
  BY <1>1, <1>3, <1>4, <1>5
<1>7. Weight(g) = Weight(h) + v[c] - w[c] + v[d]
  BY <1>2, <1>4, <1>6
<1>8. Cardinality(Inner(g)) = Cardinality(Inner(h)) + 1
  BY <1>1, FS_AddElement
<1>9. PICK i \in Int : i = Cardinality(Inner(h))
  BY ChunksFinite
<1>10. HEADER_SIZE * (i + 1) = HEADER_SIZE * i + HEADER_SIZE
  BY Constants
<1> QED BY <1>7, <1>8, <1>9, <1>10 DEF v, w

\* A step of a call that moves the counters, the weight and the number of
\* headers keeps the balance, with what is then due.
LEMMA Moved ==
  ASSUME NEW h, NEW g, NEW due \in Int, Balanced(h, due),
         h.mem_free \in Int, h.mem_used \in Int, h.mem_meta \in Int,
         g.mem_free \in Int, g.mem_used \in Int, g.mem_meta \in Int,
         NEW x \in Int, Congruent(g.mem_free, h.mem_free + x),
         NEW y \in Int, Congruent(g.mem_used, h.mem_used + y),
         NEW z \in Int, Congruent(g.mem_meta, h.mem_meta + z),
         Weight(h) \in Int, HEADER_SIZE * Cardinality(Inner(h)) \in Int,
         NEW w \in Int, Weight(g) = Weight(h) + w,
         HEADER_SIZE * Cardinality(Inner(g)) = HEADER_SIZE * Cardinality(Inner(h)) + z
  PROVE  Balanced(g, due + x - y - w)
<1>1. PICK k \in Int : k = HEADER_SIZE * Cardinality(Inner(h))
  OBVIOUS
<1>2. PICK f \in Int, u \in Int, m \in Int :
        f = h.mem_free /\ u = h.mem_used /\ m = h.mem_meta
  OBVIOUS
<1>3. PICK f1 \in Int, u1 \in Int, m1 \in Int :
        f1 = g.mem_free /\ u1 = g.mem_used /\ m1 = g.mem_meta
  OBVIOUS
<1>4. PICK a \in Int : a = HEADER_SIZE + Weight(h)
  BY Constants
<1>5. PICK b \in Int : b = 2 * SIZEOF_CHUNK
  BY Constants
<1>6. Congruent(m1, b + (k + z))
  <2>1. Congruent(m, b + k) /\ Congruent(m1, m + z) /\ Congruent(z, z)
    BY <1>1, <1>2, <1>3, <1>5, CongruentIs DEF Balanced
  <2>2. PICK p \in Int, q \in Int, r \in Int : p = b + k /\ q = m + z /\ r = p + z
    OBVIOUS
  <2>3. Congruent(q, r)
    BY <2>1, <2>2, CongruentSum
  <2>4. Congruent(m1, r)
    BY <2>1, <2>2, <2>3, CongruentTrans
  <2>5. r = b + (k + z)
    BY <2>2
  <2> QED BY <2>4, <2>5
<1>7. Congruent(f1 - u1, (a + w) + (due + x - y - w))
  <2>1. Congruent(f - u, a + due) /\ Congruent(f1, f + x) /\ Congruent(u1, u + y)
    BY <1>2, <1>3, <1>4 DEF Balanced
  <2>2. PICK p \in Int, q \in Int : p = f + x /\ q = u + y
    OBVIOUS
  <2>3. Congruent(f1 - u1, p - q)
    BY <2>1, <2>2, CongruentSum
  <2>4. PICK s \in Int, t \in Int, v \in Int : s = f - u /\ t = a + due /\ v = x - y
    OBVIOUS
  <2>5. Congruent(s + v, t + v)
    BY <2>1, <2>4, CongruentIs, CongruentSum
  <2>6. p - q = s + v /\ t + v = (a + w) + (due + x - y - w)
    BY <2>2, <2>4
  <2>7. PICK i \in Int, j \in Int, l \in Int : i = f1 - u1 /\ j = p - q /\ l = t + v
    OBVIOUS
  <2>8. Congruent(i, l)
    BY <2>3, <2>5, <2>6, <2>7, CongruentTrans
  <2> QED BY <2>6, <2>7, <2>8
<1>8. a + w = HEADER_SIZE + Weight(g)
  BY <1>4, Constants
<1> QED BY <1>1, <1>3, <1>5, <1>6, <1>7, <1>8 DEF Balanced

\* A counter that changes twice, between two reductions to size_t.
LEMMA CongruentTwice ==
  ASSUME NEW a \in Int, NEW x \in Int, NEW y \in Int
  PROVE  /\ (a + x) % SIZE_MOD \in Int
         /\ (((a + x) % SIZE_MOD) + y) % SIZE_MOD \in Int
         /\ Congruent((((a + x) % SIZE_MOD) + y) % SIZE_MOD, a + (x + y))
<1>1. PICK p \in Int : p = a + x
  OBVIOUS
<1>2. PICK q \in Int : q = p % SIZE_MOD /\ Congruent(q, p)
  BY CongruentIs
<1>3. Congruent(q + y, p + y)
  BY <1>2, CongruentIs, CongruentSum
<1>4. PICK r \in Int : r = q + y
  OBVIOUS
<1>5. PICK s \in Int : s = r % SIZE_MOD /\ Congruent(s, r)
  BY CongruentIs
<1>6. PICK t \in Int : t = a + (x + y)
  OBVIOUS
<1>7. t = p + y
  BY <1>1, <1>6
<1>8. Congruent(s, t)
  BY <1>3, <1>4, <1>5, <1>7, CongruentTrans
<1> QED BY <1>1, <1>2, <1>4, <1>5, <1>6, <1>8

\* The same, three times.
LEMMA CongruentThrice ==
  ASSUME NEW a \in Int, NEW x \in Int, NEW y \in Int, NEW z \in Int
  PROVE  Congruent((((((a + x) % SIZE_MOD) + y) % SIZE_MOD) + z) % SIZE_MOD, a + (x + y + z))
<1>1. PICK p \in Int : p = (a + x) % SIZE_MOD
  BY CongruentTwice
<1>2. PICK q \in Int : q = (p + y) % SIZE_MOD
  BY <1>1, CongruentTwice
<1>3. Congruent(q, a + (x + y))
  BY <1>1, <1>2, CongruentTwice
<1>4. PICK b \in Int, c \in Int : b = a + (x + y) /\ c = q + z
  OBVIOUS
<1>5. Congruent(q + z, b + z)
  BY <1>3, <1>4, CongruentIs, CongruentSum
<1>6. PICK r \in Int : r = c % SIZE_MOD /\ Congruent(r, c)
  BY CongruentIs
<1>7. PICK d \in Int : d = b + z
  OBVIOUS
<1>8. Congruent(r, d)
  BY <1>4, <1>5, <1>6, <1>7, CongruentTrans
<1>9. d = a + (x + y + z)
  BY <1>4, <1>7
<1> QED BY <1>1, <1>2, <1>4, <1>6, <1>8, <1>9

\* What remove_free does to the counters.
LEMMA RemoveFreeCounts ==
  ASSUME NEW h, h \in HeapType, NEW c, memory_chunk_slot(memory_chunk_size(h, c)) \in Slots
  PROVE  LET g == remove_free(h, c)
         IN  /\ g.mem_free = (h.mem_free - (memory_chunk_size(h, c) - HEADER_SIZE)) % SIZE_MOD
             /\ g.mem_used = h.mem_used /\ g.mem_meta = h.mem_meta
BY DEF remove_free, HeapType

\* What push_free does to the counters.
LEMMA PushFreeCounts ==
  ASSUME NEW h, h \in HeapType, NEW c, memory_chunk_slot(memory_chunk_size(h, c)) \in Slots
  PROVE  LET g == push_free(h, c)
         IN  /\ g.mem_free = (h.mem_free + memory_chunk_size(h, c) - HEADER_SIZE) % SIZE_MOD
             /\ g.mem_used = h.mem_used /\ g.mem_meta = h.mem_meta
BY DEF push_free, HeapType

\* merge_next keeps the balance: what is due of c grows with c.
LEMMA MergeNextBalance ==
  ASSUME NEW h, HeapInv(h), NEW c \in UsedChunks(h), h.used[h.all.next[c]] = 0,
         Balanced(h, memory_chunk_size(h, c))
  PROVE  LET g == merge_next(h, h.all.next[c])
         IN  Balanced(g, memory_chunk_size(g, c))
<1> DEFINE d == h.all.next[c]
           g == merge_next(h, d)
           u == remove_free(h, d)
<1>1. /\ HeapInv(g) /\ g.used = h.used /\ Chunks(g) = Chunks(h) \ {d}
      /\ d \in FreeChunks(h) /\ g.all.next[c] = h.all.next[d]
      /\ \A e \in Chunks(g) \ {c} : g.all.next[e] = h.all.next[e]
  BY MergeNext
<1>2. /\ RingOf(h.all, Chunks(h)) /\ h.used[first] = 1 /\ h.used[last] = 1
      /\ RingOf(g.all, Chunks(g)) /\ h \in HeapType /\ g \in HeapType
  BY <1>1 DEF HeapInv
<1>3. /\ c \in Inner(g) /\ d \in Inner(h) /\ d \notin Inner(g)
      /\ Inner(h) = Inner(g) \cup {d} /\ h.used[c] = 1 /\ h.used[d] = 0
      /\ c \in Addr /\ d \in Addr
      /\ \A e \in Inner(g) : e \in Chunks(g) /\ e \in Addr
  <2>1. /\ c \in Chunks(h) /\ c \in Addr /\ c \notin {first, last} /\ h.used[c] = 1
        /\ d \in Chunks(h) /\ h.used[d] = 0
    BY <1>1, Neighbours DEF FreeChunks
  <2>2. d \in Addr /\ d \notin {first, last} /\ c # d
    BY <1>2, <2>1 DEF Chunks
  <2>3. \A e \in Chunks(g) : e \in Addr
    BY DEF Chunks
  <2> HIDE DEF d, g
  <2> QED BY <1>1, <2>1, <2>2, <2>3 DEF Inner
<1>4. PICK n \in Int, s \in Int, t \in Int :
        /\ n = memory_chunk_size(h, d) /\ s = memory_chunk_size(h, c)
        /\ t = memory_chunk_size(g, c) /\ t = s + HEADER_SIZE + n
        /\ memory_chunk_slot(n) \in Slots
  <2>0. c \in Chunks(h) \ {last} /\ d \in Chunks(h) \ {last}
    BY <1>3 DEF Inner
  <2>1. /\ c \in Int /\ d = c + HEADER_SIZE + memory_chunk_size(h, c)
        /\ memory_chunk_size(h, c) \in Int
    BY <1>2, <2>0, ChunkSize
  <2>2. /\ d \in Int /\ h.all.next[d] = d + HEADER_SIZE + memory_chunk_size(h, d)
        /\ memory_chunk_size(h, d) \in Int
        /\ memory_chunk_slot(memory_chunk_size(h, d)) \in Slots
    BY <1>2, <2>0, ChunkSize
  <2>3. memory_chunk_size(g, c) = h.all.next[d] - c - HEADER_SIZE
    BY <1>1 DEF memory_chunk_size
  <2> HIDE DEF d, g
  <2> QED BY <2>1, <2>2, <2>3, Constants
<1>5. /\ u.mem_free = (h.mem_free - (n - HEADER_SIZE)) % SIZE_MOD
      /\ u.mem_used = h.mem_used /\ u.mem_meta = h.mem_meta
  BY <1>2, <1>4, RemoveFreeCounts
<1>6. /\ g.mem_free = (u.mem_free + HEADER_SIZE) % SIZE_MOD
      /\ g.mem_used = h.mem_used /\ g.mem_meta = (h.mem_meta - HEADER_SIZE) % SIZE_MOD
  <2>1. u \in HeapType
    BY <1>1, <1>2, <1>4, RemoveFree DEF HeapInv
  <2> HIDE DEF u, d
  <2> QED BY <1>5, <2>1 DEF merge_next, u, HeapType
<1> HIDE DEF d, g, u
<1>7. /\ share(h)[c] = -(s + HEADER_SIZE) /\ share(g)[c] = -(t + HEADER_SIZE)
      /\ share(h)[d] = n - 2 * HEADER_SIZE
      /\ \A e \in Inner(g) \ {c} : share(h)[e] = share(g)[e]
  BY <1>1, <1>3, <1>4 DEF share, memory_chunk_size
<1>8. /\ Weight(h) = Weight(g) + share(h)[c] - share(g)[c] + share(h)[d]
      /\ HEADER_SIZE * Cardinality(Inner(h))
           = HEADER_SIZE * Cardinality(Inner(g)) + HEADER_SIZE
  BY <1>2, <1>3, <1>7, Outweighed
<1>9. PICK x \in Int, y \in Int, z \in Int, w \in Int :
        /\ x = 2 * HEADER_SIZE - n /\ y = 0 /\ z = -HEADER_SIZE /\ w = HEADER_SIZE - 2 * n
  BY Constants
<1>10. /\ Weight(h) \in Int /\ Weight(g) \in Int
       /\ HEADER_SIZE * Cardinality(Inner(h)) \in Int
       /\ HEADER_SIZE * Cardinality(Inner(g)) \in Int
  BY <1>2, WeightIs
<1>11. /\ Weight(g) = Weight(h) + w
       /\ HEADER_SIZE * Cardinality(Inner(g)) = HEADER_SIZE * Cardinality(Inner(h)) + z
  BY <1>4, <1>7, <1>8, <1>9, <1>10, Constants
<1>12. /\ h.mem_free \in Int /\ h.mem_used \in Int /\ h.mem_meta \in Int
       /\ g.mem_free \in Int /\ g.mem_used \in Int /\ g.mem_meta \in Int
  BY <1>2 DEF HeapType, SizeT
<1>13. Congruent(g.mem_free, h.mem_free + x)
  <2>1. PICK a \in Int, i \in Int, j \in Int :
          a = h.mem_free /\ i = HEADER_SIZE - n /\ j = HEADER_SIZE
    BY <1>12, Constants
  <2>2. h.mem_free - (n - HEADER_SIZE) = a + i /\ a + (i + j) = h.mem_free + x
    BY <1>9, <2>1
  <2>3. g.mem_free = (((a + i) % SIZE_MOD) + j) % SIZE_MOD
    BY <1>5, <1>6, <2>1, <2>2
  <2>4. Congruent((((a + i) % SIZE_MOD) + j) % SIZE_MOD, a + (i + j))
    BY <2>1, CongruentTwice
  <2> QED BY <2>2, <2>3, <2>4
<1>14. Congruent(g.mem_meta, h.mem_meta + z)
  <2>1. PICK a \in Int : a = h.mem_meta - HEADER_SIZE
    BY <1>12, Constants
  <2>2. Congruent(a % SIZE_MOD, a) /\ a = h.mem_meta + z
    BY <1>9, <1>12, <2>1, Constants, CongruentIs
  <2> QED BY <1>6, <2>1, <2>2
<1>15. Congruent(g.mem_used, h.mem_used + y)
  BY <1>6, <1>9, <1>12, CongruentIs
<1>16. Balanced(h, s)
  BY <1>4
<1>17. Balanced(g, s + x - y - w)
  BY <1>10, <1>11, <1>12, <1>13, <1>14, <1>15, <1>16, Moved
<1>18. s + x - y - w = t
  BY <1>4, <1>9, Constants
<1> QED BY <1>4, <1>17, <1>18 DEF g, d

\* merge_to_prev ends what release would: nothing is due any more.
LEMMA MergeToPrevBalance ==
  ASSUME NEW h, HeapInv(h), NEW c \in UsedChunks(h),
         h.used[h.all.prev[c]] = 0, h.used[h.all.next[c]] = 1,
         Balanced(h, memory_chunk_size(h, c))
  PROVE  LET g == merge_to_prev(h, h.all.prev[c], c)
         IN  Balanced(g, 0)
<1> DEFINE p == h.all.prev[c]
           g == merge_to_prev(h, p, c)
           ring == dlist_remove(h.all, c)
           u == remove_free(h, p)
           v == [u EXCEPT !.all = ring]
           f == push_free(v, p)
<1>1. /\ HeapInv(g) /\ Chunks(g) = Chunks(h) \ {c}
      /\ p \in FreeChunks(h) /\ h.all.next[p] = c /\ g.all.next[p] = h.all.next[c]
      /\ \A e \in Chunks(g) \ {p} : g.all.next[e] = h.all.next[e]
      /\ g.used = h.used
  BY MergeToPrev
<1>2. /\ RingOf(h.all, Chunks(h)) /\ h.used[first] = 1 /\ h.used[last] = 1
      /\ RingOf(g.all, Chunks(g)) /\ h \in HeapType /\ g \in HeapType
      /\ ListsOf(h.free, h.free_chunk, FreeChunks(h), slot_in(h))
  BY <1>1 DEF HeapInv
<1>3. /\ p \in Inner(g) /\ c \in Inner(h) /\ c \notin Inner(g)
      /\ Inner(h) = Inner(g) \cup {c} /\ h.used[c] = 1 /\ h.used[p] = 0
      /\ c \in Addr /\ p \in Addr
      /\ \A e \in Inner(g) : e \in Chunks(g) /\ e \in Addr
  <2>1. /\ c \in Chunks(h) /\ c \in Addr /\ c \notin {first, last} /\ h.used[c] = 1
        /\ p \in Chunks(h) /\ h.used[p] = 0
    BY <1>1, Neighbours DEF FreeChunks
  <2>2. p \in Addr /\ p \notin {first, last} /\ c # p
    BY <1>2, <2>1 DEF Chunks
  <2>3. \A e \in Chunks(g) : e \in Addr
    BY DEF Chunks
  <2> HIDE DEF p, g
  <2> QED BY <1>1, <2>1, <2>2, <2>3 DEF Inner
<1>4. PICK n \in Int, s \in Int, t \in Int :
        /\ n = memory_chunk_size(h, p) /\ s = memory_chunk_size(h, c)
        /\ t = memory_chunk_size(g, p) /\ t = n + HEADER_SIZE + s
        /\ memory_chunk_slot(n) \in Slots /\ memory_chunk_slot(t) \in Slots
  <2>0. /\ c \in Chunks(h) \ {last} /\ p \in Chunks(h) \ {last}
        /\ p \in Chunks(g) \ {last}
    BY <1>3 DEF Inner
  <2>1. /\ c \in Int /\ h.all.next[c] = c + HEADER_SIZE + memory_chunk_size(h, c)
        /\ memory_chunk_size(h, c) \in Int
    BY <1>2, <2>0, ChunkSize
  <2>2. /\ p \in Int /\ c = p + HEADER_SIZE + memory_chunk_size(h, p)
        /\ memory_chunk_size(h, p) \in Int
        /\ memory_chunk_slot(memory_chunk_size(h, p)) \in Slots
    BY <1>1, <1>2, <2>0, ChunkSize
  <2>3. memory_chunk_size(g, p) = h.all.next[c] - p - HEADER_SIZE
    BY <1>1 DEF memory_chunk_size
  <2>4. memory_chunk_slot(memory_chunk_size(g, p)) \in Slots
    BY <1>2, <2>0, ChunkSize
  <2> HIDE DEF p, g
  <2> QED BY <2>1, <2>2, <2>3, <2>4, Constants
<1>5. /\ u \in HeapType /\ u.all = h.all
      /\ u.mem_free = (h.mem_free - (n - HEADER_SIZE)) % SIZE_MOD
      /\ u.mem_used = h.mem_used /\ u.mem_meta = h.mem_meta
  <2>1. u \in HeapType /\ u.all = h.all
    BY <1>1, <1>2, <1>4, RemoveFree
  <2> QED BY <1>2, <1>4, <2>1, RemoveFreeCounts
<1>6. g = [f EXCEPT !.mem_meta = (@ - HEADER_SIZE) % SIZE_MOD,
                    !.mem_free = (@ + HEADER_SIZE) % SIZE_MOD]
  BY <1>5 DEF merge_to_prev
<1>7. g.all = ring /\ ring \in Pointers
  <2>1. v.all = ring
    BY <1>5 DEF HeapType
  <2>2. f.all = ring
    <3>1. DOMAIN v = DOMAIN u /\ "all" \in DOMAIN v
      BY <1>5 DEF HeapType
    <3> HIDE DEF v
    <3> QED BY <2>1, <3>1 DEF push_free
  <2>3. g.all = ring
    <3> HIDE DEF f, ring, g
    <3> QED BY <1>6, <2>2
  <2> QED BY <1>2, <2>3 DEF HeapType
<1>8. /\ v \in HeapType /\ v.all = ring
      /\ v.mem_free = u.mem_free /\ v.mem_used = u.mem_used /\ v.mem_meta = u.mem_meta
  <2> HIDE DEF u, ring
  <2> QED BY <1>5, <1>7 DEF HeapType
<1>9. memory_chunk_size(v, p) = t
  <2> HIDE DEF v, g, ring
  <2> QED BY <1>4, <1>7, <1>8 DEF memory_chunk_size
<1> HIDE DEF u, v, ring, p
<1>10. /\ f.mem_free = (v.mem_free + t - HEADER_SIZE) % SIZE_MOD
       /\ f.mem_used = v.mem_used /\ f.mem_meta = v.mem_meta
  BY <1>4, <1>8, <1>9, PushFreeCounts
<1>11. /\ g.mem_free = (f.mem_free + HEADER_SIZE) % SIZE_MOD
       /\ g.mem_used = h.mem_used /\ g.mem_meta = (h.mem_meta - HEADER_SIZE) % SIZE_MOD
  <2>1. {"mem_free", "mem_used", "mem_meta"} \subseteq DOMAIN f
    BY <1>8 DEF push_free, HeapType
  <2> HIDE DEF f, g
  <2> QED BY <1>5, <1>6, <1>8, <1>10, <2>1
<1> HIDE DEF f, g
<1>12. /\ share(h)[p] = n - 2 * HEADER_SIZE /\ share(g)[p] = t - 2 * HEADER_SIZE
       /\ share(h)[c] = -(s + HEADER_SIZE)
       /\ \A e \in Inner(g) \ {p} : share(h)[e] = share(g)[e]
  BY <1>1, <1>3, <1>4 DEF share, memory_chunk_size
<1>13. /\ Weight(h) = Weight(g) + share(h)[p] - share(g)[p] + share(h)[c]
       /\ HEADER_SIZE * Cardinality(Inner(h))
            = HEADER_SIZE * Cardinality(Inner(g)) + HEADER_SIZE
  BY <1>2, <1>3, <1>12, Outweighed
<1>14. PICK x \in Int, y \in Int, z \in Int, w \in Int :
         /\ x = s + 2 * HEADER_SIZE /\ y = 0
         /\ z = -HEADER_SIZE /\ w = 2 * s + 2 * HEADER_SIZE
  BY Constants
<1>15. /\ Weight(h) \in Int /\ Weight(g) \in Int
       /\ HEADER_SIZE * Cardinality(Inner(h)) \in Int
       /\ HEADER_SIZE * Cardinality(Inner(g)) \in Int
  BY <1>2, WeightIs
<1>16. /\ Weight(g) = Weight(h) + w
       /\ HEADER_SIZE * Cardinality(Inner(g)) = HEADER_SIZE * Cardinality(Inner(h)) + z
  BY <1>4, <1>12, <1>13, <1>14, <1>15, Constants
<1>17. /\ h.mem_free \in Int /\ h.mem_used \in Int /\ h.mem_meta \in Int
       /\ g.mem_free \in Int /\ g.mem_used \in Int /\ g.mem_meta \in Int
  BY <1>2 DEF HeapType, SizeT
<1>18. Congruent(g.mem_free, h.mem_free + x)
  <2>1. PICK a \in Int, i \in Int, j \in Int, k \in Int :
          a = h.mem_free /\ i = HEADER_SIZE - n /\ j = t - HEADER_SIZE /\ k = HEADER_SIZE
    BY <1>17, Constants
  <2>2. /\ h.mem_free - (n - HEADER_SIZE) = a + i
        /\ a + (i + j + k) = h.mem_free + x
    BY <1>4, <1>14, <2>1
  <2>3. PICK b \in Int : b = (a + i) % SIZE_MOD
    BY <2>1, CongruentTwice
  <2>4. v.mem_free = b
    BY <1>5, <1>8, <2>2, <2>3
  <2>5. b + t - HEADER_SIZE = b + j
    BY <2>1
  <2>6. g.mem_free = (((b + j) % SIZE_MOD) + k) % SIZE_MOD
    BY <1>10, <1>11, <2>1, <2>4, <2>5
  <2>7. Congruent((((((a + i) % SIZE_MOD) + j) % SIZE_MOD) + k) % SIZE_MOD, a + (i + j + k))
    BY <2>1, CongruentThrice
  <2> QED BY <2>2, <2>3, <2>6, <2>7
<1>19. Congruent(g.mem_meta, h.mem_meta + z)
  <2>1. PICK a \in Int : a = h.mem_meta - HEADER_SIZE
    BY <1>17, Constants
  <2>2. Congruent(a % SIZE_MOD, a) /\ a = h.mem_meta + z
    BY <1>14, <1>17, <2>1, Constants, CongruentIs
  <2> QED BY <1>11, <2>1, <2>2
<1>20. Congruent(g.mem_used, h.mem_used + y)
  BY <1>11, <1>14, <1>17, CongruentIs
<1>21. Balanced(h, s)
  BY <1>4
<1>22. Balanced(g, s + x - y - w)
  BY <1>15, <1>16, <1>17, <1>18, <1>19, <1>20, <1>21, Moved
<1>23. s + x - y - w = 0
  BY <1>4, <1>14, Constants
<1> QED BY <1>22, <1>23 DEF g, p

\* release too leaves nothing due.
LEMMA ReleaseBalance ==
  ASSUME NEW h, HeapInv(h), NEW c \in UsedChunks(h),
         h.used[h.all.prev[c]] = 1, h.used[h.all.next[c]] = 1,
         Balanced(h, memory_chunk_size(h, c))
  PROVE  Balanced(release(h, c), 0)
<1> DEFINE g == release(h, c)
           v == [h EXCEPT !.used[c] = 0, !.free = dlist_init(h.free, c)]
<1>1. /\ HeapInv(g) /\ g.all = h.all
      /\ g.used[c] = 0 /\ \A e \in Addr \ {c} : g.used[e] = h.used[e]
  BY Release
<1>2. /\ RingOf(h.all, Chunks(h)) /\ RingOf(g.all, Chunks(g))
      /\ h \in HeapType /\ g \in HeapType
      /\ ListsOf(h.free, h.free_chunk, FreeChunks(h), slot_in(h))
  BY <1>1 DEF HeapInv
<1>3. /\ c \in Inner(h) /\ c \in Addr /\ Inner(g) = Inner(h) /\ h.used[c] = 1
      /\ c \in Chunks(h) /\ c # last /\ c \notin FreeChunks(h)
  BY <1>1 DEF UsedChunks, FreeChunks, Inner, Chunks
<1>4. PICK s \in Int : /\ s = memory_chunk_size(h, c) /\ memory_chunk_slot(s) \in Slots
  BY <1>2, <1>3, ChunkSize
<1>5. /\ v \in HeapType /\ v.all = h.all /\ g = push_free(v, c)
      /\ v.mem_free = h.mem_free /\ v.mem_used = h.mem_used /\ v.mem_meta = h.mem_meta
  <2>1. ListsOf(dlist_init(h.free, c), h.free_chunk, FreeChunks(h), slot_in(h))
    BY <1>2, <1>3, ListsInit
  <2>2. dlist_init(h.free, c) \in FreePointers
    BY <2>1 DEF ListsOf
  <2>3. [h.used EXCEPT ![c] = 0] \in [Addr -> {0, 1}]
    BY <1>2 DEF HeapType
  <2>4. g = push_free(v, c)
    BY DEF release
  <2> DEFINE marks == [h.used EXCEPT ![c] = 0]
             links == dlist_init(h.free, c)
  <2>5. v = [h EXCEPT !.used = marks, !.free = links]
    OBVIOUS
  <2> HIDE DEF g, v, marks, links
  <2> QED BY <1>2, <2>2, <2>3, <2>4, <2>5 DEF HeapType, marks, links
<1> HIDE DEF g, v
<1>6. memory_chunk_size(v, c) = s /\ memory_chunk_size(g, c) = s
  BY <1>1, <1>4, <1>5 DEF memory_chunk_size
<1>7. /\ g.mem_free = (h.mem_free + s - HEADER_SIZE) % SIZE_MOD
      /\ g.mem_used = h.mem_used /\ g.mem_meta = h.mem_meta
  BY <1>4, <1>5, <1>6, PushFreeCounts
<1>8. g.used[c] = 0 /\ \A e \in Inner(h) \ {c} : g.used[e] = h.used[e] /\ e \in Addr
  BY <1>1, <1>3 DEF Inner, Chunks
<1>9. /\ share(h)[c] = -(s + HEADER_SIZE) /\ share(g)[c] = s - 2 * HEADER_SIZE
      /\ \A e \in Inner(h) \ {c} : share(g)[e] = share(h)[e]
  BY <1>1, <1>3, <1>4, <1>6, <1>8 DEF share, memory_chunk_size
<1>10. Weight(g) = Weight(h) + share(g)[c] - share(h)[c]
  BY <1>2, <1>3, <1>9, Reweighed
<1>11. PICK x \in Int, y \in Int, z \in Int, w \in Int :
         x = s - HEADER_SIZE /\ y = 0 /\ z = 0 /\ w = 2 * s - HEADER_SIZE
  BY Constants
<1>12. Weight(h) \in Int /\ HEADER_SIZE * Cardinality(Inner(h)) \in Int
  BY <1>2, WeightIs
<1>13. /\ Weight(g) = Weight(h) + w
       /\ HEADER_SIZE * Cardinality(Inner(g)) = HEADER_SIZE * Cardinality(Inner(h)) + z
  BY <1>3, <1>9, <1>10, <1>11, <1>12, Constants
<1>14. /\ h.mem_free \in Int /\ h.mem_used \in Int /\ h.mem_meta \in Int
       /\ g.mem_free \in Int /\ g.mem_used \in Int /\ g.mem_meta \in Int
  BY <1>2 DEF HeapType, SizeT
<1>15. Congruent(g.mem_free, h.mem_free + x)
  <2>1. PICK a \in Int : a = h.mem_free + s - HEADER_SIZE
    BY <1>14, Constants
  <2>2. Congruent(a % SIZE_MOD, a) /\ a = h.mem_free + x
    BY <1>11, <1>14, <2>1, Constants, CongruentIs
  <2> QED BY <1>7, <2>1, <2>2
<1>16. Congruent(g.mem_used, h.mem_used + y) /\ Congruent(g.mem_meta, h.mem_meta + z)
  BY <1>7, <1>11, <1>14, CongruentIs
<1>17. Balanced(h, s)
  BY <1>4
<1>18. Balanced(g, s + x - y - w)
  BY <1>12, <1>13, <1>14, <1>15, <1>16, <1>17, Moved
<1>19. s + x - y - w = 0
  BY <1>11, Constants
<1> QED BY <1>18, <1>19 DEF g

\* split counts the chunk it makes as free, though what it is cut from is not
\* yet counted as taken.
LEMMA SplitBalance ==
  ASSUME NEW h, NEW c, TakenInv(h, c), h.used[h.all.next[c]] = 1,
         NEW size \in Int, Aligned(size), MIN_SIZE <= size,
         size + SIZEOF_CHUNK <= memory_chunk_size(h, c),
         Balanced(h, 0)
  PROVE  Balanced(split(h, c, size), memory_chunk_size(h, c) - size + HEADER_SIZE)
<1> DEFINE g == split(h, c, size)
           d == c + HEADER_SIZE + size
           ring == dlist_insert_after(dlist_init(h.all, d), c, d)
           links == dlist_init(h.free, d)
           marks == [h.used EXCEPT ![d] = 0]
           v == [h EXCEPT !.all = ring, !.used[d] = 0, !.free = dlist_init(@, d)]
           f == push_free(v, d)
<1>1. /\ TakenInv(g, c) /\ memory_chunk_size(g, c) = size
      /\ d \notin Chunks(h) /\ Chunks(g) = Chunks(h) \cup {d}
      /\ g.used[d] = 0 /\ \A e \in Addr \ {d} : g.used[e] = h.used[e]
      /\ g.all.next[c] = d /\ g.all.next[d] = h.all.next[c]
      /\ \A e \in Chunks(h) \ {c} : g.all.next[e] = h.all.next[e]
  <2> HIDE DEF g
  <2> QED BY Split DEF g
<1>2. /\ RingOf(h.all, Chunks(h)) /\ RingOf(g.all, Chunks(g))
      /\ h \in HeapType /\ g \in HeapType
      /\ ListsOf(h.free, h.free_chunk, FreeChunks(h) \ {c}, slot_in(h))
      /\ c \in FreeChunks(h) /\ h.used[first] = 1 /\ h.used[last] = 1
  BY <1>1 DEF TakenInv
<1>3. g = [f EXCEPT !.mem_meta = (@ + HEADER_SIZE) % SIZE_MOD]
  BY DEF split
<1>4. v = [h EXCEPT !.all = ring, !.used = marks, !.free = links]
  BY <1>2 DEF HeapType
<1> HIDE DEF g, d, ring, links, marks, v
<1>5. /\ c \in Inner(h) /\ d \in Inner(g) /\ d \notin Inner(h)
      /\ Inner(g) = Inner(h) \cup {d} /\ h.used[c] = 0 /\ c # d
      /\ c \in Addr /\ d \in Addr
      /\ \A e \in Inner(h) : e \in Chunks(h) /\ e \in Addr
  <2>1. c \in Chunks(h) /\ c \in Addr /\ c \notin {first, last} /\ h.used[c] = 0
    BY <1>2 DEF FreeChunks, Chunks
  <2>2. d \in Addr /\ d \notin {first, last}
    BY <1>1, <1>2 DEF Chunks, RingOf
  <2>3. \A e \in Chunks(h) : e \in Addr
    BY DEF Chunks
  <2> QED BY <1>1, <2>1, <2>2, <2>3 DEF Inner
<1>6. PICK r \in Int, t \in Int :
        /\ r = memory_chunk_size(h, c) /\ t = memory_chunk_size(g, d)
        /\ t = r - size - HEADER_SIZE /\ memory_chunk_slot(t) \in Slots
  <2>0. c \in Chunks(h) \ {last} /\ d \in Chunks(g) \ {last}
    BY <1>5 DEF Inner
  <2>1. /\ c \in Int /\ h.all.next[c] = c + HEADER_SIZE + memory_chunk_size(h, c)
        /\ memory_chunk_size(h, c) \in Int
    BY <1>2, <2>0, ChunkSize
  <2>2. /\ d \in Int /\ g.all.next[d] = d + HEADER_SIZE + memory_chunk_size(g, d)
        /\ memory_chunk_size(g, d) \in Int
        /\ memory_chunk_slot(memory_chunk_size(g, d)) \in Slots
    BY <1>2, <2>0, ChunkSize
  <2>3. d = c + HEADER_SIZE + size
    BY DEF d
  <2> QED BY <1>1, <2>1, <2>2, <2>3, Constants
<1>7. links \in FreePointers /\ marks \in [Addr -> {0, 1}]
  <2>1. d \in Addr \ (FreeChunks(h) \ {c})
    BY <1>1, <1>5 DEF FreeChunks
  <2>2. ListsOf(links, h.free_chunk, FreeChunks(h) \ {c}, slot_in(h))
    BY <1>2, <2>1, ListsInit DEF links
  <2>3. h.used \in [Addr -> {0, 1}]
    BY <1>2 DEF HeapType
  <2> QED BY <2>2, <2>3 DEF ListsOf, marks
<1>8. v.all = ring /\ DOMAIN v = DOMAIN h
  BY <1>2, <1>4 DEF HeapType
<1>9. g.all = ring /\ ring \in Pointers
  <2>1. "all" \in DOMAIN v
    BY <1>2, <1>8 DEF HeapType
  <2>2. f.all = ring
    BY <1>8, <2>1 DEF push_free
  <2>3. "all" \in DOMAIN f
    BY <2>1 DEF push_free
  <2>4. g.all = ring
    <3> HIDE DEF f
    <3> QED BY <1>3, <2>2, <2>3
  <2> QED BY <1>2, <2>4 DEF HeapType
<1>10. /\ v \in HeapType
       /\ v.mem_free = h.mem_free /\ v.mem_used = h.mem_used /\ v.mem_meta = h.mem_meta
  BY <1>2, <1>4, <1>7, <1>9 DEF HeapType
<1>11. memory_chunk_size(v, d) = t
  BY <1>6, <1>8, <1>9 DEF memory_chunk_size
<1>12. /\ f.mem_free = (v.mem_free + t - HEADER_SIZE) % SIZE_MOD
       /\ f.mem_used = v.mem_used /\ f.mem_meta = v.mem_meta
  BY <1>6, <1>10, <1>11, PushFreeCounts
<1>13. /\ g.mem_free = (h.mem_free + t - HEADER_SIZE) % SIZE_MOD
       /\ g.mem_used = h.mem_used /\ g.mem_meta = (h.mem_meta + HEADER_SIZE) % SIZE_MOD
  <2>1. {"mem_free", "mem_used", "mem_meta"} \subseteq DOMAIN f
    BY <1>10 DEF push_free, HeapType
  <2> HIDE DEF f
  <2> QED BY <1>3, <1>10, <1>12, <2>1
<1> HIDE DEF f
<1>14. /\ share(h)[c] = r - 2 * HEADER_SIZE /\ share(g)[c] = size - 2 * HEADER_SIZE
       /\ share(g)[d] = t - 2 * HEADER_SIZE
       /\ \A e \in Inner(h) \ {c} : share(g)[e] = share(h)[e]
  <2>1. g.used[c] = 0 /\ \A e \in Inner(h) : e # d
    BY <1>1, <1>5
  <2>2. /\ share(h)[c] = r - 2 * HEADER_SIZE /\ share(g)[c] = size - 2 * HEADER_SIZE
        /\ share(g)[d] = t - 2 * HEADER_SIZE
    <3>1. \A k, e : k.used[e] = 0 /\ e \in Addr =>
                      share(k)[e] = memory_chunk_size(k, e) - 2 * HEADER_SIZE
      BY DEF share
    <3>2. /\ memory_chunk_size(h, c) = r /\ memory_chunk_size(g, c) = size
          /\ memory_chunk_size(g, d) = t /\ g.used[d] = 0
      BY <1>1, <1>6
    <3> QED BY <1>5, <2>1, <3>1, <3>2
  <2>3. ASSUME NEW e \in Inner(h) \ {c}
        PROVE  share(g)[e] = share(h)[e]
    <3>1. e \in Addr /\ g.used[e] = h.used[e] /\ g.all.next[e] = h.all.next[e]
      BY <1>1, <1>5, <2>1
    <3> QED BY <3>1 DEF share, memory_chunk_size
  <2> QED BY <2>2, <2>3
<1>15. /\ Weight(g) = Weight(h) + share(g)[c] - share(h)[c] + share(g)[d]
       /\ HEADER_SIZE * Cardinality(Inner(g))
            = HEADER_SIZE * Cardinality(Inner(h)) + HEADER_SIZE
  BY <1>2, <1>5, <1>14, Outweighed
<1>16. PICK x \in Int, y \in Int, z \in Int, w \in Int :
         x = t - HEADER_SIZE /\ y = 0 /\ z = HEADER_SIZE /\ w = -3 * HEADER_SIZE
  BY Constants
<1>17. Weight(h) \in Int /\ HEADER_SIZE * Cardinality(Inner(h)) \in Int
  BY <1>2, WeightIs
<1>18. /\ Weight(g) = Weight(h) + w
       /\ HEADER_SIZE * Cardinality(Inner(g)) = HEADER_SIZE * Cardinality(Inner(h)) + z
  BY <1>6, <1>14, <1>15, <1>16, <1>17, Constants
<1>19. /\ h.mem_free \in Int /\ h.mem_used \in Int /\ h.mem_meta \in Int
       /\ g.mem_free \in Int /\ g.mem_used \in Int /\ g.mem_meta \in Int
  BY <1>2 DEF HeapType, SizeT
<1>20. Congruent(g.mem_free, h.mem_free + x)
  <2>1. PICK a \in Int : a = h.mem_free + t - HEADER_SIZE
    BY <1>19, Constants
  <2>2. Congruent(a % SIZE_MOD, a) /\ a = h.mem_free + x
    BY <1>16, <1>19, <2>1, Constants, CongruentIs
  <2> QED BY <1>13, <2>1, <2>2
<1>21. Congruent(g.mem_meta, h.mem_meta + z)
  <2>1. PICK a \in Int : a = h.mem_meta + HEADER_SIZE
    BY <1>19, Constants
  <2>2. Congruent(a % SIZE_MOD, a) /\ a = h.mem_meta + z
    BY <1>16, <2>1, CongruentIs
  <2> QED BY <1>13, <2>1, <2>2
<1>22. Congruent(g.mem_used, h.mem_used + y)
  BY <1>13, <1>16, <1>19, CongruentIs
<1>23. Balanced(g, 0 + x - y - w)
  BY <1>17, <1>18, <1>19, <1>20, <1>21, <1>22, Moved
<1>24. 0 + x - y - w = memory_chunk_size(h, c) - size + HEADER_SIZE
  BY <1>6, <1>16, Constants
<1> QED BY <1>23, <1>24 DEF g

\* hand_out settles what is due of the chunk it marks used.
LEMMA HandOutBalance ==
  ASSUME NEW h, NEW c, TakenInv(h, c), NEW size2 \in Int, NEW len \in Int,
         NEW due \in Int, Balanced(h, due),
         due = 2 * size2 - len - 2 * memory_chunk_size(h, c)
  PROVE  Balanced(hand_out(h, c, size2, len), 0)
<1> DEFINE g == hand_out(h, c, size2, len)
<1>1. /\ HeapInv(g) /\ g.all = h.all
      /\ g.used[c] = 1 /\ \A e \in Addr \ {c} : g.used[e] = h.used[e]
  <2> HIDE DEF g
  <2> QED BY HandOut DEF g
<1>2. /\ RingOf(h.all, Chunks(h)) /\ RingOf(g.all, Chunks(g))
      /\ h \in HeapType /\ g \in HeapType
      /\ c \in FreeChunks(h) /\ h.used[first] = 1 /\ h.used[last] = 1
  BY <1>1 DEF HeapInv, TakenInv
<1>3. /\ g.mem_free = (h.mem_free - size2) % SIZE_MOD
      /\ g.mem_used = (h.mem_used + size2 - len - HEADER_SIZE) % SIZE_MOD
      /\ g.mem_meta = h.mem_meta
  BY <1>2 DEF hand_out, HeapType
<1> HIDE DEF g
<1>4. /\ c \in Inner(h) /\ c \in Addr /\ Inner(g) = Inner(h) /\ h.used[c] = 0
      /\ c \in Chunks(h) /\ c # last /\ \A e \in Inner(h) : e \in Addr
  BY <1>1, <1>2 DEF FreeChunks, Inner, Chunks
<1>5. PICK r \in Int : r = memory_chunk_size(h, c)
  BY <1>2, <1>4, ChunkSize
<1>6. /\ share(h)[c] = r - 2 * HEADER_SIZE /\ share(g)[c] = -(r + HEADER_SIZE)
      /\ \A e \in Inner(h) \ {c} : share(g)[e] = share(h)[e]
  BY <1>1, <1>4, <1>5 DEF share, memory_chunk_size
<1>7. Weight(g) = Weight(h) + share(g)[c] - share(h)[c]
  BY <1>2, <1>4, <1>6, Reweighed
<1>8. PICK x \in Int, y \in Int, z \in Int, w \in Int :
        /\ x = -size2 /\ y = size2 - len - HEADER_SIZE
        /\ z = 0 /\ w = HEADER_SIZE - 2 * r
  BY Constants
<1>9. Weight(h) \in Int /\ HEADER_SIZE * Cardinality(Inner(h)) \in Int
  BY <1>2, WeightIs
<1>10. /\ Weight(g) = Weight(h) + w
       /\ HEADER_SIZE * Cardinality(Inner(g)) = HEADER_SIZE * Cardinality(Inner(h)) + z
  BY <1>4, <1>6, <1>7, <1>8, <1>9, Constants
<1>11. /\ h.mem_free \in Int /\ h.mem_used \in Int /\ h.mem_meta \in Int
       /\ g.mem_free \in Int /\ g.mem_used \in Int /\ g.mem_meta \in Int
  BY <1>2 DEF HeapType, SizeT
<1>12. Congruent(g.mem_free, h.mem_free + x)
  <2>1. PICK a \in Int : a = h.mem_free - size2
    BY <1>11
  <2>2. Congruent(a % SIZE_MOD, a) /\ a = h.mem_free + x
    BY <1>8, <1>11, <2>1, CongruentIs
  <2> QED BY <1>3, <2>1, <2>2
<1>13. Congruent(g.mem_used, h.mem_used + y)
  <2>1. PICK a \in Int : a = h.mem_used + size2 - len - HEADER_SIZE
    BY <1>11, Constants
  <2>2. Congruent(a % SIZE_MOD, a) /\ a = h.mem_used + y
    BY <1>8, <1>11, <2>1, Constants, CongruentIs
  <2> QED BY <1>3, <2>1, <2>2
<1>14. Congruent(g.mem_meta, h.mem_meta + z)
  BY <1>3, <1>8, <1>11, CongruentIs
<1>15. Balanced(g, due + x - y - w)
  BY <1>9, <1>10, <1>11, <1>12, <1>13, <1>14, Moved
<1>16. due + x - y - w = 0
  BY <1>5, <1>8, Constants
<1> QED BY <1>15, <1>16 DEF g

\* malloc keeps the balance, whether it cuts the chunk or not.
LEMMA TakeBalance ==
  ASSUME NEW h, HeapInv(h), Balanced(h, 0),
         NEW size \in Nat, NEW n \in candidates(h, size)
  PROVE  Balanced(take(h, n, size), 0)
<1> DEFINE c == taken(h, n)
           r == rounded(size)
           size2 == memory_chunk_size(h, c)
           popped == [h EXCEPT !.free = dlist_remove(@, c),
                               !.free_chunk[n] = dlist_pop_head(h.free, c)]
<1>1. n \in Slots /\ h.free_chunk[n] # NULL
  BY DEF candidates
<1>2. r \in Int /\ Aligned(r) /\ r >= MIN_SIZE
  BY Rounded
<1>3. /\ TakenInv(popped, c) /\ popped.all = h.all
      /\ popped.used[popped.all.next[c]] = 1
      /\ UsedChunks(popped) = UsedChunks(h) /\ FreeChunks(popped) = FreeChunks(h)
  BY <1>1, Pop
<1>4. /\ DOMAIN popped = DOMAIN h
      /\ popped.used = h.used
      /\ popped.mem_free = h.mem_free /\ popped.mem_used = h.mem_used
      /\ popped.mem_meta = h.mem_meta
  BY DEF HeapInv, HeapType
<1>5. Balanced(popped, 0)
  <2> HIDE DEF popped
  <2>1. Inner(popped) = Inner(h) /\ share(popped) = share(h)
    BY <1>3, <1>4 DEF Inner, Chunks, share, memory_chunk_size
  <2>2. Weight(popped) = Weight(h)
    BY <2>1 DEF Weight
  <2> QED BY <1>4, <2>1, <2>2 DEF Balanced
<1>6. take(h, n, size) =
        IF cuts(size, size2)
        THEN hand_out(split(popped, c, r), c, size2, size2 - r - HEADER_SIZE)
        ELSE hand_out(popped, c, size2, 0)
  BY DEF take
<1> HIDE DEF popped, r
<1>7. size2 \in Int /\ size2 = memory_chunk_size(popped, c)
  <2>1. c \in Chunks(popped) /\ c # last /\ RingOf(popped.all, Chunks(popped))
    BY <1>3 DEF TakenInv, FreeChunks
  <2>2. size2 = memory_chunk_size(popped, c)
    BY <1>3 DEF memory_chunk_size
  <2> QED BY <2>1, <2>2, ChunkSize
<1> HIDE DEF c, size2
<1>8. CASE cuts(size, size2)
  <2> DEFINE g == split(popped, c, r)
  <2>1. r + SIZEOF_CHUNK <= memory_chunk_size(popped, c)
    BY <1>7, <1>8 DEF cuts, r
  <2>2. TakenInv(g, c) /\ memory_chunk_size(g, c) = r
    BY <1>2, <1>3, <2>1, Split
  <2>3. Balanced(g, memory_chunk_size(popped, c) - r + HEADER_SIZE)
    BY <1>2, <1>3, <1>5, <2>1, SplitBalance
  <2> HIDE DEF g
  <2>4. PICK due \in Int, len \in Int :
          due = size2 - r + HEADER_SIZE /\ len = size2 - r - HEADER_SIZE
    BY <1>2, <1>7, Constants
  <2>5. due = 2 * size2 - len - 2 * memory_chunk_size(g, c) /\ Balanced(g, due)
    BY <1>2, <1>7, <2>2, <2>3, <2>4, Constants
  <2>6. Balanced(hand_out(g, c, size2, len), 0)
    BY <1>7, <2>2, <2>4, <2>5, HandOutBalance
  <2> QED BY <1>6, <1>8, <2>4, <2>6 DEF g
<1>9. CASE ~cuts(size, size2)
  <2>1. 0 = 2 * size2 - 0 - 2 * memory_chunk_size(popped, c)
    BY <1>7
  <2>2. Balanced(hand_out(popped, c, size2, 0), 0)
    BY <1>3, <1>5, <1>7, <2>1, HandOutBalance
  <2> QED BY <1>6, <1>9, <2>2
<1> QED BY <1>8, <1>9

\* free keeps the balance, whichever neighbours it merges.
LEMMA FreedBalance ==
  ASSUME NEW h, HeapInv(h), Balanced(h, 0), NEW c \in UsedChunks(h)
  PROVE  Balanced(freed(h, c), 0)
<1> DEFINE next == h.all.next[c]
           prev == h.all.prev[c]
           h1 == [h EXCEPT !.mem_used = (@ - memory_chunk_size(h, c)) % SIZE_MOD]
           h2 == IF h.used[next] = 0 THEN merge_next(h1, next) ELSE h1
           g == IF h.used[prev] = 0 THEN merge_to_prev(h2, prev, c) ELSE release(h2, c)
<1>1. /\ c \in Chunks(h) /\ c # last
      /\ h.used[next] \in {0, 1} /\ h.used[prev] \in {0, 1}
  BY Neighbours
<1>2. PICK s \in Int : s = memory_chunk_size(h, c)
  BY <1>1, ChunkSize DEF HeapInv
<1>3. /\ h1 \in HeapType /\ h1.all = h.all /\ h1.used = h.used
      /\ h1.free = h.free /\ h1.free_chunk = h.free_chunk
      /\ h1.mem_free = h.mem_free /\ h1.mem_meta = h.mem_meta
      /\ h1.mem_used = (h.mem_used - s) % SIZE_MOD
  <2>1. (h.mem_used - s) % SIZE_MOD \in SizeT
    BY CounterType, Constants DEF HeapInv, HeapType, SizeT
  <2> QED BY <1>2, <2>1 DEF HeapInv, HeapType
<1> HIDE DEF h1
<1>4. HeapInv(h1) /\ UsedChunks(h1) = UsedChunks(h) /\ Chunks(h1) = Chunks(h)
  BY <1>3, CountersApart
<1>5. Balanced(h1, s)
  <2>1. Inner(h1) = Inner(h) /\ share(h1) = share(h)
    BY <1>3, <1>4 DEF Inner, share, memory_chunk_size
  <2>2. Weight(h1) = Weight(h)
    BY <2>1 DEF Weight
  <2>3. Weight(h) \in Int /\ HEADER_SIZE * Cardinality(Inner(h)) \in Int
    BY WeightIs DEF HeapInv
  <2>4. /\ h.mem_free \in Int /\ h.mem_used \in Int /\ h.mem_meta \in Int
        /\ h1.mem_free \in Int /\ h1.mem_used \in Int /\ h1.mem_meta \in Int
    BY <1>3 DEF HeapInv, HeapType, SizeT
  <2>5. PICK x \in Int, y \in Int : x = 0 /\ y = -s
    OBVIOUS
  <2>6. Congruent(h1.mem_used, h.mem_used + y)
    <3>1. PICK a \in Int : a = h.mem_used - s
      BY <2>4
    <3>2. Congruent(a % SIZE_MOD, a) /\ a = h.mem_used + y
      BY <2>4, <2>5, <3>1, CongruentIs
    <3> QED BY <1>3, <3>1, <3>2
  <2>7. Congruent(h1.mem_free, h.mem_free + x) /\ Congruent(h1.mem_meta, h.mem_meta + x)
    BY <1>3, <2>4, <2>5, CongruentIs
  <2>8. /\ Weight(h1) = Weight(h) + x
        /\ HEADER_SIZE * Cardinality(Inner(h1)) = HEADER_SIZE * Cardinality(Inner(h)) + x
    BY <2>1, <2>2, <2>3, <2>5
  <2>9. Balanced(h1, 0 + x - y - x)
    BY <2>3, <2>4, <2>5, <2>6, <2>7, <2>8, Moved
  <2>10. 0 + x - y - x = s
    BY <2>5
  <2> QED BY <2>9, <2>10
<1>6. memory_chunk_size(h1, c) = s
  BY <1>2, <1>3 DEF memory_chunk_size
<1>7. /\ HeapInv(h2) /\ UsedChunks(h2) = UsedChunks(h) /\ h2.used = h.used
      /\ h2.all.prev[c] = prev /\ h2.used[h2.all.next[c]] = 1
      /\ Balanced(h2, memory_chunk_size(h2, c))
  <2>1. CASE h.used[next] = 0
    <3>1. /\ HeapInv(h2) /\ UsedChunks(h2) = UsedChunks(h) /\ h2.used = h.used
          /\ h2.all.prev[c] = prev /\ h2.used[h2.all.next[c]] = 1
      BY <2>1, <1>3, <1>4, MergeNext
    <3>2. Balanced(h2, memory_chunk_size(h2, c))
      BY <2>1, <1>3, <1>4, <1>5, <1>6, MergeNextBalance
    <3> QED BY <3>1, <3>2
  <2>2. CASE h.used[next] # 0
    <3>1. h2 = h1
      BY <2>2
    <3>2. HeapInv(h1) /\ UsedChunks(h1) = UsedChunks(h) /\ h1.used = h.used
      BY <1>3, <1>4
    <3>3. h1.all.prev[c] = prev /\ h1.used[h1.all.next[c]] = 1
      BY <1>1, <1>3, <2>2
    <3>4. Balanced(h1, memory_chunk_size(h1, c))
      BY <1>5, <1>6
    <3> QED BY <3>1, <3>2, <3>3, <3>4
  <2> QED BY <2>1, <2>2
<1> HIDE DEF h2
<1>8. Balanced(g, 0)
  <2>1. CASE h.used[prev] = 0
    BY <2>1, <1>7, MergeToPrevBalance
  <2>2. CASE h.used[prev] # 0
    BY <2>2, <1>1, <1>7, ReleaseBalance
  <2> QED BY <2>1, <2>2
<1>9. freed(h, c) = g
  BY DEF freed, h1, h2
<1> QED BY <1>8, <1>9

\* A heap that has just been initialised is balanced.
LEMMA InitialBalance == Balanced(memory_init, 0)
<1> DEFINE g == memory_init
<1>1. /\ HeapInv(g) /\ Chunks(g) = {first, second, last} /\ FreeChunks(g) = {second}
      /\ first # second /\ second # last /\ second \in Addr
  BY Initial, Ends, Constants, AddrIs
<1>2. /\ RingOf(g.all, Chunks(g)) /\ g \in HeapType /\ Inner(g) = {second}
      /\ g.used[second] = 0
  BY <1>1 DEF HeapInv, Inner, FreeChunks
<1>3. /\ g.mem_free = (0 + memory_chunk_size(g, second) - HEADER_SIZE) % SIZE_MOD
      /\ g.mem_used = 0 /\ g.mem_meta = (2 * SIZEOF_CHUNK + HEADER_SIZE) % SIZE_MOD
  BY DEF memory_init, push_free, memory_chunk_size
<1> HIDE DEF g
<1>4. PICK s \in Int : s = memory_chunk_size(g, second)
  BY <1>1, <1>2, ChunkSize
<1>5. share(g)[second] = s - 2 * HEADER_SIZE
  BY <1>1, <1>2, <1>4 DEF share
<1>6. Weight(g) = s - 2 * HEADER_SIZE
  <2> DEFINE v == share(g)
  <2>1. IsFiniteSet({}) /\ {} \cup {second} = {second}
    BY FS_EmptySet
  <2>2. v[second] \in Int
    BY <1>4, <1>5, Constants
  <2> HIDE DEF v
  <2>3. SumFunctionOnSet(v, {}) = 0
    BY SumEmpty
  <2>4. SumFunctionOnSet(v, {} \cup {second}) = SumFunctionOnSet(v, {}) + v[second]
    BY <2>1, <2>2, SumJoins
  <2>5. Weight(g) = SumFunctionOnSet(v, {second})
    BY <1>2 DEF Weight, v
  <2> QED BY <1>4, <1>5, <2>1, <2>2, <2>3, <2>4, <2>5 DEF v
<1>7. Cardinality(Inner(g)) = 1
  BY <1>2, FS_Singleton
<1>8. PICK a \in Int : a = s - HEADER_SIZE
  BY Constants
<1>9. PICK b \in Int : b = 2 * SIZEOF_CHUNK + HEADER_SIZE
  BY Constants
<1>10. PICK f \in Int : f = a % SIZE_MOD /\ Congruent(f, a)
  BY CongruentIs
<1>11. PICK m \in Int : m = b % SIZE_MOD /\ Congruent(m, b)
  BY CongruentIs
<1>12. 0 + s - HEADER_SIZE = a
  BY <1>8, Constants
<1>13. g.mem_free = f /\ g.mem_meta = m
  BY <1>3, <1>4, <1>9, <1>10, <1>11, <1>12
<1>14. g.mem_free - g.mem_used = f /\ HEADER_SIZE + Weight(g) + 0 = a
  BY <1>3, <1>6, <1>8, <1>13, Constants
<1>15. 2 * SIZEOF_CHUNK + HEADER_SIZE * Cardinality(Inner(g)) = b
  BY <1>7, <1>9, Constants
<1> QED BY <1>10, <1>11, <1>13, <1>14, <1>15 DEF Balanced, g

-----------------------------------------------------------------------------
(* The heap and the clients.                                               *)

\* The clients hold the used chunks, no more and no less.
Book(h, b) ==
  /\ HeapInv(h)
  /\ DOMAIN b = {data_of(c) : c \in UsedChunks(h)}
  /\ \A p \in DOMAIN b : b[p] \in Nat

\* Every block has the room its owner asked for.
Room(h, b) == \A p \in DOMAIN b : b[p] <= memory_chunk_size(h, chunk_of(p))

\* Blocks held before and after have kept their place and size.
Kept(h, b, g, d) ==
  \A p \in DOMAIN b \cap DOMAIN d :
    /\ memory_chunk_size(g, chunk_of(p)) = memory_chunk_size(h, chunk_of(p))
    /\ g.used[chunk_of(p)] = 1

\* In a heap and book that agree, a client's block is the data of a used chunk.
LEMMA BookChunks ==
  ASSUME NEW h, NEW b, Book(h, b)
  PROVE  \A p \in DOMAIN b : /\ p \in Int
                             /\ chunk_of(p) \in UsedChunks(h)
                             /\ data_of(chunk_of(p)) = p
<1>1. \A c \in UsedChunks(h) : c \in Int /\ chunk_of(data_of(c)) = c /\ data_of(c) \in Int
  BY AddrIs, Constants DEF UsedChunks, Inner, Chunks, chunk_of, data_of
<1> QED BY <1>1 DEF Book

\* malloc and calloc.
LEMMA TakeStep ==
  ASSUME NEW h, NEW b, Book(h, b), NEW size \in Nat, NEW n \in candidates(h, size),
         NEW asked \in Nat
  PROVE  LET g == take(h, n, size)
             q == data_of(taken(h, n))
             d == Held(b, q, asked)
         IN  /\ q \notin DOMAIN b
             /\ Book(g, d) /\ Kept(h, b, g, d)
             /\ Room(h, b) /\ asked <= rounded(size) => Room(g, d)
<1> DEFINE c == taken(h, n)
           g == take(h, n, size)
           q == data_of(c)
           d == Held(b, q, asked)
<1>1. /\ HeapInv(g) /\ c \notin UsedChunks(h)
      /\ UsedChunks(g) = UsedChunks(h) \cup {c}
      /\ memory_chunk_size(g, c) >= rounded(size)
      /\ \A e \in UsedChunks(h) : memory_chunk_size(g, e) = memory_chunk_size(h, e)
  BY Take DEF Book
<1> HIDE DEF g, c
<1>2. c \in Addr /\ c \in Int /\ c # last /\ c \in Chunks(g)
  BY <1>1, AddrIs DEF UsedChunks, Inner, Chunks
<1>3. \A p \in DOMAIN b : p \in Int /\ chunk_of(p) \in UsedChunks(h) /\ data_of(chunk_of(p)) = p
  BY BookChunks
<1>4. chunk_of(q) = c /\ q \in Int
  BY <1>2, Constants DEF chunk_of, data_of
<1>5. q \notin DOMAIN b
  BY <1>1, <1>3, <1>4
<1>6. /\ DOMAIN d = DOMAIN b \cup {q} /\ d[q] = asked
      /\ \A p \in DOMAIN b : d[p] = b[p]
  BY <1>5 DEF Held
<1> HIDE DEF d, q
<1>7. DOMAIN d = {data_of(e) : e \in UsedChunks(g)}
  <2>1. DOMAIN b = {data_of(e) : e \in UsedChunks(h)}
    BY DEF Book
  <2> QED BY <2>1, <1>1, <1>6 DEF q
<1>8. Book(g, d)
  BY <1>1, <1>6, <1>7 DEF Book
<1>9. Kept(h, b, g, d)
  BY <1>1, <1>3 DEF Kept, UsedChunks
<1>10. ASSUME Room(h, b), asked <= rounded(size)
       PROVE  Room(g, d)
  <2>1. /\ memory_chunk_size(g, c) \in Int
        /\ rounded(size) \in Int
    BY <1>1, <1>2, ChunkSize, Rounded DEF HeapInv
  <2>2. asked <= memory_chunk_size(g, c)
    BY <1>1, <1>10, <2>1
  <2> QED BY <2>2, <1>1, <1>3, <1>4, <1>6, <1>10 DEF Room
<1> QED BY <1>5, <1>8, <1>9, <1>10 DEF g, d, q, c

\* free.
LEMMA FreeStep ==
  ASSUME NEW h, NEW b, Book(h, b), NEW p \in DOMAIN b
  PROVE  LET g == freed(h, chunk_of(p))
             d == Dropped(b, p)
         IN  /\ Book(g, d) /\ Kept(h, b, g, d)
             /\ Room(h, b) => Room(g, d)
<1> DEFINE c == chunk_of(p)
           g == freed(h, c)
           d == Dropped(b, p)
<1>1. \A q \in DOMAIN b : q \in Int /\ chunk_of(q) \in UsedChunks(h) /\ data_of(chunk_of(q)) = q
  BY BookChunks
<1>2. c \in UsedChunks(h)
  BY <1>1
<1>3. /\ HeapInv(g) /\ UsedChunks(g) = UsedChunks(h) \ {c}
      /\ \A e \in UsedChunks(g) : memory_chunk_size(g, e) = memory_chunk_size(h, e)
  BY <1>2, Freed DEF Book
<1>4. DOMAIN d = DOMAIN b \ {p} /\ \A q \in DOMAIN d : d[q] = b[q]
  BY DEF Dropped
<1> HIDE DEF g, d
<1>5. \A q \in DOMAIN d : chunk_of(q) \in UsedChunks(g)
  BY <1>1, <1>3, <1>4
<1>6. DOMAIN d = {data_of(e) : e \in UsedChunks(g)}
  <2>1. DOMAIN b = {data_of(e) : e \in UsedChunks(h)}
    BY DEF Book
  <2>2. \A e \in UsedChunks(g) : data_of(e) \in DOMAIN b /\ data_of(e) # p
    <3>1. \A e \in UsedChunks(h) : e \in Int /\ chunk_of(data_of(e)) = e
      BY AddrIs, Constants DEF UsedChunks, Inner, Chunks, chunk_of, data_of
    <3> QED BY <2>1, <3>1, <1>3
  <2>3. \A q \in DOMAIN d : \E e \in UsedChunks(g) : q = data_of(e)
    BY <1>1, <1>4, <1>5
  <2> QED BY <2>2, <2>3, <1>4
<1>7. Book(g, d)
  BY <1>3, <1>4, <1>6 DEF Book
<1>8. Kept(h, b, g, d)
  BY <1>3, <1>5 DEF Kept, UsedChunks
<1>9. Room(h, b) => Room(g, d)
  BY <1>3, <1>4, <1>5 DEF Room
<1> QED BY <1>7, <1>8, <1>9 DEF g, d

\* realloc in place.
LEMMA ResizeStep ==
  ASSUME NEW h, NEW b, Book(h, b), NEW p \in DOMAIN b, NEW size \in Nat
  PROVE  LET d == Held(b, p, size)
         IN  /\ Book(h, d) /\ Kept(h, b, h, d)
             /\ Room(h, b) /\ size <= memory_chunk_size(h, chunk_of(p)) => Room(h, d)
<1> DEFINE d == Held(b, p, size)
<1>1. /\ DOMAIN d = DOMAIN b /\ d[p] = size
      /\ \A q \in DOMAIN b \ {p} : d[q] = b[q]
  BY DEF Held
<1> HIDE DEF d
<1>2. Book(h, d)
  BY <1>1 DEF Book
<1>3. Kept(h, b, h, d)
  BY BookChunks DEF Kept, UsedChunks
<1>4. Room(h, b) /\ size <= memory_chunk_size(h, chunk_of(p)) => Room(h, d)
  BY <1>1 DEF Room
<1> QED BY <1>2, <1>3, <1>4 DEF d

\* realloc to a new chunk.
LEMMA MoveStep ==
  ASSUME NEW h, NEW b, Book(h, b), NEW p \in DOMAIN b,
         NEW size \in Nat, NEW n \in candidates(h, size)
  PROVE  LET q == data_of(taken(h, n))
             g == freed(take(h, n, size), chunk_of(p))
             d == Dropped(Held(b, q, size), p)
         IN  /\ q \notin DOMAIN b
             /\ Book(g, d) /\ Kept(h, b, g, d)
             /\ Room(h, b) /\ size <= rounded(size) => Room(g, d)
<1> DEFINE q == data_of(taken(h, n))
           g1 == take(h, n, size)
           d1 == Held(b, q, size)
           g == freed(g1, chunk_of(p))
           d == Dropped(d1, p)
<1>1. /\ q \notin DOMAIN b /\ Book(g1, d1) /\ Kept(h, b, g1, d1)
      /\ Room(h, b) /\ size <= rounded(size) => Room(g1, d1)
  BY TakeStep
<1>2. DOMAIN d1 = DOMAIN b \cup {q} /\ DOMAIN d \subseteq DOMAIN d1
  BY DEF Held, Dropped
<1> HIDE DEF g1, d1, q
<1>3. /\ Book(g, d) /\ Kept(g1, d1, g, d)
      /\ Room(g1, d1) => Room(g, d)
  BY <1>1, <1>2, FreeStep
<1> HIDE DEF g, d
<1>4. Kept(h, b, g, d)
  BY <1>1, <1>2, <1>3 DEF Kept
<1> QED BY <1>1, <1>3, <1>4 DEF q, g1, d1, g, d

-----------------------------------------------------------------------------
(* The invariant.                                                          *)

IInv == Book(heap, block) /\ wild \in BOOLEAN

\* Rounding up any size a client asks for stays within size_t.
NoWrap ==
  /\ \A size \in Sizes : size + ALIGN - 1 < SIZE_MOD
  /\ \A a \in Arrays : a[1] * a[2] + ALIGN - 1 < SIZE_MOD

\* The inductive invariant holds at the start.
LEMMA InitIInv == Init => IInv /\ Room(heap, block)
<1> SUFFICES ASSUME Init PROVE IInv /\ Room(heap, block)
  OBVIOUS
<1>1. DOMAIN block = {}
  BY DEF Init
<1> QED BY <1>1, Initial DEF Init, IInv, Book, Room

\* calloc works with the product modulo SIZE_MOD.
LEMMA Product ==
  ASSUME NEW a \in Arrays
  PROVE  /\ a[1] * a[2] \in Nat /\ (a[1] * a[2]) % SIZE_MOD \in Nat
         /\ a[1] * a[2] < SIZE_MOD => (a[1] * a[2]) % SIZE_MOD = a[1] * a[2]
<1>1. a[1] \in Nat /\ a[2] \in Nat
  BY ClientAssumption, Constants
<1>2. a[1] * a[2] \in Nat
  BY <1>1
<1> DEFINE product == a[1] * a[2]
<1> HIDE DEF product
<1>3. product \in Nat
  BY <1>2 DEF product
<1>4. /\ product % SIZE_MOD \in Nat
      /\ product < SIZE_MOD => product % SIZE_MOD = product
  BY <1>3, Constants
<1> QED BY <1>3, <1>4 DEF product

\* Every step keeps the invariant and the blocks of the clients it does not
\* serve, and with NoWrap the room in them.
LEMMA NextIInv ==
  ASSUME IInv, [Next]_vars
  PROVE  /\ IInv' /\ Kept(heap, block, heap', block')
         /\ NoWrap /\ Room(heap, block) => Room(heap, block)'
<1> USE DEF IInv
<1>0. CASE UNCHANGED vars
  BY <1>0, BookChunks DEF vars, Kept, UsedChunks, Book, Room
<1>1. ASSUME NEW size \in Sizes, malloc(size)
      PROVE  /\ IInv' /\ Kept(heap, block, heap', block')
             /\ NoWrap /\ Room(heap, block) => Room(heap, block)'
  <2>1. size \in Nat
    BY ClientAssumption, Constants
  <2>2. CASE UNCHANGED vars
    BY <2>2, <1>0
  <2>3. ASSUME NEW n \in Slots, finds(heap, size, n),
               heap' = take(heap, n, size),
               block' = Held(block, data_of(taken(heap, n)), size), UNCHANGED wild
        PROVE  /\ IInv' /\ Kept(heap, block, heap', block')
               /\ NoWrap /\ Room(heap, block) => Room(heap, block)'
    <3>1. n \in candidates(heap, size)
      BY <2>3 DEF finds
    <3>2. NoWrap => size <= rounded(size)
      BY <2>1, Rounded DEF NoWrap
    <3> QED BY <2>1, <2>3, <3>1, <3>2, TakeStep
  <2> QED BY <1>1, <2>2, <2>3 DEF malloc
<1>2. ASSUME NEW a \in Arrays, calloc(a[1], a[2])
      PROVE  /\ IInv' /\ Kept(heap, block, heap', block')
             /\ NoWrap /\ Room(heap, block) => Room(heap, block)'
  <2> DEFINE product == (a[1] * a[2]) % SIZE_MOD
  <2>1. product \in Nat /\ a[1] * a[2] \in Nat
    BY Product
  <2>2. CASE UNCHANGED <<heap, block>> /\ wild' = (wild \/ product > 0)
    BY <2>2, BookChunks DEF Kept, UsedChunks, Book, Room
  <2>3. ASSUME NEW n \in Slots, finds(heap, product, n),
               heap' = take(heap, n, product),
               block' = Held(block, data_of(taken(heap, n)), a[1] * a[2]),
               UNCHANGED wild
        PROVE  /\ IInv' /\ Kept(heap, block, heap', block')
               /\ NoWrap /\ Room(heap, block) => Room(heap, block)'
    <3>1. n \in candidates(heap, product)
      BY <2>3 DEF finds
    <3>2. NoWrap => a[1] * a[2] <= rounded(product)
      <4> SUFFICES ASSUME NoWrap
                   PROVE  a[1] * a[2] <= rounded(product)
        OBVIOUS
      <4>1. a[1] * a[2] + ALIGN - 1 < SIZE_MOD
        BY DEF NoWrap
      <4>2. a[1] * a[2] < SIZE_MOD
        BY <4>1, <2>1, Constants
      <4>3. product = a[1] * a[2]
        BY <4>2, Product
      <4> QED BY <4>1, <4>3, <2>1, Rounded
    <3> HIDE DEF product
    <3> QED BY <2>1, <2>3, <3>1, <3>2, TakeStep
  <2> QED BY <1>2, <2>2, <2>3 DEF calloc
<1>3. ASSUME NEW p \in DOMAIN block \cup {NULL}, free(p)
      PROVE  /\ IInv' /\ Kept(heap, block, heap', block')
             /\ NoWrap /\ Room(heap, block) => Room(heap, block)'
  <2>1. CASE UNCHANGED vars
    BY <2>1, <1>0
  <2>2. CASE /\ p # NULL /\ heap' = freed(heap, chunk_of(p))
             /\ block' = Dropped(block, p) /\ UNCHANGED wild
    BY <2>2, FreeStep
  <2> QED BY <1>3, <2>1, <2>2 DEF free
<1>4. ASSUME NEW p \in DOMAIN block, NEW size \in Sizes, realloc(p, size)
      PROVE  /\ IInv' /\ Kept(heap, block, heap', block')
             /\ NoWrap /\ Room(heap, block) => Room(heap, block)'
  <2>1. size \in Nat
    BY ClientAssumption, Constants
  <2>2. CASE /\ memory_chunk_size(heap, chunk_of(p)) >= size
             /\ block' = Held(block, p, size) /\ UNCHANGED <<heap, wild>>
    BY <2>1, <2>2, ResizeStep
  <2>3. CASE /\ heap' = freed(heap, chunk_of(p)) /\ block' = Dropped(block, p)
             /\ wild' = TRUE
    BY <2>3, FreeStep
  <2>4. ASSUME NEW n \in Slots, finds(heap, size, n),
               heap' = freed(take(heap, n, size), chunk_of(p)),
               block' = Dropped(Held(block, data_of(taken(heap, n)), size), p),
               UNCHANGED wild
        PROVE  /\ IInv' /\ Kept(heap, block, heap', block')
               /\ NoWrap /\ Room(heap, block) => Room(heap, block)'
    <3>1. n \in candidates(heap, size)
      BY <2>4 DEF finds
    <3>2. NoWrap => size <= rounded(size)
      BY <2>1, Rounded DEF NoWrap
    <3> QED BY <2>1, <2>4, <3>1, <3>2, MoveStep
  <2> QED BY <1>4, <2>2, <2>3, <2>4 DEF realloc
<1> QED BY <1>0, <1>1, <1>2, <1>3, <1>4 DEF Next

\* The invariant implies the properties of Memory.
LEMMA IInvTypeOK == IInv => TypeOK
<1> SUFFICES ASSUME IInv PROVE TypeOK
  OBVIOUS
<1>1. DOMAIN block \subseteq {data_of(c) : c \in Addr}
  BY DEF IInv, Book, UsedChunks, Inner, Chunks
<1> QED BY <1>1 DEF IInv, Book, HeapInv, TypeOK

\* The invariant gives the order of the chunk list.
LEMMA IInvInOrder == IInv => AllListInOrder
<1> SUFFICES ASSUME IInv PROVE AllListInOrder
  OBVIOUS
<1>1. RingOf(heap.all, Chunks(heap)) /\ heap.used[first] = 1 /\ heap.used[last] = 1
  BY DEF IInv, Book, HeapInv
<1>2. \A c \in Chunks(heap) : c # last => memory_chunk_size(heap, c) >= MIN_SIZE
  BY <1>1, ChunkSize
<1> QED BY <1>1, <1>2 DEF AllListInOrder, RingOf

\* The invariant leaves no two free chunks side by side.
LEMMA IInvCoalesced == IInv => Coalesced
<1> SUFFICES ASSUME IInv PROVE Coalesced
  OBVIOUS
<1>1. /\ RingOf(heap.all, Chunks(heap)) /\ heap.used \in [Addr -> {0, 1}]
      /\ heap.used[first] = 1 /\ heap.used[last] = 1
      /\ \A c \in FreeChunks(heap) : heap.used[heap.all.next[c]] = 1
  BY DEF IInv, Book, HeapInv, HeapType
<1>2. ASSUME DOMAIN block = {}
      PROVE  Inner(heap) = {second}
  <2>1. UsedChunks(heap) = {}
    BY <1>2 DEF IInv, Book
  <2>2. \A c \in Chunks(heap) : /\ c \in Int /\ c \in Addr /\ c <= last
                                /\ heap.used[c] = 1 => c \in {first, last}
    BY <2>1, AddrIs DEF UsedChunks, Inner, Chunks
  <2>3. /\ second \in Chunks(heap) /\ heap.all.next[first] = second
        /\ heap.all.next[second] \in Chunks(heap)
        /\ heap.all.next[second] >= second + SIZEOF_CHUNK
        /\ \A d \in Chunks(heap) : /\ d > first => d >= second
                                   /\ d > second => d >= heap.all.next[second]
    BY <1>1, Ends, Constants DEF RingOf
  <2>4. second \in FreeChunks(heap)
    BY <1>1, <2>2, <2>3, Ends, Constants DEF FreeChunks
  <2>5. heap.all.next[second] = last
    BY <1>1, <2>2, <2>3, <2>4, Ends, Constants
  <2>6. \A d \in Chunks(heap) : d >= first
    BY AddrIs DEF Chunks
  <2>7. ASSUME NEW d \in Inner(heap)
        PROVE  d = second
    <3>1. d \in Chunks(heap) /\ d # first /\ d # last
      BY DEF Inner
    <3>2. d > first
      BY <3>1, <2>2, <2>6, Ends
    <3>3. d >= second /\ (d > second => d >= last) /\ d <= last /\ d \in Int
      BY <3>1, <3>2, <2>2, <2>3, <2>5
    <3> QED BY <3>1, <3>3, Ends
  <2>8. second \in Inner(heap)
    BY <2>3, Ends, Constants DEF Inner
  <2> QED BY <2>7, <2>8
<1> QED BY <1>1, <1>2 DEF Coalesced

\* A walk along a free list meets the free chunks of its sizes.
LEMMA IInvFreeLists == IInv => FreeListsExact
<1> SUFFICES ASSUME IInv, NEW n \in Slots
             PROVE  /\ OnList(heap, n) = InSlot(heap, n)
                    /\ \A c \in InSlot(heap, n) : heap.free.prev[heap.free.next[c]] = c
  BY DEF FreeListsExact
<1> DEFINE S == FreeChunks(heap)
           R == InSlot(heap, n)
           hd == heap.free_chunk
           p == heap.free.next
<1>1. ListsOf(heap.free, hd, S, slot_in(heap))
  BY DEF IInv, Book, HeapInv
<1>2. R = OnSlot(S, slot_in(heap), n) /\ R \subseteq S /\ S \subseteq Addr
  BY <1>1 DEF InSlot, OnSlot, slot_in, ListsOf
<1>3. OneRing(p, R) /\ (hd[n] = NULL => R = {}) /\ (hd[n] # NULL => hd[n] \in R)
  <2> DEFINE sl == slot_in(heap)
  <2>1. /\ hd[n] # NULL => hd[n] \in S /\ sl[hd[n]] = n
        /\ Listed(heap.free, hd, S, sl, n)
    BY <1>1 DEF ListsOf
  <2> HIDE DEF S, R, hd, sl
  <2>2. R = {c \in S : sl[c] = n}
    BY <1>2 DEF sl, OnSlot
  <2> QED BY <1>2, <2>1, <2>2 DEF Listed, sl
<1>4. IsFiniteSet(S)
  <2>1. S \subseteq first .. last
    BY <1>2, AddrIs, Ends
  <2>2. IsFiniteSet(first .. last)
    BY Ends, FS_Interval
  <2> HIDE DEF S
  <2> QED BY <2>1, <2>2, FS_Subset
<1>5. PICK N \in Nat : N = Cardinality(S)
  BY <1>4, FS_CardinalityType
<1>6. IsFiniteSet(R) /\ Cardinality(R) \in Nat /\ Cardinality(R) <= N + 1
  <2> HIDE DEF S, R
  <2>1. IsFiniteSet(R) /\ Cardinality(R) <= Cardinality(S)
    BY <1>2, <1>4, FS_Subset
  <2>2. Cardinality(R) \in Nat
    BY <2>1, FS_CardinalityType
  <2> QED BY <1>5, <2>1, <2>2
<1>7. OnList(heap, n) = Reached({hd[n]} \ {NULL}, p, N)
  BY <1>5 DEF OnList
<1>8. OnList(heap, n) = R
  <2> HIDE DEF R, p, hd
  <2>1. CASE hd[n] = NULL
    <3>1. {hd[n]} \ {NULL} = {}
      BY <2>1
    <3> QED BY <1>3, <1>7, <2>1, <3>1, ReachedNone
  <2>2. CASE hd[n] # NULL
    <3>1. {hd[n]} \ {NULL} = {hd[n]}
      BY <2>2
    <3>2. PICK h \in R : h = hd[n]
      BY <1>3, <2>2
    <3>3. Reached({h}, p, N) = R
      BY <1>3, <1>6, ReachedRing
    <3> QED BY <1>7, <3>1, <3>2, <3>3
  <2> QED BY <2>1, <2>2
<1>9. \A c \in R : heap.free.prev[heap.free.next[c]] = c
  BY <1>1, <1>2 DEF ListsOf
<1> QED BY <1>8, <1>9

\* Every call keeps the balance.
LEMMA NextBalance ==
  ASSUME Book(heap, block), Balanced(heap, 0), [Next]_vars
  PROVE  Balanced(heap, 0)'
<1>0. HeapInv(heap)
  BY DEF Book
<1>1. CASE UNCHANGED heap
  BY <1>1 DEF Balanced, Weight, share, Inner, Chunks, memory_chunk_size
<1>2. ASSUME NEW size \in Nat, NEW n \in Slots, finds(heap, size, n)
      PROVE  /\ n \in candidates(heap, size)
             /\ Balanced(take(heap, n, size), 0)
  BY <1>0, <1>2, TakeBalance DEF finds
<1>3. ASSUME NEW g, NEW c, HeapInv(g), Balanced(g, 0), c \in UsedChunks(g),
             heap' = freed(g, c)
      PROVE  Balanced(heap, 0)'
  <2>1. Balanced(freed(g, c), 0)
    BY <1>3, FreedBalance
  <2> QED BY <1>3, <2>1
<1>4. CASE \E size \in Sizes : malloc(size)
  <2>1. ASSUME NEW size \in Sizes, NEW n \in Slots, finds(heap, size, n),
               heap' = take(heap, n, size)
        PROVE  Balanced(heap, 0)'
    <3>1. size \in Nat
      BY ClientAssumption, Constants
    <3>2. Balanced(take(heap, n, size), 0)
      BY <1>2, <2>1, <3>1
    <3> QED BY <2>1, <3>2
  <2> QED BY <1>1, <1>4, <2>1 DEF malloc, vars
<1>5. CASE \E a \in Arrays : calloc(a[1], a[2])
  <2>1. ASSUME NEW a \in Arrays, NEW n \in Slots,
               finds(heap, (a[1] * a[2]) % SIZE_MOD, n),
               heap' = take(heap, n, (a[1] * a[2]) % SIZE_MOD)
        PROVE  Balanced(heap, 0)'
    <3>1. PICK size \in Nat : size = (a[1] * a[2]) % SIZE_MOD
      BY Product
    <3>2. Balanced(take(heap, n, size), 0)
      BY <1>2, <2>1, <3>1
    <3> QED BY <2>1, <3>1, <3>2
  <2> QED BY <1>1, <1>5, <2>1 DEF calloc
<1>6. CASE \E p \in DOMAIN block \cup {NULL} : free(p)
  <2>1. ASSUME NEW p \in DOMAIN block, heap' = freed(heap, chunk_of(p))
        PROVE  Balanced(heap, 0)'
    <3>1. chunk_of(p) \in UsedChunks(heap)
      BY BookChunks
    <3> QED BY <1>0, <1>3, <2>1, <3>1
  <2> QED BY <1>1, <1>6, <2>1 DEF free, vars
<1>7. CASE \E p \in DOMAIN block, size \in Sizes : realloc(p, size)
  <2>1. ASSUME NEW p \in DOMAIN block, heap' = freed(heap, chunk_of(p))
        PROVE  Balanced(heap, 0)'
    <3>1. chunk_of(p) \in UsedChunks(heap)
      BY BookChunks
    <3> QED BY <1>0, <1>3, <2>1, <3>1
  <2>2. ASSUME NEW p \in DOMAIN block, NEW size \in Sizes,
               NEW n \in Slots, finds(heap, size, n),
               heap' = freed(take(heap, n, size), chunk_of(p))
        PROVE  Balanced(heap, 0)'
    <3> DEFINE g == take(heap, n, size)
    <3>1. size \in Nat
      BY ClientAssumption, Constants
    <3>2. n \in candidates(heap, size) /\ Balanced(g, 0)
      BY <1>2, <2>2, <3>1
    <3>3. HeapInv(g) /\ UsedChunks(g) = UsedChunks(heap) \cup {taken(heap, n)}
      BY <1>0, <3>1, <3>2, Take
    <3>4. chunk_of(p) \in UsedChunks(heap)
      BY BookChunks
    <3>5. heap' = freed(g, chunk_of(p))
      BY <2>2
    <3> HIDE DEF g
    <3> QED BY <1>3, <3>2, <3>3, <3>4, <3>5
  <2> QED BY <1>1, <1>7, <2>1, <2>2 DEF realloc
<1> QED BY <1>1, <1>4, <1>5, <1>6, <1>7 DEF Next, vars

\* v counts the w of an element of A, less 2k, and that of the others against
\* it, with k for each.
Parted(v, w, S, A, k) ==
  /\ \A x \in S : w[x] \in Int
  /\ \A x \in S \cap A : v[x] = w[x] - 2 * k
  /\ \A x \in S \ A : v[x] = -(w[x] + k)

\* A sum of such a v, taken apart.
LEMMA SumApart ==
  ASSUME NEW S, IsFiniteSet(S), NEW A, NEW k \in Int, NEW w, NEW v,
         Parted(v, w, S, A, k)
  PROVE  SumFunctionOnSet(v, S)
           = SumFunctionOnSet(w, S \cap A) - SumFunctionOnSet(w, S \ A)
               - k * (Cardinality(S) + Cardinality(S \cap A))
<1> DEFINE Good(s) == SumFunctionOnSet(v, s)
                        = SumFunctionOnSet(w, s \cap A) - SumFunctionOnSet(w, s \ A)
                            - k * (Cardinality(s) + Cardinality(s \cap A))
           T == {n \in Nat : \A s \in SUBSET S : Cardinality(s) = n => Good(s)}
<1>0. /\ \A x \in S : w[x] \in Int
      /\ \A x \in S \cap A : v[x] = w[x] - 2 * k
      /\ \A x \in S \ A : v[x] = -(w[x] + k)
  BY DEF Parted
<1>1. 0 \in T
  <2> SUFFICES ASSUME NEW s \in SUBSET S, Cardinality(s) = 0
               PROVE  Good(s)
    OBVIOUS
  <2>1. s = {} /\ s \cap A = {} /\ s \ A = {}
    BY Smaller
  <2>2. /\ SumFunctionOnSet(v, {}) = 0 /\ SumFunctionOnSet(w, {}) = 0
        /\ Cardinality({}) = 0
    BY SumEmpty, FS_EmptySet
  <2>3. k * (0 + 0) = 0
    OBVIOUS
  <2> QED BY <2>1, <2>2, <2>3
<1>2. ASSUME NEW n \in T
      PROVE  n + 1 \in T
  <2>1. n \in Nat /\ \A s \in SUBSET S : Cardinality(s) = n => Good(s)
    OBVIOUS
  <2> HIDE DEF T
  <2> SUFFICES ASSUME NEW s \in SUBSET S, Cardinality(s) = n + 1
               PROVE  Good(s)
    BY <2>1 DEF T
  <2>2. PICK x \in s : x \in S /\ Cardinality(s \ {x}) = n
    BY <2>1, Smaller
  <2> DEFINE t == s \ {x}
             B == t \cap A
             C == t \ A
  <2>3. /\ t \in SUBSET S /\ x \notin t /\ s = t \cup {x} /\ Cardinality(t) = n
        /\ B \in SUBSET S /\ C \in SUBSET S /\ x \notin B /\ x \notin C
    BY <2>2
  <2>4. /\ x \in A => s \cap A = B \cup {x} /\ s \ A = C
        /\ x \notin A => s \cap A = B /\ s \ A = C \cup {x}
    BY <2>3
  <2>5. Good(t)
    BY <2>1, <2>3
  <2>6. IsFiniteSet(t) /\ IsFiniteSet(B) /\ IsFiniteSet(C)
    BY <2>3, FS_Subset
  <2>7. /\ \A y \in t : v[y] \in Int
        /\ \A y \in B : w[y] \in Int
        /\ \A y \in C : w[y] \in Int
        /\ w[x] \in Int /\ v[x] \in Int
    BY <1>0, <2>2, <2>3
  <2>8. SumFunctionOnSet(v, t) = SumFunctionOnSet(w, B) - SumFunctionOnSet(w, C)
          - k * (Cardinality(t) + Cardinality(B))
    BY <2>5
  <2> HIDE DEF t, B, C
  <2>9. PICK p \in Int, q \in Int, r \in Int :
          /\ p = SumFunctionOnSet(v, t) /\ q = SumFunctionOnSet(w, B)
          /\ r = SumFunctionOnSet(w, C)
    BY <2>6, <2>7, SumJoins
  <2>10. /\ SumFunctionOnSet(v, t \cup {x}) = p + v[x]
         /\ SumFunctionOnSet(w, B \cup {x}) = q + w[x]
         /\ SumFunctionOnSet(w, C \cup {x}) = r + w[x]
    BY <2>3, <2>6, <2>7, <2>9, SumJoins
  <2>11. PICK j \in Int : j = Cardinality(B)
    BY <2>6, FS_CardinalityType
  <2>12. Cardinality(B \cup {x}) = j + 1
    BY <2>3, <2>6, <2>11, FS_AddElement
  <2>13. p = q - r - k * (n + j)
    BY <2>3, <2>8, <2>9, <2>11
  <2>14. PICK m \in Int : m = k * (n + j)
    BY <2>1
  <2>15. CASE x \in A
    <3>1. k * (n + 1 + (j + 1)) = m + 2 * k
      BY <2>1, <2>14
    <3>2. v[x] = w[x] - 2 * k
      BY <1>0, <2>2, <2>15
    <3>3. p + v[x] = (q + w[x]) - r - k * (n + 1 + (j + 1))
      BY <2>7, <2>13, <2>14, <3>1, <3>2
    <3>4. /\ SumFunctionOnSet(v, s) = p + v[x]
          /\ SumFunctionOnSet(w, s \cap A) = q + w[x] /\ SumFunctionOnSet(w, s \ A) = r
          /\ Cardinality(s \cap A) = j + 1 /\ Cardinality(s) = n + 1
      BY <2>3, <2>4, <2>9, <2>10, <2>12, <2>15
    <3> QED BY <3>3, <3>4
  <2>16. CASE x \notin A
    <3>1. k * (n + 1 + j) = m + k
      BY <2>1, <2>14
    <3>2. v[x] = -(w[x] + k)
      BY <1>0, <2>2, <2>16
    <3>3. p + v[x] = q - (r + w[x]) - k * (n + 1 + j)
      BY <2>7, <2>13, <2>14, <3>1, <3>2
    <3>4. /\ SumFunctionOnSet(v, s) = p + v[x]
          /\ SumFunctionOnSet(w, s \cap A) = q /\ SumFunctionOnSet(w, s \ A) = r + w[x]
          /\ Cardinality(s \cap A) = j /\ Cardinality(s) = n + 1
      BY <2>3, <2>4, <2>9, <2>10, <2>11, <2>16
    <3> QED BY <3>3, <3>4
  <2> QED BY <2>15, <2>16
<1>3. T = Nat
  <2> HIDE DEF T
  <2>1. T \in SUBSET Nat
    BY DEF T
  <2> QED BY <1>1, <1>2, <2>1, NatSetInduction
<1>4. Cardinality(S) \in Nat
  BY FS_CardinalityType
<1> QED BY <1>3, <1>4

\* In a balanced heap the counters agree as CountersMatch says they do.
LEMMA BalancedMatch ==
  ASSUME HeapInv(heap), Balanced(heap, 0)
  PROVE  CountersMatch
<1> DEFINE S == Inner(heap)
           A == FreeChunks(heap)
           w == [c \in Addr |-> memory_chunk_size(heap, c)]
           v == share(heap)
<1>1. /\ RingOf(heap.all, Chunks(heap)) /\ heap \in HeapType
      /\ heap.used[first] = 1 /\ heap.used[last] = 1
  BY DEF HeapInv
<1>2. /\ S \cap A = FreeChunks(heap) /\ S \ A = UsedChunks(heap)
      /\ \A c \in S : c \in Addr /\ (c \in A <=> heap.used[c] # 1)
  BY <1>1 DEF Inner, FreeChunks, UsedChunks, Chunks, HeapType
<1>3. \A c \in S : /\ w[c] \in Int
                   /\ v[c] = IF c \in A THEN w[c] - 2 * HEADER_SIZE
                                        ELSE -(w[c] + HEADER_SIZE)
  BY <1>1, <1>2, WeightIs DEF share
<1>4. /\ Weight(heap) = SumFunctionOnSet(v, S)
      /\ Total(heap, FreeChunks(heap)) = SumFunctionOnSet(w, S \cap A)
      /\ Total(heap, UsedChunks(heap)) = SumFunctionOnSet(w, S \ A)
  BY <1>2 DEF Weight, Total
<1>5. IsFiniteSet(S) /\ IsFiniteSet(S \cap A) /\ IsFiniteSet(S \ A)
  BY <1>2, ChunksFinite
<1>6. PICK i \in Int, j \in Int : i = Cardinality(Inner(heap)) /\ j = Cardinality(FreeChunks(heap))
  BY ChunksFinite
<1> HIDE DEF S, A, w, v
<1>7. SumFunctionOnSet(v, S)
        = SumFunctionOnSet(w, S \cap A) - SumFunctionOnSet(w, S \ A)
            - HEADER_SIZE * (Cardinality(S) + Cardinality(S \cap A))
  <2>1. PICK k \in Int : k = HEADER_SIZE
    BY Constants
  <2>2. Parted(v, w, S, A, k)
    BY <1>3, <2>1 DEF Parted
  <2>3. SumFunctionOnSet(v, S)
          = SumFunctionOnSet(w, S \cap A) - SumFunctionOnSet(w, S \ A)
              - k * (Cardinality(S) + Cardinality(S \cap A))
    BY <1>5, <2>2, SumApart
  <2> QED BY <2>1, <2>3
<1>8. PICK p \in Int, q \in Int :
        p = SumFunctionOnSet(w, S \cap A) /\ q = SumFunctionOnSet(w, S \ A)
  <2>1. (\A c \in S \cap A : w[c] \in Int) /\ (\A c \in S \ A : w[c] \in Int)
    BY <1>3
  <2> QED BY <1>5, <2>1, SumJoins
<1>9. Weight(heap) = p - q - HEADER_SIZE * (i + j)
  BY <1>2, <1>4, <1>6, <1>7, <1>8 DEF S
<1>10. PICK a \in Int : a = p - q - HEADER_SIZE * (i - 1 + j)
  BY Constants
<1>11. HEADER_SIZE + Weight(heap) + 0 = a
  <2>1. PICK l \in Int : l = HEADER_SIZE * (i + j)
    BY Constants
  <2>2. HEADER_SIZE * (i - 1 + j) = l - HEADER_SIZE
    BY <2>1, Constants
  <2> QED BY <1>9, <1>10, <2>1, <2>2, Constants
<1>12. PICK d \in Int : d = heap.mem_free - heap.mem_used
  BY <1>1 DEF HeapType, SizeT
<1>13. d % SIZE_MOD = a % SIZE_MOD
  BY <1>11, <1>12, CongruentIs DEF Balanced
<1>14. PICK m \in Int, b \in Int :
         /\ m = heap.mem_meta /\ m % SIZE_MOD = m
         /\ b = 2 * SIZEOF_CHUNK + HEADER_SIZE * i
  <2>1. PICK x \in SizeT : x = heap.mem_meta
    BY <1>1 DEF HeapType
  <2>2. x \in Int /\ x % SIZE_MOD = x
    BY Constants DEF SizeT
  <2>3. 2 * SIZEOF_CHUNK + HEADER_SIZE * i \in Int
    BY Constants
  <2> QED BY <2>1, <2>2, <2>3
<1>15. m % SIZE_MOD = b % SIZE_MOD
  BY <1>6, <1>14, CongruentIs DEF Balanced
<1>16. heap.mem_meta =
         (2 * SIZEOF_CHUNK + HEADER_SIZE * Cardinality(Inner(heap))) % SIZE_MOD
  BY <1>6, <1>14, <1>15
<1>17. (heap.mem_free - heap.mem_used) % SIZE_MOD =
         (Total(heap, FreeChunks(heap)) - Total(heap, UsedChunks(heap))
            - HEADER_SIZE * (Cardinality(Inner(heap)) - 1
                               + Cardinality(FreeChunks(heap)))) % SIZE_MOD
  BY <1>4, <1>6, <1>8, <1>10, <1>12, <1>13
<1> QED BY <1>16, <1>17 DEF CountersMatch

-----------------------------------------------------------------------------
(* Theorems.                                                               *)

\* The invariant is inductive.
THEOREM Invariance == Spec => []IInv
<1>1. Init => IInv
  BY InitIInv
<1>2. IInv /\ [Next]_vars => IInv'
  BY NextIInv
<1> QED BY <1>1, <1>2, PTL DEF Spec

\* Pointers of the chunk list always point at headers, those of a free list at
\* headers or at what a client wrote, and counters are size_t, whatever is
\* asked for.
THEOREM TypeCorrect == Spec => []TypeOK
BY Invariance, IInvTypeOK, PTL

\* The chunk list is always a ring through all chunks in address order, with
\* room in every chunk for the list node free puts there.
THEOREM InOrder == Spec => []AllListInOrder
BY Invariance, IInvInOrder, PTL

\* free never leaves two free chunks side by side, and a heap with nothing in
\* use is one free chunk.
THEOREM CoalescedAlways == Spec => []Coalesced
BY Invariance, IInvCoalesced, PTL

\* Each free list is one ring through all the free chunks of its sizes, and
\* through nothing else: what malloc finds on a list is free and large enough,
\* and no free chunk is lost to it.
THEOREM FreeListsExactAlways == Spec => []FreeListsExact
BY Invariance, IInvFreeLists, PTL

\* The accounting of memory.c: mem_meta is exact, and mem_free and mem_used
\* drift by the same amount, however malloc cuts and free merges.
THEOREM CountersMatchAlways == Spec => []CountersMatch
<1> DEFINE Inv == IInv /\ Balanced(heap, 0)
<1>1. Init => Inv
  BY InitIInv, InitialBalance DEF Init
<1>2. Inv /\ [Next]_vars => Inv'
  BY NextIInv, NextBalance DEF IInv
<1>3. Inv => CountersMatch
  BY BalancedMatch DEF IInv, Book
<1> HIDE DEF Inv
<1> QED BY <1>1, <1>2, <1>3, PTL DEF Spec

\* No call touches the blocks of the clients it does not serve.
THEOREM Untouched == Spec => OthersUntouched
<1>1. IInv /\ [Next]_vars => Kept(heap, block, heap', block')
  BY NextIInv
<1>2. Kept(heap, block, heap', block') =>
        \A p \in DOMAIN block \cap DOMAIN block' :
          /\ memory_chunk_size(heap, chunk_of(p)) = memory_chunk_size(heap', chunk_of(p))
          /\ heap'.used[chunk_of(p)] = 1
  BY DEF Kept
<1>3. IInv /\ [Next]_vars =>
        [\A p \in DOMAIN block \cap DOMAIN block' :
          /\ memory_chunk_size(heap, chunk_of(p)) = memory_chunk_size(heap', chunk_of(p))
          /\ heap'.used[chunk_of(p)] = 1]_vars
  BY <1>1, <1>2
<1> QED BY <1>3, Invariance, PTL DEF Spec, OthersUntouched

\* When no client asks for so much that rounding it up leaves size_t, each
\* holds the block it asked for: the blocks are the used chunks and have room.
THEOREM Agreement == NoWrap => (Spec => []OwnersAgree)
<1> SUFFICES ASSUME NoWrap PROVE Spec => []OwnersAgree
  OBVIOUS
<1> DEFINE Inv == IInv /\ Room(heap, block)
<1>1. Init => Inv
  BY InitIInv
<1>2. Inv /\ [Next]_vars => Inv'
  BY NextIInv
<1>3. Inv => OwnersAgree
  BY DEF IInv, Book, Room, OwnersAgree, RoomForAll
<1> HIDE DEF Inv
<1> QED BY <1>1, <1>2, <1>3, PTL DEF Spec

-----------------------------------------------------------------------------
(* Memory implements Heap.                                                 *)

\* A block lies in the arena, apart from all others.
LEMMA Layout ==
  ASSUME NEW h, NEW b, Book(h, b), Room(h, b), NEW p \in DOMAIN b
  PROVE  /\ p \in Int /\ b[p] \in Nat
         /\ first <= p /\ p + b[p] <= last /\ p <= last
         /\ \A q \in DOMAIN b \ {p} : Promise!Apart(p, b[p], q, b[q])
<1>0. RingOf(h.all, Chunks(h)) /\ HEADER_SIZE \in Nat
  BY Constants DEF Book, HeapInv
<1>1. ASSUME NEW q \in DOMAIN b
      PROVE  /\ q \in Int /\ b[q] \in Nat
             /\ chunk_of(q) \in Int /\ chunk_of(q) \in Chunks(h) /\ q = chunk_of(q) + HEADER_SIZE
             /\ h.all.next[chunk_of(q)] \in Int
             /\ q + b[q] <= h.all.next[chunk_of(q)]
             /\ \A c \in Chunks(h) : c > chunk_of(q) => c >= h.all.next[chunk_of(q)]
             /\ first <= chunk_of(q) /\ h.all.next[chunk_of(q)] <= last
  <2> DEFINE e == chunk_of(q)
  <2>1. q \in Int /\ e \in UsedChunks(h)
    BY BookChunks
  <2>2. e = q - HEADER_SIZE
    BY DEF chunk_of
  <2>3. b[q] \in Nat /\ b[q] <= memory_chunk_size(h, e)
    BY DEF Book, Room
  <2>4. e \in Chunks(h) /\ e # last
    BY <2>1 DEF UsedChunks, Inner
  <2>5. /\ e \in Int /\ h.all.next[e] \in Int
        /\ memory_chunk_size(h, e) \in Int
        /\ h.all.next[e] = e + HEADER_SIZE + memory_chunk_size(h, e)
    BY <1>0, <2>4, ChunkSize
  <2>6. /\ h.all.next[e] \in Chunks(h)
        /\ \A c \in Chunks(h) : c > e => c >= h.all.next[e]
    BY <1>0, <2>4 DEF RingOf
  <2>7. first <= e /\ h.all.next[e] <= last
    BY <2>4, <2>6, AddrIs DEF Chunks
  <2> HIDE DEF e
  <2>8. q = e + HEADER_SIZE /\ q + b[q] <= h.all.next[e]
    BY <1>0, <2>1, <2>2, <2>3, <2>5
  <2> QED BY <2>1, <2>3, <2>4, <2>5, <2>6, <2>7, <2>8 DEF e
<1>2. ASSUME NEW q \in DOMAIN b \ {p}
      PROVE  Promise!Apart(p, b[p], q, b[q])
  <2> DEFINE c == chunk_of(p)
             e == chunk_of(q)
  <2>1. /\ p \in Int /\ b[p] \in Nat /\ c \in Int /\ c \in Chunks(h)
        /\ p = c + HEADER_SIZE /\ p + b[p] <= h.all.next[c] /\ h.all.next[c] \in Int
        /\ \A d \in Chunks(h) : d > c => d >= h.all.next[c]
    BY <1>1
  <2>2. /\ q \in Int /\ b[q] \in Nat /\ e \in Int /\ e \in Chunks(h)
        /\ q = e + HEADER_SIZE /\ q + b[q] <= h.all.next[e] /\ h.all.next[e] \in Int
        /\ \A d \in Chunks(h) : d > e => d >= h.all.next[e]
    BY <1>1
  <2> HIDE DEF c, e
  <2>3. CASE c < e
    BY <2>1, <2>2, <2>3, <1>0 DEF Promise!Apart
  <2>4. CASE e < c
    BY <2>1, <2>2, <2>4, <1>0 DEF Promise!Apart
  <2>5. c # e
    BY <2>1, <2>2
  <2> QED BY <2>1, <2>2, <2>3, <2>4, <2>5
<1>3. p + b[p] <= last /\ first <= p /\ p <= last
  BY <1>0, <1>1, Ends
<1> QED BY <1>1, <1>2, <1>3

\* What malloc or calloc hands out is what Heap allows.
LEMMA TakeFits ==
  ASSUME NEW h, Book(h, block), Room(h, block),
         NEW size \in Nat, NEW n \in candidates(h, size),
         NEW asked \in Nat, asked <= rounded(size)
  PROVE  LET q == data_of(taken(h, n))
         IN  q \in first .. last /\ Promise!Fits(q, asked, {})
<1> DEFINE q == data_of(taken(h, n))
           g == take(h, n, size)
           d == Held(block, q, asked)
<1>1. q \notin DOMAIN block /\ Book(g, d) /\ Room(g, d)
  BY TakeStep
<1>2. /\ DOMAIN d = DOMAIN block \cup {q} /\ d[q] = asked
      /\ \A r \in DOMAIN block : d[r] = block[r]
  BY <1>1 DEF Held
<1> HIDE DEF q, g, d
<1>3. /\ q \in Int /\ first <= q /\ q <= last /\ q + asked <= last
      /\ \A r \in DOMAIN d \ {q} : Promise!Apart(q, asked, r, d[r])
  BY <1>1, <1>2, Layout
<1>4. q \in first .. last
  BY <1>3, Ends
<1>5. \A r \in DOMAIN block \ {} : r # q /\ Promise!Apart(q, asked, r, block[r])
  BY <1>1, <1>2, <1>3
<1> QED BY <1>3, <1>4, <1>5 DEF Promise!Fits, q

\* Every step of Memory is a step of Heap or leaves the blocks alone.
LEMMA PromiseStep ==
  ASSUME NoWrap, IInv, Room(heap, block), [Next]_vars
  PROVE  [Promise!Next]_block
<1> USE DEF IInv
<1>0. CASE UNCHANGED vars
  BY <1>0 DEF vars
<1>1. ASSUME NEW size \in Sizes, malloc(size)
      PROVE  [Promise!Next]_block
  <2>1. size \in Nat /\ size \in Requests /\ size <= rounded(size)
    BY ClientAssumption, Constants, Rounded DEF Requests, NoWrap
  <2>2. ASSUME NEW n \in Slots, finds(heap, size, n),
               block' = Held(block, data_of(taken(heap, n)), size)
        PROVE  Promise!Malloc(size)
    <3>1. n \in candidates(heap, size)
      BY <2>2 DEF finds
    <3>2. /\ data_of(taken(heap, n)) \in first .. last
          /\ Promise!Fits(data_of(taken(heap, n)), size, {})
      BY <2>1, <3>1, TakeFits
    <3> QED BY <2>2, <3>2 DEF Promise!Malloc, Promise!With, Held
  <2> QED BY <1>1, <2>1, <2>2 DEF malloc, vars, Promise!Next
<1>2. ASSUME NEW a \in Arrays, calloc(a[1], a[2])
      PROVE  [Promise!Next]_block
  <2> DEFINE product == (a[1] * a[2]) % SIZE_MOD
             asked == a[1] * a[2]
  <2>1. asked \in Nat /\ product \in Nat /\ asked \in Requests
    BY Product DEF Requests
  <2>2. asked + ALIGN - 1 < SIZE_MOD
    BY DEF NoWrap
  <2>3. product = asked
    BY <2>1, <2>2, Constants, Product
  <2>4. calloc(a[1], a[2]) <=>
          \/ /\ candidates(heap, product) = {}
             /\ wild' = (wild \/ product > 0)
             /\ UNCHANGED <<heap, block>>
          \/ \E n \in Slots :
               /\ finds(heap, product, n)
               /\ heap' = take(heap, n, product)
               /\ block' = Held(block, data_of(taken(heap, n)), asked)
               /\ UNCHANGED wild
    BY DEF calloc
  <2> HIDE DEF product, asked
  <2>5. asked <= rounded(product)
    BY <2>1, <2>2, <2>3, Rounded
  <2>6. ASSUME NEW n \in Slots, finds(heap, product, n),
               block' = Held(block, data_of(taken(heap, n)), asked)
        PROVE  Promise!Malloc(asked)
    <3>1. n \in candidates(heap, product)
      BY <2>6 DEF finds
    <3>2. /\ data_of(taken(heap, n)) \in first .. last
          /\ Promise!Fits(data_of(taken(heap, n)), asked, {})
      BY <2>1, <2>5, <3>1, TakeFits
    <3> QED BY <2>6, <3>2 DEF Promise!Malloc, Promise!With, Held
  <2> QED BY <1>2, <2>1, <2>4, <2>6 DEF Promise!Next
<1>3. ASSUME NEW p \in DOMAIN block \cup {NULL}, free(p)
      PROVE  [Promise!Next]_block
  <2>1. block' = Dropped(block, p) => Promise!Free(p)
    BY DEF Dropped, Promise!Free, Promise!Without
  <2> QED BY <1>3, <2>1 DEF free, vars, Promise!Next
<1>4. ASSUME NEW p \in DOMAIN block, NEW size \in Sizes, realloc(p, size)
      PROVE  [Promise!Next]_block
  <2>1. size \in Nat /\ size \in Requests /\ size <= rounded(size)
    BY ClientAssumption, Constants, Rounded DEF Requests, NoWrap
  <2>2. CASE /\ memory_chunk_size(heap, chunk_of(p)) >= size
             /\ block' = Held(block, p, size) /\ UNCHANGED <<heap, wild>>
    <3> DEFINE d == Held(block, p, size)
    <3>1. memory_chunk_size(heap, chunk_of(p)) \in Int
      BY BookChunks, ChunkSize DEF Book, HeapInv, UsedChunks, Inner
    <3>2. Book(heap, d) /\ Room(heap, d)
      BY <2>1, <2>2, <3>1, ResizeStep
    <3>3. /\ DOMAIN d = DOMAIN block /\ d[p] = size
          /\ \A q \in DOMAIN block \ {p} : d[q] = block[q]
      BY DEF Held
    <3>4. block' = Promise!With(p, size)
      BY <2>2 DEF Held, Promise!With
    <3> HIDE DEF d
    <3>5. Promise!Fits(p, size, {p})
      BY <3>2, <3>3, Layout DEF Promise!Fits
    <3> QED BY <2>1, <3>4, <3>5 DEF Promise!Next, Promise!Realloc
  <2>3. CASE block' = Dropped(block, p)
    BY <2>1, <2>3 DEF Dropped, Promise!Next, Promise!Realloc, Promise!Without
  <2>4. ASSUME NEW n \in Slots, finds(heap, size, n),
               block' = Dropped(Held(block, data_of(taken(heap, n)), size), p)
        PROVE  Promise!Realloc(p, size)
    <3> DEFINE q == data_of(taken(heap, n))
    <3>1. n \in candidates(heap, size)
      BY <2>4 DEF finds
    <3>2. q \in first .. last /\ Promise!Fits(q, size, {})
      BY <2>1, <3>1, TakeFits
    <3>3. q \notin DOMAIN block
      BY <2>1, <3>1, TakeStep
    <3> HIDE DEF q
    <3>4. block' = [r \in (DOMAIN block \ {p}) \cup {q} |->
                      IF r = q THEN size ELSE block[r]]
      <4> DEFINE d == Held(block, q, size)
      <4>1. DOMAIN d = DOMAIN block \cup {q}
        BY DEF Held
      <4>2. DOMAIN d \ {p} = (DOMAIN block \ {p}) \cup {q}
        BY <3>3, <4>1
      <4>3. \A r \in DOMAIN d : d[r] = IF r = q THEN size ELSE block[r]
        BY DEF Held
      <4> HIDE DEF d
      <4>4. block' = Dropped(d, p)
        BY <2>4 DEF d, q
      <4> QED BY <4>2, <4>3, <4>4 DEF Dropped
    <3> QED BY <3>2, <3>4 DEF Promise!Realloc
  <2> QED BY <1>4, <2>1, <2>2, <2>3, <2>4 DEF realloc, Promise!Next
<1> QED BY <1>0, <1>1, <1>2, <1>3, <1>4 DEF Next

\* memory.c keeps the promise of Heap: blocks lie in the arena, never overlap,
\* and stay as they are until their owner frees or reallocates them.
THEOREM Implements == NoWrap => (Spec => HeapPromise)
<1> SUFFICES ASSUME NoWrap PROVE Spec => HeapPromise
  OBVIOUS
<1> DEFINE Inv == IInv /\ Room(heap, block)
<1>1. Init => Inv
  BY InitIInv
<1>2. Inv /\ [Next]_vars => Inv'
  BY NextIInv
<1>3. Init => Promise!Init
  BY DEF Init, Promise!Init
<1>4. Inv /\ [Next]_vars => [Promise!Next]_block
  BY PromiseStep
<1> HIDE DEF Inv
<1> QED BY <1>1, <1>2, <1>3, <1>4, PTL DEF Spec, HeapPromise, Promise!Spec

\* No two blocks in use ever share a byte.
THEOREM Disjointness == NoWrap => (Spec => []Promise!Disjoint)
<1> SUFFICES ASSUME NoWrap PROVE Spec => []Promise!Disjoint
  OBVIOUS
<1> DEFINE Inv == IInv /\ Room(heap, block)
<1>1. Init => Inv
  BY InitIInv
<1>2. Inv /\ [Next]_vars => Inv'
  BY NextIInv
<1>3. Inv => Promise!Disjoint
  BY Layout DEF IInv, Promise!Disjoint
<1> HIDE DEF Inv
<1> QED BY <1>1, <1>2, <1>3, PTL DEF Spec

=============================================================================
