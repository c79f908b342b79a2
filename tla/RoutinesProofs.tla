---------------------------- MODULE RoutinesProofs ----------------------------
(***************************************************************************)
(* Proofs about Routines, for all memories, calls, images and buffers.     *)
(***************************************************************************)
EXTENDS Routines, Lemmas

-----------------------------------------------------------------------------
(* The functions of string.c.                                              *)

\* A string has one length.
LEMMA LengthIs ==
  ASSUME NEW m, NEW p, S!Memory(m), S!Terminated(m, p)
  PROVE  /\ S!Length(m, p) \in Nat /\ p + S!Length(m, p) \in DOMAIN m
         /\ m[p + S!Length(m, p)] = 0
         /\ \A j \in 0 .. S!Length(m, p) - 1 : p + j \in DOMAIN m /\ m[p + j] # 0
         /\ \A k \in Nat : m[p + k] = 0 /\ (\A j \in 0 .. k - 1 : m[p + j] # 0)
              => k = S!Length(m, p)
<1>1. /\ DOMAIN m \subseteq Int /\ p \in DOMAIN m /\ p \in Int
      /\ \A a, b \in DOMAIN m : a .. b \subseteq DOMAIN m
  BY DEF S!Memory, S!Terminated
<1>2. PICK z \in DOMAIN m : z >= p /\ m[z] = 0
  BY DEF S!Terminated
<1>3. p .. z \subseteq DOMAIN m /\ z \in Int
  BY <1>1, <1>2
<1> DEFINE T == {k \in Nat : p + k \in DOMAIN m /\ m[p + k] = 0}
<1>4. z - p \in T
  BY <1>1, <1>2, <1>3
<1>5. PICK k \in T : \A j \in T : k <= j
  <2>1. T \in SUBSET Nat /\ T # {}
    BY <1>4
  <2> HIDE DEF T
  <2> QED BY <2>1, LeastNatural
<1>6. k \in Nat /\ p + k \in DOMAIN m /\ m[p + k] = 0 /\ k <= z - p
  BY <1>4, <1>5
<1>7. \A j \in 0 .. k - 1 : p + j \in DOMAIN m /\ m[p + j] # 0
  <2> SUFFICES ASSUME NEW j \in 0 .. k - 1
               PROVE  p + j \in DOMAIN m /\ m[p + j] # 0
    OBVIOUS
  <2>1. j \in Nat /\ ~(k <= j) /\ p + j \in p .. z
    BY <1>1, <1>3, <1>6
  <2>2. j \notin T
    BY <1>5, <2>1
  <2> QED BY <1>3, <2>1, <2>2
<1> HIDE DEF T
<1> DEFINE Q == {a - p : a \in {a \in DOMAIN m : a >= p /\ m[a] = 0}}
<1>8. k \in Q
  <2>1. (p + k) - p = k /\ p + k >= p
    BY <1>1, <1>6
  <2> QED BY <1>6, <2>1
<1>9. \A q \in Q : q \in Nat /\ m[p + q] = 0
  BY <1>1
<1> HIDE DEF Q
<1>10. S!Length(m, p) = CHOOSE q \in Q : \A j \in 0 .. q - 1 : m[p + j] # 0
  BY DEF S!Length, Q
<1>11. ASSUME NEW q \in Nat, m[p + q] = 0, \A j \in 0 .. q - 1 : m[p + j] # 0
       PROVE  q = k
  <2>1. CASE q < k
    <3>1. q \in 0 .. k - 1
      BY <1>6, <2>1
    <3> QED BY <1>7, <1>11, <3>1
  <2>2. CASE k < q
    <3>1. k \in 0 .. q - 1
      BY <1>6, <2>2
    <3> QED BY <1>6, <1>11, <3>1
  <2> QED BY <1>6, <2>1, <2>2
<1>12. S!Length(m, p) = k
  <2>1. S!Length(m, p) \in Q /\ \A j \in 0 .. S!Length(m, p) - 1 : m[p + j] # 0
    BY <1>7, <1>8, <1>10
  <2> QED BY <1>9, <1>11, <2>1
<1> QED BY <1>6, <1>7, <1>11, <1>12

\* The cells from dest + i to dest + j - 1 have what those from src on had,
\* the others are as they were.
Moved(dest, i, j) ==
  \A a \in DOMAIN before :
    cells[a] = IF a \in dest + i .. dest + j - 1
               THEN before[call.src + (a - dest)] ELSE before[a]

\* Where strcat writes: behind the NUL of dest.
Behind == call.dest + S!Length(before, call.dest) + 1

\* A loop that copies from the front or from the back, k characters so far.
MoveInv ==
  call.fun \in {"memmove", "memcpy"} =>
    /\ left \in 0 .. call.n /\ stage # "find"
    /\ stage = "done" => left = 0
    /\ IF S!backward(call)
       THEN /\ d = call.dest + left /\ s = call.src + left
            /\ Moved(call.dest, left, call.n)
       ELSE /\ d = call.dest + (call.n - left) /\ s = call.src + (call.n - left)
            /\ Moved(call.dest, 0, call.n - left)

\* The loop of memset, the same for one character.
FillInv ==
  call.fun = "memset" =>
    /\ left \in 0 .. call.n /\ stage # "find"
    /\ stage = "done" => left = 0
    /\ d = call.dest + (call.n - left)
    /\ \A a \in DOMAIN before :
         cells[a] = IF a \in call.dest .. d - 1 THEN call.src % CHARS ELSE before[a]

\* The loop of memcmp has met no difference before the last turn.
CompareInv ==
  call.fun = "memcmp" =>
    /\ left \in 0 .. call.n /\ stage # "find" /\ cells = before
    /\ d = call.dest + (call.n - left) /\ s = call.src + (call.n - left)
    /\ \A j \in 0 .. call.n - left - 2 : before[call.dest + j] = before[call.src + j]
    /\ left = call.n => value = 0
    /\ left < call.n => value = before[d - 1] - before[s - 1]
    /\ stage = "done" => value # 0 \/ left = 0

\* The loops of strlen, strcpy and strcat are in the string src.
LengthInv ==
  call.fun = "strlen" =>
    /\ value \in Nat /\ s = call.src + value /\ stage # "find" /\ cells = before
    /\ \A j \in 0 .. value - 1 : before[call.src + j] # 0
    /\ stage = "done" => before[s] = 0

CopyInv ==
  call.fun = "strcpy" =>
    \E k \in 0 .. S!Length(before, call.src) :
      /\ d = call.dest + k /\ s = call.src + k /\ stage # "find"
      /\ Moved(call.dest, 0, k)
      /\ stage = "done" => k = S!Length(before, call.src)

CatInv ==
  call.fun = "strcat" =>
    IF stage = "find"
    THEN d \in call.dest .. Behind - 1 /\ s = call.src /\ cells = before
    ELSE \E k \in 0 .. S!Length(before, call.src) :
           d = Behind + k /\ s = call.src + k /\ Moved(Behind, 0, k)

StringInv ==
  /\ S!Memory(before) /\ S!Legal(call, before)
  /\ cells = [a \in DOMAIN before |-> cells[a]]
  /\ stage \in {"find", "loop", "done"}
  /\ MoveInv /\ FillInv /\ CompareInv /\ LengthInv /\ CopyInv /\ CatInv
  /\ call.fun = "strcmp" => cells = before

\* A call leaves these as they are.
LEMMA StringFrame ==
  ASSUME S!Next
  PROVE  call' = call /\ before' = before
BY DEF S!Next, S!find_end, S!copy, S!fill, S!compare, S!count, S!return

\* One character more is moved, from the front.
LEMMA MovedOn ==
  ASSUME StringInv, NEW to \in Int, NEW k \in Nat, Moved(to, 0, k),
         d = to + k, s = call.src + k, d \in DOMAIN before,
         s \in DOMAIN before, s \notin to .. to + k - 1,
         cells' = [cells EXCEPT ![d] = cells[s]], call' = call, before' = before
  PROVE  Moved(to, 0, k + 1)'
<1>1. /\ cells = [a \in DOMAIN before |-> cells[a]] /\ DOMAIN before \subseteq Int
      /\ call.src \in Int
  BY DEF StringInv, S!Memory, S!Legal
<1>2. cells[s] = before[s]
  BY <1>1 DEF Moved
<1> SUFFICES ASSUME NEW a \in DOMAIN before
             PROVE  cells'[a] = IF a \in to + 0 .. to + (k + 1) - 1
                                THEN before[call.src + (a - to)] ELSE before[a]
  BY DEF Moved
<1>3. DOMAIN cells = DOMAIN before /\ a \in Int
  BY <1>1
<1>4. CASE a = d
  <2>1. cells'[a] = cells[s] /\ call.src + (a - to) = s /\ a \in to + 0 .. to + (k + 1) - 1
    BY <1>1, <1>3, <1>4
  <2> QED BY <1>2, <2>1
<1>5. CASE a # d
  <2>1. cells'[a] = cells[a]
    BY <1>3, <1>5
  <2>2. a \in to + 0 .. to + (k + 1) - 1 <=> a \in to + 0 .. to + k - 1
    BY <1>3, <1>5
  <2>3. cells[a] = IF a \in to + 0 .. to + k - 1
                   THEN before[call.src + (a - to)] ELSE before[a]
    BY DEF Moved
  <2> QED BY <2>1, <2>2, <2>3
<1> QED BY <1>4, <1>5

\* One character more is moved, from the back.
LEMMA MovedBack ==
  ASSUME StringInv, NEW to \in Int, NEW k \in Nat, NEW n \in Nat, k > 0, k <= n,
         Moved(to, k, n),
         d = to + k, s = call.src + k, d - 1 \in DOMAIN before,
         s - 1 \in DOMAIN before, s - 1 \notin to + k .. to + n - 1,
         cells' = [cells EXCEPT ![d - 1] = cells[s - 1]], call' = call, before' = before
  PROVE  Moved(to, k - 1, n)'
<1>1. /\ cells = [a \in DOMAIN before |-> cells[a]] /\ DOMAIN before \subseteq Int
      /\ call.src \in Int
  BY DEF StringInv, S!Memory, S!Legal
<1>2. cells[s - 1] = before[s - 1]
  BY <1>1 DEF Moved
<1> SUFFICES ASSUME NEW a \in DOMAIN before
             PROVE  cells'[a] = IF a \in to + (k - 1) .. to + n - 1
                                THEN before[call.src + (a - to)] ELSE before[a]
  BY DEF Moved
<1>3. DOMAIN cells = DOMAIN before /\ a \in Int
  BY <1>1
<1>4. CASE a = d - 1
  <2>1. /\ cells'[a] = cells[s - 1] /\ call.src + (a - to) = s - 1
        /\ a \in to + (k - 1) .. to + n - 1
    BY <1>1, <1>3, <1>4
  <2> QED BY <1>2, <2>1
<1>5. CASE a # d - 1
  <2>1. cells'[a] = cells[a]
    BY <1>3, <1>5
  <2>2. a \in to + (k - 1) .. to + n - 1 <=> a \in to + k .. to + n - 1
    BY <1>3, <1>5
  <2>3. cells[a] = IF a \in to + k .. to + n - 1
                   THEN before[call.src + (a - to)] ELSE before[a]
    BY DEF Moved
  <2> QED BY <2>1, <2>2, <2>3
<1> QED BY <1>4, <1>5

\* The cells keep their addresses.
LEMMA CellsKept ==
  ASSUME NEW a, NEW x, cells = [i \in DOMAIN before |-> cells[i]], before' = before,
         cells' = [cells EXCEPT ![a] = x]
  PROVE  cells' = [i \in DOMAIN before' |-> cells'[i]]
<1>1. DOMAIN cells = DOMAIN before
  OBVIOUS
<1> QED BY <1>1

\* The cells and the stage, in the next state too.
CellsOK ==
  /\ cells = [a \in DOMAIN before |-> cells[a]]
  /\ stage \in {"find", "loop", "done"}

\* The steps of memmove and memcpy.
LEMMA MoveStep ==
  ASSUME StringInv, S!Next, call.fun \in {"memmove", "memcpy"}
  PROVE  MoveInv' /\ CellsOK'
<1>1. /\ S!Memory(before) /\ S!Legal(call, before) /\ MoveInv
      /\ cells = [a \in DOMAIN before |-> cells[a]] /\ DOMAIN before \subseteq Int
  BY DEF StringInv, S!Memory
<1>2. call' = call /\ before' = before
  BY StringFrame
<1>3. /\ call.dest \in Int /\ call.src \in Int /\ call.n \in Nat
      /\ call.dest .. call.dest + call.n - 1 \subseteq DOMAIN before
      /\ call.src .. call.src + call.n - 1 \subseteq DOMAIN before
      /\ call.fun = "memcpy" =>
           (call.dest .. call.dest + call.n - 1) \cap (call.src .. call.src + call.n - 1) = {}
  BY <1>1 DEF S!Legal
<1>4. left \in 0 .. call.n /\ stage # "find"
  BY <1>1 DEF MoveInv
<1>5. CASE S!copy
  <2>1. /\ left > 0 /\ left' = left - 1 /\ stage = "loop" /\ stage' = stage
        /\ cells' = [cells EXCEPT ![d - S!back] = cells[s - S!back]]
        /\ d' = d + S!step /\ s' = s + S!step
    BY <1>5 DEF S!copy, S!goes_on, S!there
  <2>2. CellsOK'
    BY <1>1, <1>2, <2>1, CellsKept DEF CellsOK
  <2>3. CASE S!backward(call)
    <3>1. S!back = 1 /\ S!step = -1
      BY <2>3 DEF S!back, S!step
    <3>2. /\ d = call.dest + left /\ s = call.src + left /\ Moved(call.dest, left, call.n)
      BY <1>1, <2>3 DEF MoveInv
    <3>3. call.dest >= call.src
      BY <1>3, <2>3 DEF S!backward, S!forward
    <3>4. /\ d - 1 \in call.dest .. call.dest + call.n - 1
          /\ s - 1 \in call.src .. call.src + call.n - 1
          /\ s - 1 \notin call.dest + left .. call.dest + call.n - 1
      BY <1>3, <1>4, <2>1, <3>2, <3>3
    <3>5. PICK k \in Nat, to \in Int, n \in Nat : k = left /\ to = call.dest /\ n = call.n
      BY <1>3, <1>4
    <3>6. k > 0 /\ k <= n /\ k - 1 = left' /\ d - 1 \in DOMAIN before /\ s - 1 \in DOMAIN before
      BY <1>3, <1>4, <2>1, <3>4, <3>5
    <3>7. Moved(to, k - 1, n)'
      BY <1>2, <2>1, <3>1, <3>2, <3>4, <3>5, <3>6, MovedBack
    <3>8. S!backward(call)'
      BY <1>2, <2>3 DEF S!backward, S!forward
    <3>9. MoveInv'
      <4>1. /\ left' \in 0 .. call.n /\ d' = call.dest + left' /\ s' = call.src + left'
        BY <1>3, <1>4, <2>1, <3>1, <3>2
      <4>2. Moved(call.dest, left, call.n)'
        BY <1>2, <3>5, <3>6, <3>7 DEF Moved
      <4> QED BY <1>2, <2>1, <3>8, <4>1, <4>2 DEF MoveInv
    <3> QED BY <2>2, <3>9
  <2>4. CASE ~S!backward(call)
    <3>1. S!back = 0 /\ S!step = 1
      BY <2>4 DEF S!back, S!step
    <3>2. /\ d = call.dest + (call.n - left) /\ s = call.src + (call.n - left)
          /\ Moved(call.dest, 0, call.n - left)
      BY <1>1, <2>4 DEF MoveInv
    <3>3. PICK k \in Nat : k = call.n - left
      BY <1>3, <1>4
    <3>4. /\ d \in call.dest .. call.dest + call.n - 1
          /\ s \in call.src .. call.src + call.n - 1
          /\ k < call.n
      BY <1>3, <1>4, <2>1, <3>2, <3>3
    <3>5. s \notin call.dest .. call.dest + k - 1
      <4>1. CASE call.fun = "memcpy"
        BY <1>3, <3>4, <4>1
      <4>2. CASE call.fun = "memmove"
        <5>1. call.dest < call.src \/ call.dest - call.src >= call.n
          BY <2>4, <4>2 DEF S!backward, S!forward
        <5> QED BY <1>3, <3>2, <3>3, <3>4, <5>1
      <4> QED BY <4>1, <4>2
    <3>6. PICK to \in Int : to = call.dest
      BY <1>3
    <3>7. /\ cells' = [cells EXCEPT ![d] = cells[s]] /\ d' = d + 1 /\ s' = s + 1
      <4>1. d - 0 = d /\ s - 0 = s
        BY <1>3, <3>4
      <4> QED BY <2>1, <3>1, <4>1
    <3>8. Moved(to, 0, k + 1)'
      BY <1>2, <1>3, <3>2, <3>3, <3>4, <3>5, <3>6, <3>7, MovedOn
    <3>9. ~S!backward(call)'
      BY <1>2, <2>4 DEF S!backward, S!forward
    <3>10. k + 1 = call.n - left'
      BY <1>3, <1>4, <2>1, <3>3
    <3>11. MoveInv'
      BY <1>2, <1>3, <1>4, <2>1, <3>2, <3>3, <3>6, <3>7, <3>8, <3>9, <3>10 DEF MoveInv, Moved
    <3> QED BY <2>2, <3>11
  <2> QED BY <2>3, <2>4
<1>6. CASE S!return
  <2>1. stage' = "done" /\ UNCHANGED <<cells, d, s, left, value>> /\ ~(left > 0)
    BY <1>6 DEF S!return, S!goes_on
  <2> QED BY <1>1, <1>2, <1>4, <2>1 DEF MoveInv, Moved, CellsOK, S!backward, S!forward
<1> QED BY <1>4, <1>5, <1>6 DEF S!Next, S!find_end, S!fill, S!compare, S!count

\* The steps of memset.
LEMMA FillStep ==
  ASSUME StringInv, S!Next, call.fun = "memset"
  PROVE  FillInv' /\ CellsOK'
<1>1. /\ S!Memory(before) /\ S!Legal(call, before) /\ FillInv
      /\ cells = [a \in DOMAIN before |-> cells[a]] /\ DOMAIN before \subseteq Int
  BY DEF StringInv, S!Memory
<1>2. call' = call /\ before' = before
  BY StringFrame
<1>3. /\ call.dest \in Int /\ call.n \in Nat
      /\ call.dest .. call.dest + call.n - 1 \subseteq DOMAIN before
  BY <1>1 DEF S!Legal
<1>4. /\ left \in 0 .. call.n /\ stage # "find" /\ d = call.dest + (call.n - left)
      /\ \A a \in DOMAIN before :
           cells[a] = IF a \in call.dest .. d - 1 THEN call.src % CHARS ELSE before[a]
  BY <1>1 DEF FillInv
<1>5. CASE S!fill
  <2>1. /\ left > 0 /\ left' = left - 1 /\ stage' = stage /\ stage = "loop" /\ d' = d + 1
        /\ cells' = [cells EXCEPT ![d] = call.src % CHARS]
    BY <1>5 DEF S!fill, S!goes_on, S!stored_char
  <2>2. CellsOK'
    BY <1>1, <1>2, <2>1, CellsKept DEF CellsOK
  <2>3. d \in DOMAIN before /\ d' = call.dest + (call.n - left')
    BY <1>3, <1>4, <2>1
  <2>4. ASSUME NEW a \in DOMAIN before
        PROVE  cells'[a] = IF a \in call.dest .. d' - 1 THEN call.src % CHARS ELSE before[a]
    <3>1. DOMAIN cells = DOMAIN before /\ a \in Int /\ d \in Int
      BY <1>1, <2>3
    <3>2. CASE a = d
      BY <1>3, <1>4, <2>1, <3>1, <3>2
    <3>3. CASE a # d
      <4>1. cells'[a] = cells[a] /\ (a \in call.dest .. d' - 1 <=> a \in call.dest .. d - 1)
        BY <1>3, <2>1, <3>1, <3>3
      <4> QED BY <1>4, <4>1
    <3> QED BY <3>2, <3>3
  <2>5. FillInv'
    BY <1>2, <1>3, <1>4, <2>1, <2>3, <2>4 DEF FillInv
  <2> QED BY <2>2, <2>5
<1>6. CASE S!return
  <2>1. stage' = "done" /\ UNCHANGED <<cells, d, s, left, value>> /\ ~(left > 0)
    BY <1>6 DEF S!return, S!goes_on
  <2> QED BY <1>1, <1>2, <1>3, <1>4, <2>1 DEF FillInv, CellsOK
<1> QED BY <1>4, <1>5, <1>6 DEF S!Next, S!find_end, S!copy, S!compare, S!count

\* The steps of memcmp.
LEMMA CompareStep ==
  ASSUME StringInv, S!Next, call.fun = "memcmp"
  PROVE  CompareInv' /\ CellsOK'
<1>1. /\ S!Memory(before) /\ S!Legal(call, before) /\ CompareInv
      /\ cells = [a \in DOMAIN before |-> cells[a]] /\ DOMAIN before \subseteq Int
  BY DEF StringInv, S!Memory
<1>2. call' = call /\ before' = before
  BY StringFrame
<1>3. /\ call.dest \in Int /\ call.src \in Int /\ call.n \in Nat
      /\ \A a \in call.dest .. call.dest + call.n - 1 : a \in DOMAIN before
      /\ \A a \in call.src .. call.src + call.n - 1 : a \in DOMAIN before
      /\ \A a \in DOMAIN before : before[a] \in Int
  BY <1>1 DEF S!Legal, S!Memory
<1>4. /\ left \in 0 .. call.n /\ stage # "find" /\ cells = before
      /\ d = call.dest + (call.n - left) /\ s = call.src + (call.n - left)
      /\ \A j \in 0 .. call.n - left - 2 : before[call.dest + j] = before[call.src + j]
      /\ left = call.n => value = 0
      /\ left < call.n => value = before[d - 1] - before[s - 1]
  BY <1>1 DEF CompareInv
<1>5. CASE S!compare
  <2>1. /\ value = 0 /\ left > 0 /\ left' = left - 1 /\ stage' = stage /\ stage = "loop"
        /\ cells' = cells /\ d' = d + 1 /\ s' = s + 1 /\ value' = before[d] - before[s]
    BY <1>4, <1>5 DEF S!compare, S!goes_on
  <2>2. ASSUME NEW j \in 0 .. call.n - left' - 2
        PROVE  before[call.dest + j] = before[call.src + j]
    <3>1. CASE j \in 0 .. call.n - left - 2
      BY <1>4, <3>1
    <3>2. CASE j \notin 0 .. call.n - left - 2
      <4>1. /\ call.dest + j = d - 1 /\ call.src + j = s - 1 /\ left < call.n
            /\ d - 1 \in call.dest .. call.dest + call.n - 1
            /\ s - 1 \in call.src .. call.src + call.n - 1
        BY <1>3, <1>4, <2>1, <3>2
      <4>2. before[d - 1] \in Int /\ before[s - 1] \in Int
        BY <1>3, <4>1
      <4> QED BY <1>4, <2>1, <4>1, <4>2
    <3> QED BY <3>1, <3>2
  <2>3. d' - 1 = d /\ s' - 1 = s /\ left' \in 0 .. call.n /\ left' < call.n
        /\ d' = call.dest + (call.n - left') /\ s' = call.src + (call.n - left')
    BY <1>3, <1>4, <2>1
  <2>4. CompareInv'
    BY <1>2, <1>4, <2>1, <2>2, <2>3 DEF CompareInv
  <2> QED BY <1>1, <1>2, <2>1, <2>4 DEF CellsOK
<1>6. CASE S!return
  <2>1. /\ stage' = "done" /\ UNCHANGED <<cells, d, s, left, value>>
        /\ ~(value = 0 /\ left > 0)
    BY <1>6 DEF S!return, S!goes_on
  <2>2. value # 0 \/ left = 0
    BY <1>3, <1>4, <2>1
  <2> QED BY <1>1, <1>2, <1>4, <2>1, <2>2 DEF CompareInv, CellsOK
<1> QED BY <1>4, <1>5, <1>6 DEF S!Next, S!find_end, S!copy, S!fill, S!count

\* The steps of strlen.
LEMMA LengthStep ==
  ASSUME StringInv, S!Next, call.fun = "strlen"
  PROVE  LengthInv' /\ CellsOK'
<1>1. /\ LengthInv /\ cells = [a \in DOMAIN before |-> cells[a]]
      /\ call.src \in Int
  BY DEF StringInv, S!Legal
<1>2. call' = call /\ before' = before
  BY StringFrame
<1>3. /\ value \in Nat /\ s = call.src + value /\ stage # "find" /\ cells = before
      /\ \A j \in 0 .. value - 1 : before[call.src + j] # 0
  BY <1>1 DEF LengthInv
<1>4. S!there = before[s]
  <2>1. S!back = 0 /\ s - 0 = s
    BY <1>1, <1>3 DEF S!back, S!backward
  <2> QED BY <1>3, <2>1 DEF S!there
<1>5. CASE S!count
  <2>1. /\ before[s] # 0 /\ value' = value + 1 /\ s' = s + 1 /\ stage' = stage /\ stage = "loop"
        /\ cells' = cells
    BY <1>4, <1>5 DEF S!count, S!goes_on
  <2> QED BY <1>1, <1>2, <1>3, <2>1 DEF LengthInv, CellsOK
<1>6. CASE S!return
  <2>1. stage' = "done" /\ UNCHANGED <<cells, d, s, left, value>> /\ before[s] = 0
    BY <1>4, <1>6 DEF S!return, S!goes_on
  <2> QED BY <1>1, <1>2, <1>3, <2>1 DEF LengthInv, CellsOK
<1> QED BY <1>3, <1>5, <1>6 DEF S!Next, S!find_end, S!copy, S!fill, S!compare

\* One character more of the string src is copied to where it does no harm.
LEMMA StringMoves ==
  ASSUME StringInv, NEW to \in Int, NEW k \in Nat,
         S!Terminated(before, call.src), k <= S!Length(before, call.src),
         to .. to + S!Length(before, call.src) - 1 \subseteq DOMAIN before,
         (to .. to + S!Length(before, call.src) - 1)
           \cap (call.src .. call.src + S!Length(before, call.src)) = {},
         Moved(to, 0, k), d = to + k, s = call.src + k,
         call' = call, before' = before
  PROVE  /\ cells[s] = 0 <=> k = S!Length(before, call.src)
         /\ cells[s] # 0 /\ cells' = [cells EXCEPT ![d] = cells[s]] =>
              k + 1 <= S!Length(before, call.src) /\ Moved(to, 0, k + 1)'
<1>1. /\ S!Memory(before) /\ DOMAIN before \subseteq Int /\ call.src \in Int
  BY DEF StringInv, S!Memory, S!Legal
<1>2. PICK l : l = S!Length(before, call.src)
  OBVIOUS
<1>3. /\ l \in Nat /\ call.src + l \in DOMAIN before /\ before[call.src + l] = 0
      /\ \A j \in 0 .. l - 1 : call.src + j \in DOMAIN before /\ before[call.src + j] # 0
  BY <1>1, <1>2, LengthIs
<1>4. k <= l /\ to .. to + l - 1 \subseteq DOMAIN before
      /\ (to .. to + l - 1) \cap (call.src .. call.src + l) = {}
  BY <1>2
<1>5. s \in call.src .. call.src + l
  BY <1>1, <1>3, <1>4
<1>6. s \notin to .. to + k - 1
  <2> SUFFICES ASSUME s \in to .. to + k - 1
               PROVE  FALSE
    OBVIOUS
  <2>1. s \in to .. to + l - 1
    BY <1>3, <1>4
  <2> QED BY <1>4, <1>5, <2>1
<1>7. s \in DOMAIN before /\ (before[s] = 0 <=> k = l)
  <2>1. CASE k = l
    BY <1>3, <2>1
  <2>2. CASE k # l
    <3>1. k \in 0 .. l - 1
      BY <1>3, <1>4, <2>2
    <3> QED BY <1>3, <2>2, <3>1
  <2> QED BY <2>1, <2>2
<1>8. cells[s] = before[s]
  <2>1. s \notin to + 0 .. to + k - 1
    BY <1>6
  <2> QED BY <1>7, <2>1 DEF Moved
<1>9. ASSUME cells[s] # 0, cells' = [cells EXCEPT ![d] = cells[s]]
      PROVE  k + 1 <= l /\ Moved(to, 0, k + 1)'
  <2>1. k + 1 <= l
    BY <1>3, <1>4, <1>7, <1>8, <1>9
  <2>2. d \in to .. to + l - 1
    BY <1>3, <2>1
  <2> QED BY <1>4, <1>6, <1>7, <1>9, <2>1, <2>2, MovedOn
<1> QED BY <1>2, <1>7, <1>8, <1>9

\* The steps of strcpy.
LEMMA CopyStep ==
  ASSUME StringInv, S!Next, call.fun = "strcpy"
  PROVE  CopyInv' /\ CellsOK'
<1>1. /\ S!Memory(before) /\ S!Legal(call, before) /\ CopyInv
      /\ cells = [a \in DOMAIN before |-> cells[a]]
  BY DEF StringInv
<1>2. call' = call /\ before' = before
  BY StringFrame
<1>3. PICK l : l = S!Length(before, call.src)
  OBVIOUS
<1>4. /\ call.dest \in Int /\ call.src \in Int /\ S!Terminated(before, call.src)
      /\ call.dest .. call.dest + l \subseteq DOMAIN before
      /\ (call.dest .. call.dest + l) \cap (call.src .. call.src + l) = {}
  BY <1>1, <1>3 DEF S!Legal
<1>5. PICK k \in 0 .. l : d = call.dest + k /\ s = call.src + k /\ stage # "find"
                          /\ Moved(call.dest, 0, k) /\ (stage = "done" => k = l)
  BY <1>1, <1>3 DEF CopyInv
<1>6. PICK to \in Int : to = call.dest
  BY <1>4
<1>7. l \in Nat
  BY <1>1, <1>3, <1>4, LengthIs
<1>8. /\ to .. to + l - 1 \subseteq DOMAIN before
      /\ (to .. to + l - 1) \cap (call.src .. call.src + l) = {}
  <2>1. to .. to + l - 1 \subseteq call.dest .. call.dest + l
    BY <1>6, <1>7
  <2> QED BY <1>4, <2>1
<1>9. /\ cells[s] = 0 <=> k = l
      /\ cells[s] # 0 /\ cells' = [cells EXCEPT ![d] = cells[s]] =>
           k + 1 <= l /\ Moved(to, 0, k + 1)'
  <2>1. k \in Nat /\ k <= l
    BY <1>7
  <2> QED BY <1>2, <1>3, <1>4, <1>5, <1>6, <1>8, <2>1, StringMoves
<1>10. S!there = cells[s] /\ S!back = 0 /\ S!step = 1 /\ d - 0 = d
  <2>1. S!back = 0 /\ S!step = 1
    BY DEF S!back, S!step, S!backward
  <2>2. s - 0 = s /\ d - 0 = d
    BY <1>4, <1>5
  <2> QED BY <2>1, <2>2 DEF S!there
<1>11. CASE S!copy
  <2>1. /\ cells[s] # 0 /\ cells' = [cells EXCEPT ![d] = cells[s]] /\ d' = d + 1 /\ s' = s + 1
        /\ stage' = stage /\ stage = "loop"
    BY <1>10, <1>11 DEF S!copy, S!goes_on
  <2>2. k + 1 \in 0 .. l /\ Moved(to, 0, k + 1)'
    BY <1>7, <1>9, <2>1
  <2>3. d' = to + (k + 1) /\ s' = call.src + (k + 1)
    BY <1>4, <1>5, <1>6, <2>1
  <2>4. CopyInv'
    BY <1>2, <1>3, <1>6, <2>1, <2>2, <2>3 DEF CopyInv
  <2> QED BY <1>1, <1>2, <2>1, <2>4, CellsKept DEF CellsOK
<1>12. CASE S!return
  <2>1. stage' = "done" /\ UNCHANGED <<cells, d, s, left, value>> /\ cells[s] = 0
    BY <1>10, <1>12 DEF S!return, S!goes_on
  <2>2. k = l /\ Moved(call.dest, 0, k)'
    BY <1>2, <1>5, <1>9, <2>1 DEF Moved
  <2> QED BY <1>1, <1>2, <1>3, <1>5, <2>1, <2>2 DEF CopyInv, CellsOK
<1> QED BY <1>5, <1>11, <1>12 DEF S!Next, S!find_end, S!fill, S!compare, S!count

\* The steps of strcat.
LEMMA CatStep ==
  ASSUME StringInv, S!Next, call.fun = "strcat"
  PROVE  CatInv' /\ CellsOK'
<1>1. /\ S!Memory(before) /\ S!Legal(call, before) /\ CatInv
      /\ cells = [a \in DOMAIN before |-> cells[a]] /\ DOMAIN before \subseteq Int
  BY DEF StringInv, S!Memory
<1>2. call' = call /\ before' = before
  BY StringFrame
<1>3. PICK l : l = S!Length(before, call.src)
  OBVIOUS
<1>4. PICK m : m = S!Length(before, call.dest)
  OBVIOUS
<1>5. /\ call.dest \in Int /\ call.src \in Int
      /\ S!Terminated(before, call.src) /\ S!Terminated(before, call.dest)
      /\ call.dest + m .. call.dest + m + l \subseteq DOMAIN before
      /\ (call.dest + m .. call.dest + m + l) \cap (call.src .. call.src + l) = {}
  BY <1>1, <1>3, <1>4 DEF S!Legal
<1>6. l \in Nat
  BY <1>1, <1>3, <1>5, LengthIs
<1>7. /\ m \in Nat /\ call.dest + m \in DOMAIN before /\ before[call.dest + m] = 0
      /\ \A j \in 0 .. m - 1 : call.dest + j \in DOMAIN before /\ before[call.dest + j] # 0
  BY <1>1, <1>4, <1>5, LengthIs
<1>8. PICK to \in Int : to = Behind /\ to = call.dest + m + 1
  BY <1>4, <1>5, <1>7 DEF Behind
<1>9. Behind' = Behind
  BY <1>2 DEF Behind
<1>10. S!back = 0 /\ S!step = 1
  BY DEF S!back, S!step, S!backward
<1>11. CASE S!find_end
  <2>1. /\ stage = "find" /\ d' = d + 1 /\ stage' = (IF cells[d] # 0 THEN "find" ELSE "loop")
        /\ cells' = cells /\ s' = s
    BY <1>11 DEF S!find_end
  <2>2. d \in call.dest .. to - 1 /\ s = call.src /\ cells = before
    BY <1>1, <1>8, <2>1 DEF CatInv
  <2>3. PICK j \in 0 .. m : d = call.dest + j
    <3>1. d - call.dest \in 0 .. m
      BY <1>5, <1>7, <1>8, <2>2
    <3> QED BY <1>5, <2>2, <3>1
  <2>4. before[d] = 0 <=> j = m
    <3>1. CASE j = m
      BY <1>7, <2>3, <3>1
    <3>2. CASE j # m
      <4>1. j \in 0 .. m - 1
        BY <1>7, <3>2
      <4> QED BY <1>7, <2>3, <3>2, <4>1
    <3> QED BY <3>1, <3>2
  <2>5. CASE j = m
    <3>1. stage' = "loop" /\ d' = to + 0 /\ s' = call.src + 0
      BY <1>5, <1>7, <1>8, <2>1, <2>2, <2>3, <2>4, <2>5
    <3>2. Moved(to, 0, 0)'
      BY <1>2, <1>8, <2>1, <2>2 DEF Moved
    <3>3. 0 \in 0 .. l
      BY <1>6
    <3>4. CatInv'
      BY <1>2, <1>3, <1>8, <1>9, <3>1, <3>2, <3>3 DEF CatInv
    <3> QED BY <1>1, <1>2, <2>1, <3>1, <3>4 DEF CellsOK
  <2>6. CASE j # m
    <3>1. stage' = "find" /\ d' \in call.dest .. to - 1
      BY <1>5, <1>7, <1>8, <2>1, <2>2, <2>3, <2>4, <2>6
    <3>2. CatInv'
      BY <1>2, <1>8, <1>9, <2>1, <2>2, <3>1 DEF CatInv
    <3> QED BY <1>1, <1>2, <2>1, <3>1, <3>2 DEF CellsOK
  <2> QED BY <2>5, <2>6
<1>12. CASE S!copy
  <2>1. stage = "loop"
    BY <1>12 DEF S!copy
  <2>2. PICK k \in 0 .. l : d = to + k /\ s = call.src + k /\ Moved(to, 0, k)
    BY <1>1, <1>3, <1>8, <2>1 DEF CatInv
  <2>3. /\ to .. to + l - 1 \subseteq DOMAIN before
        /\ (to .. to + l - 1) \cap (call.src .. call.src + l) = {}
    <3>1. to .. to + l - 1 \subseteq call.dest + m .. call.dest + m + l
      BY <1>5, <1>6, <1>7, <1>8
    <3> QED BY <1>5, <3>1
  <2>4. /\ cells[s] # 0 /\ cells' = [cells EXCEPT ![d] = cells[s]] /\ d' = d + 1 /\ s' = s + 1
        /\ stage' = stage
    <3>1. s - 0 = s /\ d - 0 = d
      BY <1>5, <2>2
    <3> QED BY <1>10, <1>12, <3>1 DEF S!copy, S!goes_on, S!there
  <2>5. k + 1 <= l /\ Moved(to, 0, k + 1)'
    <3>1. k \in Nat /\ k <= l
      BY <1>6
    <3> QED BY <1>2, <1>3, <1>5, <2>2, <2>3, <2>4, <3>1, StringMoves
  <2>6. k + 1 \in 0 .. l /\ d' = to + (k + 1) /\ s' = call.src + (k + 1)
    BY <1>5, <1>6, <2>2, <2>4, <2>5
  <2>7. CatInv'
    BY <1>2, <1>3, <1>8, <1>9, <2>1, <2>4, <2>5, <2>6 DEF CatInv
  <2> QED BY <1>1, <1>2, <2>1, <2>4, <2>7, CellsKept DEF CellsOK
<1>13. CASE S!return
  <2>1. stage = "loop" /\ stage' = "done" /\ UNCHANGED <<cells, d, s, left, value>>
    BY <1>13 DEF S!return
  <2> QED BY <1>1, <1>2, <1>9, <2>1 DEF CatInv, CellsOK, Moved
<1> QED BY <1>11, <1>12, <1>13 DEF S!Next, S!fill, S!compare, S!count

\* strcmp does not get to a turn of its loop.
LEMMA StrcmpStep ==
  ASSUME StringInv, S!Next, call.fun = "strcmp"
  PROVE  cells' = before' /\ CellsOK'
<1>1. cells = before /\ cells = [a \in DOMAIN before |-> cells[a]]
  BY DEF StringInv
<1>2. call' = call /\ before' = before
  BY StringFrame
<1>3. cells' = cells /\ stage' \in {"find", "loop", "done"}
  <2>1. CASE S!find_end
    BY <2>1 DEF S!find_end
  <2>2. CASE S!compare
    BY <2>2 DEF S!compare, StringInv
  <2>3. CASE S!return
    BY <2>3 DEF S!return
  <2> QED BY <2>1, <2>2, <2>3 DEF S!Next, S!copy, S!fill, S!count
<1> QED BY <1>1, <1>2, <1>3 DEF CellsOK

\* Every step of a function keeps the invariant.
LEMMA StringNext ==
  ASSUME StringInv, S!Next
  PROVE  StringInv'
<1>1. call' = call /\ before' = before
  BY StringFrame
<1>2. /\ (S!Memory(before) /\ S!Legal(call, before))'
      /\ call.fun \in {"memmove", "memcpy", "memset", "memcmp",
                       "strlen", "strcmp", "strcpy", "strcat"}
  <2>1. S!Memory(before) /\ S!Legal(call, before)
    BY DEF StringInv
  <2> QED BY <1>1, <2>1 DEF S!Legal, S!Memory, S!Terminated, S!Length
<1>3. CASE call.fun \in {"memmove", "memcpy"}
  BY <1>1, <1>2, <1>3, MoveStep DEF StringInv, FillInv, CompareInv, LengthInv, CopyInv, CatInv,
     CellsOK
<1>4. CASE call.fun = "memset"
  BY <1>1, <1>2, <1>4, FillStep DEF StringInv, MoveInv, CompareInv, LengthInv, CopyInv, CatInv,
     CellsOK
<1>5. CASE call.fun = "memcmp"
  BY <1>1, <1>2, <1>5, CompareStep DEF StringInv, MoveInv, FillInv, LengthInv, CopyInv, CatInv,
     CellsOK
<1>6. CASE call.fun = "strlen"
  BY <1>1, <1>2, <1>6, LengthStep DEF StringInv, MoveInv, FillInv, CompareInv, CopyInv, CatInv,
     CellsOK
<1>7. CASE call.fun = "strcpy"
  BY <1>1, <1>2, <1>7, CopyStep DEF StringInv, MoveInv, FillInv, CompareInv, LengthInv, CatInv,
     CellsOK
<1>8. CASE call.fun = "strcat"
  BY <1>1, <1>2, <1>8, CatStep DEF StringInv, MoveInv, FillInv, CompareInv, LengthInv, CopyInv,
     CellsOK
<1>9. CASE call.fun = "strcmp"
  BY <1>1, <1>2, <1>9, StrcmpStep DEF StringInv, MoveInv, FillInv, CompareInv, LengthInv, CopyInv,
     CatInv, CellsOK
<1> QED BY <1>2, <1>3, <1>4, <1>5, <1>6, <1>7, <1>8, <1>9

\* The invariant holds when a function is called.
LEMMA StringInit ==
  ASSUME S!Init
  PROVE  StringInv
<1>1. PICK c \in Calls :
        /\ call = c[1] /\ before = c[2] /\ cells = c[2]
        /\ d = (IF S!backward(c[1]) THEN c[1].dest + c[1].n ELSE c[1].dest)
        /\ s = (IF S!backward(c[1]) THEN c[1].src + c[1].n ELSE c[1].src)
        /\ left = c[1].n /\ value = 0
        /\ stage = IF c[1].fun = "strcat" THEN "find" ELSE "loop"
  BY DEF S!Init
<1>2. /\ S!Memory(before) /\ S!Legal(call, before)
      /\ before = [a \in DOMAIN before |-> before[a]] /\ DOMAIN before \subseteq Int
  BY <1>1, CallsAssumption DEF S!Memory
<1>3. call.dest \in Int /\ call.src \in Int /\ call.n \in Nat
  BY <1>2 DEF S!Legal
<1>4. /\ d = (IF S!backward(call) THEN call.dest + call.n ELSE call.dest)
      /\ s = (IF S!backward(call) THEN call.src + call.n ELSE call.src)
      /\ left = call.n /\ value = 0 /\ cells = before
      /\ stage = IF call.fun = "strcat" THEN "find" ELSE "loop"
  BY <1>1
<1>5. \A to \in Int, i, j \in Nat : j <= i => Moved(to, i, j)
  BY <1>2, <1>4 DEF Moved
<1>6. MoveInv
  <2> SUFFICES ASSUME call.fun \in {"memmove", "memcpy"}
               PROVE  MoveInv
    BY DEF MoveInv
  <2>1. Moved(call.dest, call.n, call.n) /\ Moved(call.dest, 0, 0) /\ call.n - call.n = 0
    BY <1>3, <1>5
  <2>2. stage = "loop"
    BY <1>4
  <2>3. /\ left \in 0 .. call.n /\ call.n - left = 0
        /\ call.dest + 0 = call.dest /\ call.src + 0 = call.src
    BY <1>3, <1>4
  <2> QED BY <1>4, <2>1, <2>2, <2>3 DEF MoveInv
<1>7. FillInv
  <2> SUFFICES ASSUME call.fun = "memset"
               PROVE  FillInv
    BY DEF FillInv
  <2>1. d = call.dest /\ stage = "loop" /\ left \in 0 .. call.n /\ call.n - left = 0
    BY <1>3, <1>4 DEF S!backward
  <2>2. \A a \in Int : a \notin call.dest .. d - 1
    BY <1>3, <2>1
  <2> QED BY <1>2, <1>3, <1>4, <2>1, <2>2 DEF FillInv
<1>8. CompareInv
  <2> SUFFICES ASSUME call.fun = "memcmp"
               PROVE  CompareInv
    BY DEF CompareInv
  <2>1. d = call.dest /\ s = call.src /\ stage = "loop" /\ left \in 0 .. call.n /\ call.n - left = 0
    BY <1>3, <1>4 DEF S!backward
  <2> QED BY <1>3, <1>4, <2>1 DEF CompareInv
<1>9. LengthInv
  BY <1>3, <1>4 DEF LengthInv, S!backward
<1>10. CopyInv
  <2> SUFFICES ASSUME call.fun = "strcpy"
               PROVE  CopyInv
    BY DEF CopyInv
  <2>1. 0 \in 0 .. S!Length(before, call.src)
    <3>1. S!Length(before, call.src) \in Nat
      BY <1>2, LengthIs DEF S!Legal
    <3> QED BY <3>1
  <2>2. d = call.dest + 0 /\ s = call.src + 0 /\ stage = "loop" /\ Moved(call.dest, 0, 0)
    BY <1>3, <1>4, <1>5 DEF S!backward
  <2> QED BY <2>1, <2>2 DEF CopyInv
<1>11. CatInv
  <2> SUFFICES ASSUME call.fun = "strcat"
               PROVE  CatInv
    BY DEF CatInv
  <2>1. S!Length(before, call.dest) \in Nat
    BY <1>2, LengthIs DEF S!Legal
  <2>2. d \in call.dest .. Behind - 1 /\ s = call.src /\ stage = "find"
    BY <1>3, <1>4, <2>1 DEF S!backward, Behind
  <2> QED BY <1>4, <2>2 DEF CatInv
<1> QED BY <1>2, <1>4, <1>6, <1>7, <1>8, <1>9, <1>10, <1>11 DEF StringInv

\* A string function is at work as its invariant has it.
LEMMA StringAlways == Spec => [](part = "string" => StringInv)
<1>1. Init => (part = "string" => StringInv)
  BY StringInit DEF Init
<1>2. (part = "string" => StringInv) /\ [Next]_vars => (part = "string" => StringInv)'
  <2> SUFFICES ASSUME part = "string" => StringInv, [Next]_vars, part' = "string"
               PROVE  StringInv'
    OBVIOUS
  <2>1. CASE copying
    BY <2>1, StringNext DEF copying
  <2>2. CASE UNCHANGED strings
    <3>1. part' = part
      BY DEF Next, vars, booting, converting, printing, copying, iterating, finished
    <3>2. StringInv
      BY <3>1
    <3>3. /\ call' = call /\ before' = before /\ cells' = cells /\ d' = d /\ s' = s
          /\ left' = left /\ value' = value /\ stage' = stage
      BY <2>2 DEF strings
    <3>4. (S!Memory(before) /\ S!Legal(call, before))'
      BY <3>2, <3>3 DEF StringInv, S!Memory, S!Legal, S!Terminated, S!Length
    <3>5. MoveInv' /\ FillInv'
      BY <3>2, <3>3 DEF StringInv, MoveInv, FillInv, Moved, S!backward, S!forward
    <3>6. CompareInv' /\ LengthInv'
      BY <3>2, <3>3 DEF StringInv, CompareInv, LengthInv
    <3>7. CopyInv'
      BY <3>2, <3>3 DEF StringInv, CopyInv, Moved, S!Length
    <3>8. CatInv'
      <4>1. Behind' = Behind /\ S!Length(before, call.src)' = S!Length(before, call.src)
        BY <3>3 DEF Behind, S!Length
      <4>2. \A to, k : Moved(to, 0, k) => Moved(to, 0, k)'
        BY <3>3 DEF Moved
      <4>3. CatInv
        BY <3>2 DEF StringInv
      <4> QED BY <3>3, <4>1, <4>2, <4>3 DEF CatInv
    <3> QED BY <3>2, <3>3, <3>4, <3>5, <3>6, <3>7, <3>8 DEF StringInv
  <2> QED BY <2>1, <2>2 DEF Next, vars, booting, converting, printing, iterating, finished
<1> QED BY <1>1, <1>2, PTL DEF Spec

\* No function of string.c writes outside of what it is to write, in any of
\* its steps.
THEOREM WritesInsideAlways == Spec => []WritesInside
<1>1. ASSUME StringInv
      PROVE  S!WritesInside
  <2>1. /\ S!Memory(before) /\ S!Legal(call, before) /\ DOMAIN before \subseteq Int
        /\ cells = [a \in DOMAIN before |-> cells[a]]
        /\ MoveInv /\ FillInv /\ CompareInv /\ LengthInv /\ CopyInv /\ CatInv
        /\ call.fun = "strcmp" => cells = before
    BY <1>1 DEF StringInv, S!Memory
  <2>2. call.dest \in Int /\ call.src \in Int /\ call.n \in Nat
    BY <2>1 DEF S!Legal
  <2> SUFFICES ASSUME NEW a \in DOMAIN before, cells[a] # before[a]
               PROVE  a \in S!Destination(call)
    BY <2>1 DEF S!WritesInside
  <2>3. a \in Int
    BY <2>1
  <2>4. CASE call.fun \in {"memmove", "memcpy"}
    <3>1. PICK i \in 0 .. call.n, j \in 0 .. call.n : Moved(call.dest, i, j)
      <4>1. left \in 0 .. call.n /\ call.n - left \in 0 .. call.n
            /\ 0 \in 0 .. call.n /\ call.n \in 0 .. call.n
        BY <2>1, <2>2, <2>4 DEF MoveInv
      <4> QED BY <2>1, <2>4, <4>1 DEF MoveInv
    <3>2. a \in call.dest + i .. call.dest + j - 1
      BY <3>1 DEF Moved
    <3>3. a \in call.dest .. call.dest + call.n - 1
      BY <2>2, <2>3, <3>2
    <3> QED BY <2>4, <3>3 DEF S!Destination
  <2>5. CASE call.fun = "memset"
    <3>1. left \in 0 .. call.n /\ d = call.dest + (call.n - left) /\ a \in call.dest .. d - 1
      BY <2>1, <2>5 DEF FillInv
    <3>2. a \in call.dest .. call.dest + call.n - 1
      BY <2>2, <2>3, <3>1
    <3> QED BY <2>5, <3>2 DEF S!Destination
  <2>6. CASE call.fun = "strcpy"
    <3>1. PICK l \in Nat : l = S!Length(before, call.src)
      BY <2>1, <2>6, LengthIs DEF S!Legal
    <3>2. PICK k \in 0 .. l : Moved(call.dest, 0, k)
      BY <2>1, <2>6, <3>1 DEF CopyInv
    <3>3. a \in call.dest + 0 .. call.dest + k - 1
      BY <3>2 DEF Moved
    <3>4. a \in call.dest .. call.dest + l
      BY <2>2, <2>3, <3>1, <3>3
    <3> QED BY <2>6, <3>1, <3>4 DEF S!Destination
  <2>7. CASE call.fun = "strcat"
    <3>1. PICK l \in Nat, m \in Nat :
            l = S!Length(before, call.src) /\ m = S!Length(before, call.dest)
      <4>1. S!Length(before, call.src) \in Nat
        BY <2>1, <2>7, LengthIs DEF S!Legal
      <4>2. S!Length(before, call.dest) \in Nat
        BY <2>1, <2>7, LengthIs DEF S!Legal
      <4> QED BY <4>1, <4>2
    <3>2. PICK k \in 0 .. l : Moved(Behind, 0, k)
      BY <2>1, <2>7, <3>1 DEF CatInv
    <3>3. a \in Behind + 0 .. Behind + k - 1
      BY <3>2 DEF Moved
    <3>4. a \in call.dest + m .. call.dest + m + l
      BY <2>2, <2>3, <3>1, <3>3 DEF Behind
    <3> QED BY <2>7, <3>1, <3>4 DEF S!Destination
  <2>8. CASE call.fun \in {"memcmp", "strlen", "strcmp"}
    BY <2>1, <2>8 DEF CompareInv, LengthInv
  <2> QED BY <2>1, <2>4, <2>5, <2>6, <2>7, <2>8 DEF S!Legal
<1>2. (part = "string" => StringInv) => WritesInside
  BY <1>1 DEF WritesInside
<1> QED BY <1>2, StringAlways, PTL

\* The functions do what they are to do: memmove also where source and
\* destination overlap.
THEOREM StringsRightAlways == Spec => []StringsRight
<1>1. ASSUME StringInv, stage = "done"
      PROVE  S!StringsRight
  <2>1. /\ S!Memory(before) /\ S!Legal(call, before) /\ DOMAIN before \subseteq Int
        /\ MoveInv /\ FillInv /\ CompareInv /\ LengthInv /\ CopyInv
    BY <1>1 DEF StringInv, S!Memory
  <2>2. call.dest \in Int /\ call.src \in Int /\ call.n \in Nat
    BY <2>1 DEF S!Legal
  <2>3. CASE call.fun \in {"memmove", "memcpy"}
    <3>1. Moved(call.dest, 0, call.n)
      <4>1. left = 0 /\ call.n - left = call.n
        BY <1>1, <2>1, <2>2, <2>3 DEF MoveInv
      <4> QED BY <2>1, <2>3, <4>1 DEF MoveInv
    <3>2. ASSUME NEW i \in 0 .. call.n - 1
          PROVE  cells[call.dest + i] = before[call.src + i]
      <4>1. call.dest + i \in call.dest .. call.dest + call.n - 1
        BY <2>2
      <4>2. call.dest + i \in DOMAIN before
        BY <2>1, <2>3, <4>1 DEF S!Legal
      <4>3. /\ call.dest + i \in call.dest + 0 .. call.dest + call.n - 1
            /\ call.src + ((call.dest + i) - call.dest) = call.src + i
        BY <2>2
      <4> QED BY <3>1, <4>2, <4>3 DEF Moved
    <3> QED BY <2>3, <3>2 DEF S!StringsRight
  <2>4. CASE call.fun = "memset"
    <3>1. /\ left = 0 /\ d = call.dest + (call.n - left)
          /\ \A a \in DOMAIN before :
               cells[a] = IF a \in call.dest .. d - 1 THEN call.src % CHARS ELSE before[a]
      BY <1>1, <2>1, <2>4 DEF FillInv
    <3>2. d = call.dest + call.n
      BY <2>2, <3>1
    <3>3. ASSUME NEW i \in 0 .. call.n - 1
          PROVE  cells[call.dest + i] = call.src % CHARS
      <4>1. call.dest + i \in call.dest .. call.dest + call.n - 1
        BY <2>2
      <4>2. call.dest + i \in DOMAIN before
        BY <2>1, <2>4, <4>1 DEF S!Legal
      <4>3. PICK a \in DOMAIN before : a = call.dest + i
        BY <4>2
      <4>4. a \in call.dest .. d - 1
        BY <2>2, <3>2, <4>1, <4>3
      <4>5. cells[a] = call.src % CHARS
        BY <3>1, <4>4
      <4> QED BY <4>3, <4>5
    <3> QED BY <2>4, <3>3 DEF S!StringsRight
  <2>5. CASE call.fun = "memcmp"
    <3> DEFINE k == S!Difference(before, call.dest, call.src, call.n)
               First(q) == /\ q = call.n \/ before[call.dest + q] # before[call.src + q]
                           /\ \A j \in 0 .. q - 1 : before[call.dest + j] = before[call.src + j]
    <3>1. /\ left \in 0 .. call.n
          /\ d = call.dest + (call.n - left) /\ s = call.src + (call.n - left)
          /\ \A j \in 0 .. call.n - left - 2 : before[call.dest + j] = before[call.src + j]
          /\ left = call.n => value = 0
          /\ left < call.n => value = before[d - 1] - before[s - 1]
          /\ value # 0 \/ left = 0
      BY <1>1, <2>1, <2>5 DEF CompareInv
    <3>2. \A j \in 0 .. call.n - 1 : before[call.dest + j] \in Int /\ before[call.src + j] \in Int
      <4> SUFFICES ASSUME NEW j \in 0 .. call.n - 1
                   PROVE  before[call.dest + j] \in Int /\ before[call.src + j] \in Int
        OBVIOUS
      <4>1. /\ call.dest + j \in call.dest .. call.dest + call.n - 1
            /\ call.src + j \in call.src .. call.src + call.n - 1
        BY <2>2
      <4>2. call.dest + j \in DOMAIN before /\ call.src + j \in DOMAIN before
        BY <2>1, <2>5, <4>1 DEF S!Legal
      <4> QED BY <2>1, <4>2 DEF S!Memory
    <3>3. \A p, q \in 0 .. call.n : First(p) /\ First(q) => p = q
      <4> SUFFICES ASSUME NEW p \in 0 .. call.n, NEW q \in 0 .. call.n, First(p), First(q), p < q
                   PROVE  FALSE
        BY <2>2
      <4>1. p \in 0 .. q - 1 /\ p # call.n
        BY <2>2
      <4> QED BY <4>1
    <3>4. ASSUME NEW q \in 0 .. call.n, First(q)
          PROVE  k = q
      <4>1. k = CHOOSE p \in 0 .. call.n : First(p)
        BY DEF S!Difference
      <4> HIDE DEF k, First
      <4>2. k \in 0 .. call.n /\ First(k)
        BY <3>4, <4>1
      <4> QED BY <3>3, <3>4, <4>2
    <3>5. CASE value = 0
      <4>1. left = 0
        BY <3>1, <3>5
      <4>2. ASSUME NEW j \in 0 .. call.n - 1
            PROVE  before[call.dest + j] = before[call.src + j]
        <5>1. CASE j \in 0 .. call.n - left - 2
          BY <3>1, <5>1
        <5>2. CASE j = call.n - 1
          <6>1. d - 1 = call.dest + j /\ s - 1 = call.src + j /\ left < call.n
            BY <2>2, <3>1, <4>1, <5>2
          <6>2. before[call.dest + j] - before[call.src + j] = 0
            BY <3>1, <3>5, <6>1
          <6> QED BY <3>2, <6>2
        <5> QED BY <2>2, <4>1, <5>1, <5>2
      <4>3. First(call.n) /\ call.n \in 0 .. call.n
        BY <2>2, <4>2
      <4>4. k = call.n
        BY <3>4, <4>3
      <4> QED BY <2>5, <3>5, <4>4 DEF S!StringsRight
    <3>6. CASE value # 0
      <4>1. PICK q \in 0 .. call.n - 1 : q = call.n - left - 1
        BY <2>2, <3>1, <3>6
      <4>2. /\ d - 1 = call.dest + q /\ s - 1 = call.src + q /\ left < call.n
            /\ q - 1 = call.n - left - 2 /\ q \in 0 .. call.n
        <5>1. left \in Int
          BY <2>2, <3>1
        <5>2. q \in Int /\ 0 <= q /\ q <= call.n - 1
          BY <2>2
        <5> HIDE DEF k, First
        <5> QED BY <2>2, <3>1, <4>1, <5>1, <5>2
      <4>3. /\ value = before[call.dest + q] - before[call.src + q]
            /\ before[call.dest + q] \in Int /\ before[call.src + q] \in Int
        BY <3>1, <3>2, <4>1, <4>2
      <4>4. First(q)
        <5>1. before[call.dest + q] # before[call.src + q]
          BY <3>6, <4>3
        <5>2. \A j \in 0 .. q - 1 : before[call.dest + j] = before[call.src + j]
          BY <3>1, <4>2
        <5> QED BY <5>1, <5>2
      <4> HIDE DEF k, First
      <4>5. k = q /\ k # call.n
        <5>1. k = q
          BY <3>4, <4>2, <4>4
        <5>2. q # call.n
          BY <2>2
        <5> QED BY <5>1, <5>2
      <4>6. value # 0 /\ (value < 0 <=> before[call.dest + k] < before[call.src + k])
        BY <3>6, <4>3, <4>5
      <4>7. IF k = call.n THEN value = 0
            ELSE value # 0 /\ (value < 0 <=> before[call.dest + k] < before[call.src + k])
        BY <4>5, <4>6
      <4> QED BY <2>5, <4>7 DEF S!StringsRight, k
    <3> QED BY <3>5, <3>6
  <2>6. CASE call.fun = "strlen"
    <3>1. /\ value \in Nat /\ before[call.src + value] = 0
          /\ \A j \in 0 .. value - 1 : before[call.src + j] # 0
      BY <1>1, <2>1, <2>6 DEF LengthInv
    <3>2. value = S!Length(before, call.src)
      BY <2>1, <2>6, <3>1, LengthIs DEF S!Legal
    <3> QED BY <2>6, <3>2 DEF S!StringsRight
  <2>7. CASE call.fun = "strcpy"
    <3>1. PICK l \in Nat : l = S!Length(before, call.src)
      BY <2>1, <2>7, LengthIs DEF S!Legal
    <3>2. Moved(call.dest, 0, l)
      BY <1>1, <2>1, <2>7, <3>1 DEF CopyInv
    <3>3. ASSUME NEW i \in 0 .. l - 1
          PROVE  cells[call.dest + i] = before[call.src + i]
      <4>1. call.dest + i \in call.dest .. call.dest + l
        BY <2>2
      <4>2. call.dest + i \in DOMAIN before
        BY <2>1, <2>7, <3>1, <4>1 DEF S!Legal
      <4>3. /\ call.dest + i \in call.dest + 0 .. call.dest + l - 1
            /\ call.src + ((call.dest + i) - call.dest) = call.src + i
        BY <2>2
      <4> QED BY <3>2, <4>2, <4>3 DEF Moved
    <3> QED BY <2>7, <3>1, <3>3 DEF S!StringsRight
  <2>8. CASE call.fun \in {"strcat", "strcmp"}
    BY <2>8 DEF S!StringsRight
  <2> QED BY <2>1, <2>3, <2>4, <2>5, <2>6, <2>7, <2>8 DEF S!Legal
<1>2. (part = "string" => StringInv) => StringsRight
  <2>1. stage # "done" => S!StringsRight
    BY DEF S!StringsRight
  <2> QED BY <1>1, <2>1 DEF StringsRight
<1> QED BY <1>2, StringAlways, PTL

-----------------------------------------------------------------------------
(* boot.S.                                                                 *)

\* The words cleared are those from the start of bss on, and a turn is only
\* begun in front of its end.
BootInv ==
  IF r4 = NULL THEN cleared = {}
  ELSE /\ bss \in Images
       /\ r4 \in Int /\ bss[1] <= r4 /\ r4 - 4 < bss[2]
       /\ cleared = bss[1] .. r4 - 1

\* The loops of boot.S keep it.
LEMMA BootNext == BootInv /\ B!Next => BootInv'
<1> SUFFICES ASSUME BootInv, B!Next
             PROVE  BootInv'
  OBVIOUS
<1>1. CASE B!store_entry
  <2>1. UNCHANGED <<bss, r4, cleared>>
    BY <1>1 DEF B!store_entry
  <2> QED BY <2>1 DEF BootInv
<1>2. CASE B!higher_half
  <2>1. bss' \in Images /\ r4' = bss'[1] /\ cleared' = {}
    BY <1>2 DEF B!higher_half, BootInv
  <2>2. bss'[1] \in Int /\ bss'[2] \in Int /\ bss'[1] < bss'[2]
    BY <2>1, ImagesAssumption
  <2>3. r4' # NULL /\ bss'[1] .. r4' - 1 = {}
    BY <2>1, <2>2, NullAssumption
  <2> QED BY <2>1, <2>2, <2>3 DEF BootInv
<1>3. CASE B!clear
  <2>1. /\ bss \in Images /\ r4 \in Int /\ bss[1] <= r4
        /\ cleared = bss[1] .. r4 - 1
    BY <1>3 DEF B!clear, BootInv
  <2>2. bss[1] \in Int /\ bss[2] \in Int /\ bss[1] < bss[2]
    BY <2>1, ImagesAssumption
  <2>3. /\ cleared = {} \/ r4 < bss[2]
        /\ cleared' = cleared \cup (r4 .. r4 + 3) /\ r4' = r4 + 4 /\ bss' = bss
    BY <1>3 DEF B!clear, B!below_end
  <2>4. r4 < bss[2]
    <3>1. CASE cleared = {}
      <4>1. bss[1] \notin bss[1] .. r4 - 1
        BY <2>1, <3>1
      <4> QED BY <2>1, <2>2, <4>1
    <3> QED BY <2>3, <3>1
  <2>5. r4' \in Int /\ r4' # NULL /\ bss[1] <= r4' /\ r4' - 4 < bss[2]
    BY <2>1, <2>2, <2>3, <2>4, NullAssumption
  <2>6. cleared' = bss[1] .. r4' - 1
    BY <2>1, <2>2, <2>3
  <2> QED BY <2>1, <2>3, <2>5, <2>6 DEF BootInv
<1> QED BY <1>1, <1>2, <1>3 DEF B!Next

\* When the kernel is called all of bss is clear, and no word is that lies in
\* front of it or further than three words behind it.
THEOREM BssClearedAlways == Spec => []BssCleared
<1>1. Init => (part = "boot" => BootInv)
  BY DEF Init, B!Init, BootInv
<1>2. (part = "boot" => BootInv) /\ [Next]_vars => (part = "boot" => BootInv)'
  <2> SUFFICES ASSUME part = "boot" => BootInv, [Next]_vars, part' = "boot"
               PROVE  BootInv'
    OBVIOUS
  <2>1. CASE booting
    BY <2>1, BootNext DEF booting
  <2>2. CASE UNCHANGED boot
    <3>1. part' = part
      BY DEF Next, vars, booting, converting, printing, copying, iterating, finished
    <3> QED BY <2>2, <3>1 DEF boot, BootInv
  <2> QED BY <2>1, <2>2 DEF Next, vars, converting, printing, copying, iterating, finished
<1>3. (part = "boot" => BootInv) => BssCleared
  <2> SUFFICES ASSUME BootInv, r4 # NULL, ~(r4 < bss[2])
               PROVE  /\ bss[1] .. bss[2] - 1 \subseteq cleared
                      /\ cleared \subseteq bss[1] .. bss[2] + 2
    BY DEF BssCleared, B!BssCleared, B!Booted, B!below_end
  <2>1. /\ bss \in Images /\ r4 \in Int /\ bss[1] <= r4 /\ r4 - 4 < bss[2]
        /\ cleared = bss[1] .. r4 - 1
    BY DEF BootInv
  <2>2. bss[1] \in Int /\ bss[2] \in Int
    BY <2>1, ImagesAssumption
  <2> QED BY <2>1, <2>2
<1> QED BY <1>1, <1>2, <1>3, PTL DEF Spec

\* A word of the page table; the one the supersection from 16 * t MB on has.
Entries == B!Sections \cup {NULL}
Entry(t) ==
  IF t < 16 THEN B!section(16 * t, "write-back")
  ELSE IF t < 192 THEN NULL
  ELSE IF t < 208 THEN B!section(16 * (t - 192), "write-back")
  ELSE IF t < 224 THEN B!section(16 * (t - 192), "write-through")
  ELSE B!section(16 * (t - 192), "device")

\* The supersections of region n, and of those before it.
Count(n) == IF n = 1 THEN 32 ELSE IF n = 4 THEN 176 ELSE 16
Before(n) ==
  IF n = 5 THEN 0 ELSE IF n = 4 THEN 16 ELSE IF n = 3 THEN 192
  ELSE IF n = 2 THEN 208 ELSE IF n = 1 THEN 224 ELSE 256

\* The supersections stored.
Stored == IF r5 = 0 THEN 256 ELSE Before(r5) + (Count(r5) - r8)

\* The table is right as far as it is filled, and the next entry is the one
\* that follows.
TableInv ==
  /\ r5 \in 0 .. 5 /\ table \in Seq(Entries) /\ Len(table) = 16 * Stored
  /\ \A i \in 1 .. Len(table) : table[i] = Entry((i - 1) \div 16)
  /\ r5 > 0 => r8 \in 1 .. Count(r5) /\ r6 = Entry(Stored)

\* The regions as they stand in boot.S.
LEMMA RegionIs ==
  ASSUME NEW n \in 1 .. 5
  PROVE  /\ B!Region(n)[3] = Count(n) /\ B!Region(n)[1] = Entry(Before(n))
         /\ B!Region(n)[2] = IF n = 4 THEN 0 ELSE 16
         /\ Before(n) + Count(n) = Before(n - 1)
<1>1. Len(B!memory_regions) = 5
  BY DEF B!memory_regions
<1>2. B!Region(n) = B!memory_regions[6 - n]
  BY <1>1 DEF B!Region
<1>3. /\ B!memory_regions[1] = <<B!section(0, "write-back"), 16, 16>>
      /\ B!memory_regions[2] = <<NULL, 0, 176>>
      /\ B!memory_regions[3] = <<B!section(0, "write-back"), 16, 16>>
      /\ B!memory_regions[4] = <<B!section(256, "write-through"), 16, 16>>
      /\ B!memory_regions[5] = <<B!section(512, "device"), 16, 32>>
  BY DEF B!memory_regions
<1>4. CASE n = 1
  BY <1>2, <1>3, <1>4 DEF Count, Before, Entry
<1>5. CASE n = 2
  BY <1>2, <1>3, <1>5 DEF Count, Before, Entry
<1>6. CASE n = 3
  BY <1>2, <1>3, <1>6 DEF Count, Before, Entry
<1>7. CASE n = 4
  BY <1>2, <1>3, <1>7 DEF Count, Before, Entry
<1>8. CASE n = 5
  BY <1>2, <1>3, <1>8 DEF Count, Before, Entry
<1> QED BY <1>4, <1>5, <1>6, <1>7, <1>8

\* The entry after that of supersection t, which is one of region n.
LEMMA EntryNext ==
  ASSUME NEW n \in 1 .. 5, NEW t \in Before(n) .. Before(n) + Count(n) - 2
  PROVE  /\ B!added(Entry(t), B!Region(n)[2]) = Entry(t + 1)
         /\ Entry(t) \in Entries
<1>1. t \in Nat
  BY DEF Before, Count
<1>2. ASSUME NEW m \in Nat, NEW a \in {"write-back", "write-through", "device"}
      PROVE  /\ B!section(m, a) \in B!Sections /\ B!section(m, a) # NULL
             /\ B!added(B!section(m, a), 16) = B!section(m + 16, a)
  <2>1. B!section(m, a) \in B!Sections
    BY DEF B!section, B!Sections
  <2>2. B!section(m, a) # NULL
    BY <2>1, NullAssumption
  <2>3. [B!section(m, a) EXCEPT !.phys = @ + 16] = B!section(m + 16, a)
    BY DEF B!section
  <2> QED BY <2>1, <2>2, <2>3 DEF B!added
<1>3. CASE n = 5
  <2>1. t < 15 /\ 16 * t \in Nat /\ 16 * (t + 1) = 16 * t + 16
    BY <1>1, <1>3 DEF Before, Count
  <2>2. Entry(t) = B!section(16 * t, "write-back")
        /\ Entry(t + 1) = B!section(16 * t + 16, "write-back")
    BY <1>1, <2>1 DEF Entry
  <2> QED BY <1>2, <1>3, <2>1, <2>2, RegionIs DEF Entries
<1>4. CASE n = 4
  <2>1. t >= 16 /\ t < 191
    BY <1>1, <1>4 DEF Before, Count
  <2>2. Entry(t) = NULL /\ Entry(t + 1) = NULL
    BY <1>1, <2>1 DEF Entry
  <2> QED BY <2>2 DEF Entries, B!added
<1>5. CASE n \in {1, 2, 3}
  <2>1. PICK a \in {"write-back", "write-through", "device"} :
          /\ Entry(t) = B!section(16 * (t - 192), a)
          /\ Entry(t + 1) = B!section(16 * (t + 1 - 192), a)
    BY <1>1, <1>5 DEF Entry, Before, Count
  <2>2. t >= 192
    BY <1>1, <1>5 DEF Before, Count
  <2>3. 16 * (t - 192) \in Nat /\ 16 * (t + 1 - 192) = 16 * (t - 192) + 16
    BY <1>1, <2>2
  <2>4. B!Region(n)[2] = 16
    BY <1>5, RegionIs
  <2> QED BY <1>2, <2>1, <2>3, <2>4 DEF Entries
<1> QED BY <1>3, <1>4, <1>5

\* The entry that is stored is the one that belongs there, and so is the next.
LEMMA TableStore == TableInv /\ B!store_entry => TableInv'
<1> SUFFICES ASSUME TableInv, B!store_entry
             PROVE  TableInv'
  OBVIOUS
<1>1. /\ r5 \in 1 .. 5 /\ table \in Seq(Entries) /\ Len(table) = 16 * Stored
      /\ \A i \in 1 .. Len(table) : table[i] = Entry((i - 1) \div 16)
      /\ r8 \in 1 .. Count(r5) /\ r6 = Entry(Stored)
  BY DEF TableInv, B!store_entry
<1>2. /\ Stored = Before(r5) + (Count(r5) - r8) /\ Stored \in Nat
      /\ Before(r5) \in Nat /\ Count(r5) \in Nat
  BY <1>1 DEF Stored, Before, Count
<1>3. PICK t \in Nat : t = Stored
  BY <1>2
<1>4. r6 \in Entries
  <2>1. \A m \in Nat : Entry(m) \in Entries
    <3> SUFFICES ASSUME NEW m \in Nat
                 PROVE  Entry(m) \in Entries
      OBVIOUS
    <3>1. ASSUME NEW k \in Int, NEW a \in {"write-back", "write-through", "device"}
          PROVE  B!section(k, a) \in Entries
      BY DEF B!section, B!Sections, Entries
    <3>2. 16 * m \in Int /\ 16 * (m - 192) \in Int
      OBVIOUS
    <3> QED BY <3>1, <3>2 DEF Entry, Entries
  <2> QED BY <1>1, <1>2, <2>1
<1>5. /\ table' \in Seq(Entries) /\ Len(table') = 16 * (t + 1)
      /\ \A i \in 1 .. Len(table') : table'[i] = Entry((i - 1) \div 16)
  <2> DEFINE new == [i \in 1 .. 16 |-> r6]
  <2>1. new \in Seq(Entries) /\ Len(new) = 16 /\ \A i \in 1 .. 16 : new[i] = r6
    BY <1>4
  <2>2. table' = table \o new
    BY DEF B!store_entry
  <2> HIDE DEF new
  <2>3. /\ table' \in Seq(Entries) /\ Len(table') = Len(table) + 16
        /\ \A i \in 1 .. Len(table) : table'[i] = table[i]
        /\ \A i \in Len(table) + 1 .. Len(table) + 16 :
             i - Len(table) \in 1 .. 16 /\ table'[i] = new[i - Len(table)]
    <3>1. /\ table \o new \in Seq(Entries) /\ Len(table \o new) = Len(table) + 16
          /\ \A i \in 1 .. Len(table) : (table \o new)[i] = table[i]
          /\ \A i \in Len(table) + 1 .. Len(table) + 16 :
               i - Len(table) \in 1 .. 16 /\ (table \o new)[i] = new[i - Len(table)]
      <4>1. table \in Seq(Entries)
        BY <1>1
      <4>2. new \in Seq(Entries)
        BY <2>1
      <4>3. /\ table \o new \in Seq(Entries) /\ Len(table \o new) = Len(table) + Len(new)
            /\ \A i \in 1 .. Len(table) : (table \o new)[i] = table[i]
            /\ \A i \in Len(table) + 1 .. Len(table) + Len(new) :
                 i - Len(table) \in 1 .. Len(new) /\ (table \o new)[i] = new[i - Len(table)]
        BY ONLY <4>1, <4>2, BothHave
      <4> QED BY <2>1, <4>3
    <3> QED BY <2>2, <3>1
  <2>4. ASSUME NEW i \in 1 .. Len(table')
        PROVE  table'[i] = Entry((i - 1) \div 16)
    <3>1. CASE i <= 16 * t
      <4>1. i \in 1 .. Len(table)
        BY <1>1, <1>3, <3>1
      <4> QED BY <1>1, <2>3, <4>1
    <3>2. CASE ~(i <= 16 * t)
      <4>1. i \in Len(table) + 1 .. Len(table) + 16 /\ (i - 1) \div 16 = t
        BY <1>1, <1>3, <2>3, <3>2
      <4>2. table'[i] = r6
        BY <2>1, <2>3, <4>1
      <4> QED BY <1>1, <1>3, <4>1, <4>2
    <3> QED BY <3>1, <3>2
  <2> QED BY <1>1, <1>3, <2>3, <2>4
<1>6. CASE r8 > 1 /\ r8' = r8 - 1 /\ r6' = B!added(r6, B!Region(r5)[2]) /\ r5' = r5
  <2>1. Stored' = t + 1
    <3>1. Stored' = Before(r5) + (Count(r5) - (r8 - 1))
      BY <1>1, <1>6 DEF Stored
    <3> QED BY <1>1, <1>2, <1>3, <3>1
  <2>2. r6' = Entry(t + 1)
    <3>1. t \in Before(r5) .. Before(r5) + Count(r5) - 2
      BY <1>1, <1>2, <1>3, <1>6
    <3> QED BY <1>1, <1>3, <1>6, <3>1, EntryNext
  <2>3. r8' \in 1 .. Count(r5)
    BY <1>1, <1>2, <1>6
  <2> QED BY <1>1, <1>5, <1>6, <2>1, <2>2, <2>3 DEF TableInv
<1>7. CASE /\ r8 = 1 /\ r5' = r5 - 1
           /\ r5' > 0 => r8' = B!Region(r5')[3] /\ r6' = B!Region(r5')[1]
  <2>1. t + 1 = Before(r5 - 1)
    <3>1. Before(r5) + Count(r5) = Before(r5 - 1)
      BY <1>1, RegionIs
    <3> QED BY <1>2, <1>3, <1>7, <3>1
  <2>2. CASE r5' = 0
    <3>1. Stored' = 256 /\ t + 1 = 256
      <4>1. Stored' = 256
        BY <2>2 DEF Stored
      <4>2. r5 - 1 = 0
        BY <1>7, <2>2
      <4>3. Before(0) = 256
        BY DEF Before
      <4> QED BY <2>1, <4>1, <4>2, <4>3
    <3> QED BY <1>5, <2>2, <3>1 DEF TableInv
  <2>3. CASE r5' # 0
    <3>1. r5' \in 1 .. 5
      BY <1>1, <1>7, <2>3
    <3>2. r8' = Count(r5') /\ r6' = Entry(Before(r5')) /\ Count(r5') \in Nat \ {0}
      BY <1>7, <3>1, RegionIs DEF Count
    <3>3. Stored' = t + 1 /\ Before(r5') = t + 1
      <4>1. Before(r5') + (Count(r5') - r8') = Before(r5')
        BY <1>3, <1>7, <2>1, <3>2
      <4> QED BY <1>7, <2>1, <2>3, <4>1 DEF Stored
    <3> QED BY <1>5, <3>1, <3>2, <3>3 DEF TableInv
  <2> QED BY <2>2, <2>3
<1> QED BY <1>6, <1>7 DEF B!store_entry

\* The loops of boot.S keep the table right.
LEMMA TableNext == TableInv /\ B!Next => TableInv'
<1> SUFFICES ASSUME TableInv, B!Next
             PROVE  TableInv'
  OBVIOUS
<1>1. CASE B!store_entry
  BY <1>1, TableStore
<1>2. CASE B!higher_half \/ B!clear
  <2>1. UNCHANGED <<table, r5, r6, r8>>
    BY <1>2 DEF B!higher_half, B!clear
  <2> QED BY <2>1 DEF TableInv, Stored
<1> QED BY <1>1, <1>2 DEF B!Next

\* An empty table is right, and the first entry the one to start with.
LEMMA TableInit == B!Init => TableInv
<1> SUFFICES ASSUME B!Init
             PROVE  TableInv
  OBVIOUS
<1>1. Len(B!memory_regions) = 5
  BY DEF B!memory_regions
<1>2. r5 = 5 /\ r8 = 16 /\ r6 = Entry(0) /\ table = <<>>
  <2>1. 5 \in 1 .. 5
    OBVIOUS
  <2> QED BY <1>1, <2>1, RegionIs DEF B!Init, Count, Before
<1>3. Stored = 0
  BY <1>2 DEF Stored, Before, Count
<1> QED BY <1>2, <1>3 DEF TableInv, Count

\* Virtual memory, in MB: where the kernel runs, what is not used, and the
\* higher half.
Megabytes == 0 .. 4095
Low == 0 .. 255
Middle == 256 .. 3071
High == 3072 .. 4095

\* A MB is one of the sixteen of its supersection.
LEMMA MegabyteIs ==
  ASSUME NEW m \in Megabytes
  PROVE  /\ m \in Nat /\ m \div 16 \in 0 .. 255 /\ m % 16 \in 0 .. 15
         /\ m = 16 * (m \div 16) + (m % 16)
         /\ m - (m % 16) \in Megabytes /\ (m - (m % 16)) \div 16 = m \div 16
<1>1. m \in Nat /\ m \div 16 \in 0 .. 255
  BY SMT DEF Megabytes
<1>2. m % 16 \in 0 .. 15 /\ m = 16 * (m \div 16) + (m % 16)
  BY <1>1, SMT
<1>3. PICK q \in 0 .. 255 : q = m \div 16
  BY <1>1
<1>4. m - (m % 16) = 16 * q
  BY <1>1, <1>2, <1>3
<1>5. (16 * q) \div 16 = q
  OBVIOUS
<1>6. 16 * q \in Megabytes
  BY SMT DEF Megabytes
<1> QED BY <1>1, <1>2, <1>3, <1>4, <1>5, <1>6

\* The table is as long as it is to be.
LEMMA TableLength == TableInv /\ r5 = 0 => Len(table) = 16 * 256
<1> SUFFICES ASSUME TableInv, r5 = 0
             PROVE  Len(table) = 16 * 256
  OBVIOUS
<1>1. Stored = 256
  BY DEF Stored
<1>2. Len(table) = 16 * Stored
  BY DEF TableInv
<1> QED BY <1>1, <1>2

\* What is at m MB, when the table is full.
LEMMA AtIs == TableInv /\ r5 = 0 => \A m \in Megabytes : B!At(m) = Entry(m \div 16)
<1> SUFFICES ASSUME TableInv, r5 = 0, NEW m \in Megabytes
             PROVE  B!At(m) = Entry(m \div 16)
  OBVIOUS
<1>1. Len(table) = 16 * 256
  BY TableLength
<1>2. m + 1 \in 1 .. Len(table) /\ (m + 1) - 1 = m
  BY <1>1, SMT DEF Megabytes
<1>3. \A i \in 1 .. Len(table) : table[i] = Entry((i - 1) \div 16)
  BY DEF TableInv
<1>4. table[m + 1] = Entry(((m + 1) - 1) \div 16)
  BY <1>2, <1>3
<1> QED BY <1>2, <1>4 DEF B!At

\* The parts of memory.
LEMMA PartsIs ==
  ASSUME NEW m
  PROVE  /\ m \in Low =>
              /\ m \in Megabytes /\ m + 3072 \in Megabytes
              /\ m \div 16 \in 0 .. 15 /\ (m + 3072) \div 16 = (m \div 16) + 192
         /\ m \in Middle => m \in Megabytes /\ m \div 16 \in 16 .. 191
         /\ m \in High =>
              /\ m \in Megabytes /\ m \div 16 \in 192 .. 255
              /\ m \div 16 >= 224 <=> m >= 3584
<1>1. m \in Low => m \in Megabytes /\ m + 3072 \in Megabytes
  BY SMT DEF Megabytes, Low
<1>2. m \in Low => m \div 16 \in 0 .. 15 /\ (m + 3072) \div 16 = (m \div 16) + 192
  BY SMT DEF Low
<1>3. m \in Middle => m \in Megabytes /\ m \div 16 \in 16 .. 191
  BY SMT DEF Megabytes, Middle
<1>4. m \in High => m \in Megabytes
  BY SMT DEF Megabytes, High
<1>5. m \in High => m \div 16 \in 192 .. 255
  BY SMT DEF High
<1>6. m \in High => (m \div 16 >= 224 <=> m >= 3584)
  BY SMT DEF High
<1> QED BY ONLY <1>1, <1>2, <1>3, <1>4, <1>5, <1>6, SMT

\* The parts of Mapped.
Supersection(m) == B!At(m) = B!At(m - (m % 16))
Twice(m) == B!At(m) = B!At(m + 3072)
Unused(m) == B!At(m) = NULL
Physical(m) ==
  /\ B!At(m).phys = (m - 3072) - (m % 16)
  /\ B!At(m).attributes = "device" <=> m >= 3584

\* A full table maps what it is to map.
LEMMA TableMapped == TableInv => B!Mapped
<1> SUFFICES ASSUME TableInv, r5 = 0
             PROVE  /\ Len(table) = 4096
                    /\ \A m \in Megabytes : Supersection(m)
                    /\ \A m \in Low : Twice(m)
                    /\ \A m \in Middle : Unused(m)
                    /\ \A m \in High : Physical(m)
  BY Zenon DEF B!Mapped, Megabytes, Low, Middle, High,
     Supersection, Twice, Unused, Physical
<1>1. ASSUME NEW m \in Megabytes
      PROVE  Supersection(m)
  BY MegabyteIs, AtIs DEF Supersection
<1>2. ASSUME NEW m \in Low
      PROVE  Twice(m)
  <2>1. PICK t \in 0 .. 15 : t = m \div 16 /\ (m + 3072) \div 16 = t + 192
    BY PartsIs
  <2>2. Entry(t) = Entry(t + 192)
    BY DEF Entry
  <2>3. m \in Megabytes /\ m + 3072 \in Megabytes
    BY PartsIs
  <2> QED BY <2>1, <2>2, <2>3, AtIs DEF Twice
<1>3. ASSUME NEW m \in Middle
      PROVE  Unused(m)
  <2>1. PICK t \in 16 .. 191 : t = m \div 16
    BY PartsIs
  <2>2. Entry(t) = NULL
    BY DEF Entry
  <2>3. m \in Megabytes
    BY PartsIs
  <2> QED BY <2>1, <2>2, <2>3, AtIs DEF Unused
<1>4. ASSUME NEW m \in High
      PROVE  Physical(m)
  <2>1. m \in Megabytes /\ m \div 16 \in 192 .. 255 /\ (m \div 16 >= 224 <=> m >= 3584)
    BY PartsIs
  <2>2. PICK t \in 192 .. 255, k \in 0 .. 15, n \in Nat :
          t = m \div 16 /\ k = m % 16 /\ n = m /\ n = 16 * t + k
    <3>1. /\ m \in Nat /\ m \div 16 \in 192 .. 255 /\ m % 16 \in 0 .. 15
          /\ m = 16 * (m \div 16) + (m % 16)
      BY <2>1, MegabyteIs
    <3> QED BY ONLY <3>1
  <2>3. Entry(t).phys = 16 * (t - 192) /\ (Entry(t).attributes = "device" <=> t >= 224)
    BY DEF Entry, B!section
  <2>4. B!At(m) = Entry(t)
    BY <2>1, <2>2, AtIs
  <2>5. 16 * (t - 192) = (n - 3072) - k
    BY <2>2
  <2>6. B!At(m).phys = (m - 3072) - (m % 16)
    BY <2>2, <2>3, <2>4, <2>5
  <2>7. B!At(m).attributes = "device" <=> m >= 3584
    BY <2>1, <2>2, <2>3, <2>4
  <2> QED BY <2>6, <2>7 DEF Physical
<1>5. Len(table) = 4096
  BY TableLength
<1> QED BY <1>1, <1>2, <1>3, <1>4, <1>5

\* The table of boot.S maps the kernel where it runs and where it is linked,
\* all physical memory and the peripherals in the higher half, and nothing
\* else.
THEOREM MappedAlways == Spec => []Mapped
<1>1. Init => (part = "boot" => TableInv)
  BY TableInit DEF Init
<1>2. (part = "boot" => TableInv) /\ [Next]_vars => (part = "boot" => TableInv)'
  <2> SUFFICES ASSUME part = "boot" => TableInv, [Next]_vars, part' = "boot"
               PROVE  TableInv'
    OBVIOUS
  <2>1. CASE booting
    BY <2>1, TableNext DEF booting
  <2>2. CASE UNCHANGED boot
    <3>1. part' = part
      BY DEF Next, vars, booting, converting, printing, copying, iterating, finished
    <3> QED BY <2>2, <3>1 DEF boot, TableInv, Stored
  <2> QED BY <2>1, <2>2 DEF Next, vars, converting, printing, copying, iterating, finished
<1>3. (part = "boot" => TableInv) => Mapped
  BY TableMapped DEF Mapped
<1> QED BY <1>1, <1>2, <1>3, PTL DEF Spec

-----------------------------------------------------------------------------
(* printf.c.                                                               *)

\* vsnprintf is told of no more characters than there are.
Roomy ==
  \A c \in Cases : c[4] \in Nat /\ c[5] \in Int /\ c[4] <= c[5]

\* The cells around the buffer are kept, those written lie in it.
PrintInv ==
  /\ size \in Nat /\ space \in Int /\ size <= space
  /\ buf \in Nat
  /\ memory = [i \in -1 .. size |-> memory[i]]
  /\ \A i \in -1 .. size : memory[i] # NULL => i \in 0 .. size - 1

\* The functions of printf.c keep it.
LEMMA PrintNext == PrintInv /\ P!Next => PrintInv'
<1> SUFFICES ASSUME PrintInv, P!Next
             PROVE  PrintInv'
  OBVIOUS
<1>1. /\ size \in Nat /\ space \in Int /\ size <= space
      /\ buf \in Nat
      /\ memory = [i \in -1 .. size |-> memory[i]]
      /\ \A i \in -1 .. size : memory[i] # NULL => i \in 0 .. size - 1
  BY DEF PrintInv
<1> DEFINE Inside(m) == /\ m = [i \in -1 .. size |-> m[i]]
                        /\ \A i \in -1 .. size : m[i] # NULL => i \in 0 .. size - 1
<1>2. ASSUME NEW m, Inside(m), NEW a \in 0 .. size - 1, NEW x
      PROVE  Inside([m EXCEPT ![a] = x])
  BY <1>1, <1>2
<1>3. ASSUME NEW x
      PROVE  Inside(P!stored(x))
  <2>1. CASE buf < size
    <3>1. buf \in 0 .. size - 1
      BY <1>1, <2>1
    <3>2. Inside([memory EXCEPT ![buf] = x])
      BY <1>1, <1>2, <3>1
    <3> QED BY <2>1, <3>2 DEF P!stored, P!room
  <2>2. CASE ~(buf < size)
    BY <1>1, <2>2 DEF P!stored, P!room
  <2> QED BY <2>1, <2>2
<1>4. ASSUME NEW m, Inside(m)
      PROVE  Inside(P!terminated(m))
  <2>1. CASE size > 0
    <3>1. size - 1 \in 0 .. size - 1
      BY <1>1, <2>1
    <3>2. Inside([m EXCEPT ![size - 1] = P!NUL])
      BY <1>2, <1>4, <3>1
    <3> QED BY <2>1, <3>2 DEF P!terminated
  <2>2. CASE ~(size > 0)
    BY <1>4, <2>2 DEF P!terminated
  <2> QED BY <2>1, <2>2
<1>5. ASSUME Inside(memory'), buf' \in Nat, UNCHANGED <<size, space>>
      PROVE  PrintInv'
  BY <1>1, <1>5 DEF PrintInv
<1>6. Inside(memory)
  BY <1>1
<1> HIDE DEF Inside
<1>7. CASE P!turn
  <2>1. /\ memory' = P!stored(Head(Head(loops).chars)) /\ buf' = P!advanced
        /\ UNCHANGED <<size, space>>
    BY <1>7 DEF P!turn, P!entry
  <2>2. buf' \in Nat
    BY <1>1, <2>1 DEF P!advanced
  <2> QED BY <1>3, <1>5, <2>1, <2>2
<1>8. CASE P!finish
  <2>1. /\ memory' = P!terminated(P!stored(P!NUL)) /\ buf' = buf + 1
        /\ UNCHANGED <<size, space>>
    BY <1>8 DEF P!finish, P!entry
  <2> QED BY <1>1, <1>3, <1>4, <1>5, <2>1
<1>9. CASE UNCHANGED <<memory, buf, size, space>>
  BY <1>1, <1>5, <1>6, <1>9
<1> QED BY <1>7, <1>8, <1>9
        DEF P!Next, P!begin, P!leave, P!printf, P!fprintf, P!prints, P!snprintf,
            P!sprintf, P!returns, P!done, P!vars, P!entry

\* vsnprintf and its callers write nothing outside the buffer, as long as
\* there is the room vsnprintf is told of: what sprintf cannot know.
THEOREM InBoundsAlways == Roomy => (Spec => []InBounds)
<1> SUFFICES ASSUME Roomy
             PROVE  Spec => []InBounds
  OBVIOUS
<1>1. Init => (part = "printf" => PrintInv)
  <2> SUFFICES ASSUME P!Init
               PROVE  PrintInv
    BY DEF Init
  <2>1. PICK c \in Cases : /\ size = c[4] /\ space = c[5] /\ buf = 0
                           /\ memory = [i \in -1 .. c[4] |-> NULL]
    BY DEF P!Init
  <2> QED BY <2>1 DEF Roomy, PrintInv
<1>2. (part = "printf" => PrintInv) /\ [Next]_vars => (part = "printf" => PrintInv)'
  <2> SUFFICES ASSUME part = "printf" => PrintInv, [Next]_vars, part' = "printf"
               PROVE  PrintInv'
    OBVIOUS
  <2>1. CASE printing
    BY <2>1, PrintNext DEF printing
  <2>2. CASE UNCHANGED printf
    <3>1. part' = part
      BY DEF Next, vars, booting, converting, printing, copying, iterating, finished
    <3> QED BY <2>2, <3>1 DEF printf, PrintInv
  <2> QED BY <2>1, <2>2 DEF Next, vars, booting, converting, copying, iterating, finished
<1>3. (part = "printf" => PrintInv) => InBounds
  <2> SUFFICES ASSUME PrintInv, NEW i \in DOMAIN memory, memory[i] # NULL
               PROVE  i \in 0 .. space - 1
    BY DEF InBounds, P!InBounds
  <2> QED BY DEF PrintInv
<1> QED BY <1>1, <1>2, <1>3, PTL DEF Spec

-----------------------------------------------------------------------------
(* list.h.                                                                 *)

\* The pointers l make one list of the nodes C, with its head hd; all other
\* nodes are on their own.
Ringed(l, C, hd) ==
  /\ l = [next |-> l.next, prev |-> l.prev]
  /\ l.next \in [L!Node -> L!Node] /\ l.prev \in [L!Node -> L!Node]
  /\ C \subseteq L!Node
  /\ \A e \in L!Node : l.prev[l.next[e]] = e /\ l.next[l.prev[e]] = e
  /\ \A e \in L!Node \ C : l.next[e] = e
  /\ OneRing(l.next, C) /\ OneRing(l.prev, C)
  /\ IF C = {} THEN hd = NULL ELSE hd \in C

\* NULL is no node.
LEMMA NodeNotNull == \A e \in L!Node : e # NULL /\ e \in Nat
BY NullAssumption, SizeAssumption DEF L!Node

\* A walk of as many steps as there are nodes meets the whole list, in both
\* directions.
LEMMA RingedSound ==
  ASSUME Ringed(links, listed, head)
  PROVE  L!ListSound
<1>1. /\ listed \subseteq L!Node /\ OneRing(links.next, listed) /\ OneRing(links.prev, listed)
      /\ IF listed = {} THEN head = NULL ELSE head \in listed
  BY DEF Ringed
<1>2. IsFiniteSet(listed) /\ Cardinality(listed) <= Size + 1
  <2>1. IsFiniteSet(1 .. Size) /\ Cardinality(1 .. Size) = Size
    BY SizeAssumption, FS_Interval
  <2>2. IsFiniteSet(listed) /\ Cardinality(listed) <= Size
    BY <1>1, <2>1, FS_Subset DEF L!Node
  <2>3. Cardinality(listed) \in Nat
    BY <2>2, FS_CardinalityType
  <2> QED BY <2>2, <2>3, SizeAssumption
<1>3. ASSUME NEW p, OneRing(p, listed)
      PROVE  L!walked(p) = listed
  <2>1. L!walked(p) = Reached(IF head = NULL THEN {} ELSE {head}, p, Size)
    BY DEF L!walked, L!Reached, Reached
  <2>2. CASE listed = {}
    BY <1>1, <2>1, <2>2, ReachedNone, SizeAssumption
  <2>3. CASE listed # {}
    <3>1. PICK h \in listed : h = head
      BY <1>1, <2>3
    <3>2. h # NULL
      BY <1>1, NodeNotNull
    <3>3. Reached({h}, p, Size) = listed
      BY <1>2, <1>3, ReachedRing, SizeAssumption
    <3> QED BY <2>1, <3>1, <3>2, <3>3
  <2> QED BY <2>2, <2>3
<1>4. L!walked(links.next) = listed /\ L!walked(links.prev) = listed
  BY <1>1, <1>3
<1> QED BY <1>4 DEF L!ListSound, Ringed

\* DLIST_REMOVE_FROM, and DLIST_POP when c is the head.
LEMMA RingedRemove ==
  ASSUME NEW l, NEW C, NEW hd, Ringed(l, C, hd), NEW e \in C
  PROVE  Ringed(L!dlist_remove(l, e), C \ {e}, L!dlist_remove_from_head(l, hd, e))
<1> DEFINE n == l.next[e]
           p == l.prev[e]
           nxt == [l.next EXCEPT ![p] = n, ![e] = e]
           prv == [l.prev EXCEPT ![n] = p, ![e] = e]
           top == L!dlist_remove_from_head(l, hd, e)
<1>1. /\ l.next \in [L!Node -> L!Node] /\ l.prev \in [L!Node -> L!Node]
      /\ C \subseteq L!Node /\ e \in L!Node /\ n \in C /\ p \in C
      /\ l.prev[n] = e /\ l.next[p] = e
      /\ \A x \in L!Node : l.prev[l.next[x]] = x /\ l.next[l.prev[x]] = x
      /\ \A x \in L!Node \ C : l.next[x] = x
      /\ hd \in C
  BY DEF Ringed, OneRing
<1>2. L!dlist_remove(l, e) = [next |-> nxt, prev |-> prv]
  BY DEF L!dlist_remove
<1>3. nxt \in [L!Node -> L!Node] /\ prv \in [L!Node -> L!Node]
  BY <1>1
<1>4. /\ nxt[e] = e /\ prv[e] = e
      /\ p # e => nxt[p] = n
      /\ n # e => prv[n] = p
      /\ \A x \in L!Node \ {p, e} : nxt[x] = l.next[x]
      /\ \A x \in L!Node \ {n, e} : prv[x] = l.prev[x]
  BY <1>1
<1>5. n = e <=> p = e
  BY <1>1
<1> HIDE DEF nxt, prv, top
<1>6. ASSUME NEW x \in L!Node
      PROVE  prv[nxt[x]] = x /\ nxt[prv[x]] = x
  <2>1. prv[nxt[x]] = x
    <3>1. CASE x = e
      BY <1>4, <3>1
    <3>2. CASE x = p /\ x # e
      BY <1>1, <1>4, <1>5, <3>2
    <3>3. CASE x \notin {p, e}
      <4>1. nxt[x] = l.next[x] /\ l.next[x] \in L!Node /\ l.prev[l.next[x]] = x
        BY <1>1, <1>4, <3>3
      <4>2. l.next[x] # n /\ l.next[x] # e
        BY <1>1, <3>3, <4>1
      <4> QED BY <1>4, <4>1, <4>2
    <3> QED BY <3>1, <3>2, <3>3
  <2>2. nxt[prv[x]] = x
    <3>1. CASE x = e
      BY <1>4, <3>1
    <3>2. CASE x = n /\ x # e
      BY <1>1, <1>4, <1>5, <3>2
    <3>3. CASE x \notin {n, e}
      <4>1. prv[x] = l.prev[x] /\ l.prev[x] \in L!Node /\ l.next[l.prev[x]] = x
        BY <1>1, <1>4, <3>3
      <4>2. l.prev[x] # p /\ l.prev[x] # e
        BY <1>1, <3>3, <4>1
      <4> QED BY <1>4, <4>1, <4>2
    <3> QED BY <3>1, <3>2, <3>3
  <2> QED BY <2>1, <2>2
<1>7. \A x \in L!Node \ (C \ {e}) : nxt[x] = x
  BY <1>1, <1>4
<1>8. OneRing(nxt, C \ {e}) /\ OneRing(prv, C \ {e})
  <2>1. OneRing(l.next, C) /\ OneRing(l.prev, C)
    BY DEF Ringed
  <2>2. CASE p = e
    <3>1. {e} \in SUBSET C /\ {e} # {} /\ \A x \in {e} : l.next[x] \in {e}
      BY <1>1, <2>2
    <3>2. C = {e}
      BY <2>1, <3>1 DEF OneRing
    <3> QED BY <3>2, RingEmpty
  <2>3. CASE p # e
    <3>1. n # e
      BY <1>5, <2>3
    <3>2. /\ \A x \in C : l.next[x] = e => x = p
          /\ \A x \in C : l.prev[x] = e => x = n
      BY <1>1
    <3>3. /\ \A x \in C : x \notin {p, e} => nxt[x] = l.next[x]
          /\ \A x \in C : x \notin {n, e} => prv[x] = l.prev[x]
      BY <1>1, <1>4
    <3>4. nxt[p] = l.next[e] /\ prv[n] = l.prev[e]
      BY <1>4, <2>3, <3>1
    <3>5. /\ l.next[p] = e /\ l.prev[n] = e /\ p \in C /\ n \in C /\ e \in C
      BY <1>1
    <3> HIDE DEF p, n
    <3>6. OneRing(nxt, C \ {e})
      BY <2>1, <2>3, <3>2, <3>3, <3>4, <3>5, RingLeaves
    <3>7. OneRing(prv, C \ {e})
      BY <2>1, <3>1, <3>2, <3>3, <3>4, <3>5, RingLeaves
    <3> QED BY <3>6, <3>7
  <2> QED BY <2>2, <2>3
<1>9. IF C \ {e} = {} THEN top = NULL ELSE top \in C \ {e}
  <2>1. CASE hd # e
    <3>1. top = hd
      BY <2>1 DEF top, L!dlist_remove_from_head
    <3> QED BY <1>1, <2>1, <3>1
  <2>2. CASE hd = e /\ n # e
    <3>1. top = n
      BY <2>2 DEF top, L!dlist_remove_from_head, L!dlist_pop_head
    <3> QED BY <1>1, <2>2, <3>1
  <2>3. CASE hd = e /\ n = e
    <3>1. top = NULL
      BY <2>3 DEF top, L!dlist_remove_from_head, L!dlist_pop_head
    <3>2. {e} \in SUBSET C /\ {e} # {} /\ \A x \in {e} : l.next[x] \in {e}
      BY <1>1, <2>3
    <3>3. C = {e}
      BY <3>2 DEF OneRing, Ringed
    <3> QED BY <3>1, <3>3
  <2> QED BY <2>1, <2>2, <2>3
<1>10. Ringed([next |-> nxt, prev |-> prv], C \ {e}, top)
  BY <1>1, <1>3, <1>6, <1>7, <1>8, <1>9 DEF Ringed
<1> QED BY <1>2, <1>10 DEF top

\* DLIST_PUSH of a node on its own.
LEMMA RingedPush ==
  ASSUME NEW l, NEW C, NEW hd, Ringed(l, C, hd), NEW e \in L!Node \ C
  PROVE  Ringed(L!dlist_push(l, hd, e), C \cup {e}, e)
<1>1. /\ l = [next |-> l.next, prev |-> l.prev]
      /\ l.next \in [L!Node -> L!Node] /\ l.prev \in [L!Node -> L!Node]
      /\ C \subseteq L!Node
      /\ \A x \in L!Node : l.prev[l.next[x]] = x /\ l.next[l.prev[x]] = x
      /\ \A x \in L!Node \ C : l.next[x] = x
      /\ OneRing(l.next, C) /\ OneRing(l.prev, C)
      /\ l.next[e] = e /\ l.prev[e] = e
  BY DEF Ringed
<1>2. CASE hd = NULL
  <2>1. C = {} /\ L!dlist_push(l, hd, e) = l
    BY <1>2, NodeNotNull DEF Ringed, L!dlist_push
  <2>2. OneRing(l.next, {e}) /\ OneRing(l.prev, {e})
    BY <1>1, RingSingle
  <2>3. Ringed(l, {e}, e)
    BY <1>1, <2>1, <2>2 DEF Ringed
  <2> QED BY <2>1, <2>3
<1>3. CASE hd # NULL
  <2> DEFINE p == l.prev[hd]
             nxt == [l.next EXCEPT ![p] = e, ![e] = hd]
             prv == [l.prev EXCEPT ![e] = p, ![hd] = e]
  <2>1. /\ hd \in C /\ p \in C /\ l.next[p] = hd
        /\ p # e /\ hd # e /\ hd \in L!Node /\ p \in L!Node
    BY <1>1, <1>3 DEF Ringed, OneRing
  <2>2. L!dlist_push(l, hd, e) = [next |-> nxt, prev |-> prv]
    BY <1>1, <1>3 DEF L!dlist_push, L!dlist_insert_before
  <2>3. nxt \in [L!Node -> L!Node] /\ prv \in [L!Node -> L!Node]
    BY <1>1, <2>1
  <2>4. /\ nxt[p] = e /\ nxt[e] = hd /\ prv[e] = p /\ prv[hd] = e
        /\ \A x \in L!Node \ {p, e} : nxt[x] = l.next[x]
        /\ \A x \in L!Node \ {hd, e} : prv[x] = l.prev[x]
    BY <1>1, <2>1
  <2> HIDE DEF nxt, prv
  <2>5. ASSUME NEW x \in L!Node
        PROVE  prv[nxt[x]] = x /\ nxt[prv[x]] = x
    <3>1. prv[nxt[x]] = x
      <4>1. CASE x \in {p, e}
        BY <2>1, <2>4, <4>1
      <4>2. CASE x \notin {p, e}
        <5>1. nxt[x] = l.next[x] /\ l.next[x] \in L!Node /\ l.prev[l.next[x]] = x
          BY <1>1, <2>4, <4>2
        <5>2. l.next[x] # hd /\ l.next[x] # e
          BY <1>1, <4>2, <5>1
        <5> QED BY <2>4, <5>1, <5>2
      <4> QED BY <4>1, <4>2
    <3>2. nxt[prv[x]] = x
      <4>1. CASE x \in {hd, e}
        BY <2>1, <2>4, <4>1
      <4>2. CASE x \notin {hd, e}
        <5>1. prv[x] = l.prev[x] /\ l.prev[x] \in L!Node /\ l.next[l.prev[x]] = x
          BY <1>1, <2>4, <4>2
        <5>2. l.prev[x] # p /\ l.prev[x] # e
          BY <1>1, <2>1, <4>2, <5>1
        <5> QED BY <2>4, <5>1, <5>2
      <4> QED BY <4>1, <4>2
    <3> QED BY <3>1, <3>2
  <2>6. \A x \in L!Node \ (C \cup {e}) : nxt[x] = x
    BY <1>1, <2>1, <2>4
  <2>7. OneRing(nxt, C \cup {e}) /\ OneRing(prv, C \cup {e})
    <3>1. /\ \A x \in C : x # p => nxt[x] = l.next[x]
          /\ \A x \in C : x # hd => prv[x] = l.prev[x]
      BY <1>1, <2>4
    <3>2. /\ nxt[p] = e /\ nxt[e] = l.next[p] /\ prv[hd] = e /\ prv[e] = l.prev[hd]
          /\ p \in C /\ hd \in C /\ e \notin C
      BY <2>1, <2>4
    <3> HIDE DEF p
    <3>3. OneRing(nxt, C \cup {e})
      BY <1>1, <3>1, <3>2, RingJoins
    <3>4. OneRing(prv, C \cup {e})
      BY <1>1, <3>1, <3>2, RingJoins
    <3> QED BY <3>3, <3>4
  <2>8. Ringed([next |-> nxt, prev |-> prv], C \cup {e}, e)
    BY <1>1, <2>3, <2>5, <2>6, <2>7 DEF Ringed
  <2> QED BY <2>2, <2>8
<1> QED BY <1>2, <1>3

\* The nodes the loop has still to come to.
Coming == {e \in iter_ + 1 .. last_ : e \notin missed}

\* The pointers lead from one of them to the next, up to the last one.
ComingInv ==
  /\ looping /\ next_ \in Coming /\ last_ \in Coming /\ Coming \subseteq listed
  /\ \A e \in Coming : next_ <= e
  /\ \A e \in Coming :
       e # last_ => /\ links.next[e] \in Coming /\ e < links.next[e]
                    /\ \A f \in Coming : f > e => f >= links.next[e]
  /\ links.next[last_] = head

\* The nodes up to the present one have been visited, but for those missed.
VisitedInv ==
  /\ visited \in Seq(L!Node)
  /\ {visited[i] : i \in DOMAIN visited} = {e \in 1 .. iter_ : e \notin missed}
  /\ \A i, j \in DOMAIN visited : i < j => visited[i] < visited[j]

LoopInv ==
  /\ last_ \in L!Node /\ order = [i \in 1 .. last_ |-> i]
  /\ iter_ \in 1 .. last_
  /\ VisitedInv
  /\ IF next_ = NULL THEN iter_ = last_ ELSE ComingInv

ListInv == Ringed(links, listed, head) /\ LoopInv

\* A step leaves the nodes alone that are still to come.
LEMMA ComingKept ==
  ASSUME ListInv, next_ # NULL, iter_' = iter_, last_' = last_, next_' = next_,
         looping' = looping,
         Coming' \subseteq Coming, next_ \in Coming', last_ \in Coming',
         Coming' \subseteq listed',
         \A e \in Coming' : e # last_ =>
           \/ links'.next[e] = links.next[e] /\ links'.next[e] \in Coming'
           \/ \E x \in Coming : /\ Coming' = Coming \ {x} /\ links.next[e] = x /\ x # last_
                               /\ links'.next[e] = links.next[x],
         links'.next[last_] = head'
  PROVE  ComingInv'
<1>1. ComingInv
  BY DEF ListInv, LoopInv
<1>2. \A e \in Coming : e \in Int
  BY SizeAssumption DEF Coming, ListInv, LoopInv, L!Node
<1>3. ASSUME NEW e \in Coming', e # last_
      PROVE  /\ links'.next[e] \in Coming' /\ e < links'.next[e]
             /\ \A f \in Coming' : f > e => f >= links'.next[e]
  <2>0. e \in Coming /\ e \in Int /\ Coming' \subseteq Coming
    BY <1>2
  <2>1. /\ links.next[e] \in Coming /\ e < links.next[e] /\ links.next[e] \in Int
        /\ \A f \in Coming : f > e => f >= links.next[e]
    BY <1>1, <1>2, <1>3, <2>0 DEF ComingInv
  <2>2. CASE links'.next[e] = links.next[e] /\ links'.next[e] \in Coming'
    BY <2>0, <2>1, <2>2
  <2>3. ASSUME NEW x \in Coming, Coming' = Coming \ {x}, links.next[e] = x, x # last_,
               links'.next[e] = links.next[x]
        PROVE  /\ links'.next[e] \in Coming' /\ e < links'.next[e]
               /\ \A f \in Coming' : f > e => f >= links'.next[e]
    <3>1. /\ links.next[x] \in Coming /\ x < links.next[x] /\ links.next[x] \in Int /\ x \in Int
          /\ \A f \in Coming : f > x => f >= links.next[x]
      BY <1>1, <1>2, <2>3 DEF ComingInv
    <3>2. links'.next[e] \in Coming' /\ e < links'.next[e]
      BY <2>0, <2>1, <2>3, <3>1
    <3>3. ASSUME NEW f \in Coming', f > e
          PROVE  f >= links.next[x]
      <4>1. f \in Coming /\ f # x /\ f >= x /\ f \in Int
        BY <1>2, <2>0, <2>1, <2>3, <3>3
      <4> QED BY <3>1, <4>1
    <3> QED BY <2>3, <3>2, <3>3
  <2> QED BY <1>3, <2>2, <2>3
<1>4. \A e \in Coming' : next_ <= e
  BY <1>1 DEF ComingInv
<1> QED BY <1>1, <1>3, <1>4 DEF ComingInv

\* A body removes a node.
LEMMA ListRemove ==
  ASSUME ListInv, NEW e \in L!Node, L!remove(e)
  PROVE  ListInv'
<1>1. /\ looping /\ e \in listed /\ (e = iter_ \/ e \notin {last_, next_})
      /\ links' = L!dlist_remove(links, e)
      /\ head' = L!dlist_remove_from_head(links, head, e)
      /\ listed' = listed \ {e}
      /\ missed' = missed \cup ({e} \ {visited[i] : i \in DOMAIN visited})
      /\ last_' = last_ /\ iter_' = iter_ /\ next_' = next_ /\ looping' = looping
      /\ order' = order /\ visited' = visited
  BY DEF L!remove, L!loop
<1>2. Ringed(links, listed, head) /\ LoopInv
  BY DEF ListInv
<1>3. Ringed(links, listed, head)'
  BY <1>1, <1>2, RingedRemove
<1>4. /\ last_ \in Nat /\ iter_ \in 1 .. last_ /\ e \in Nat /\ e > 0
      /\ {visited[i] : i \in DOMAIN visited} = {x \in 1 .. iter_ : x \notin missed}
  BY <1>2, SizeAssumption DEF LoopInv, VisitedInv, L!Node
<1>5. missed' = missed \cup (IF e \in 1 .. iter_ THEN {} ELSE {e})
  BY <1>1, <1>4
<1>6. VisitedInv'
  <2>1. {x \in 1 .. iter_ : x \notin missed'} = {x \in 1 .. iter_ : x \notin missed}
    BY <1>5
  <2> QED BY <1>1, <1>2, <2>1 DEF LoopInv, VisitedInv
<1>7. ASSUME next_ # NULL
      PROVE  ComingInv'
  <2>1. ComingInv
    BY <1>2, <1>7 DEF LoopInv
  <2>2. e \notin {last_, next_}
    BY <1>1, <1>4, <2>1 DEF ComingInv, Coming
  <2>3. Coming' = Coming \ {e}
    BY <1>1, <1>4, <1>5 DEF Coming
  <2>4. /\ next_ \in Coming' /\ last_ \in Coming' /\ Coming' \subseteq listed'
    BY <1>1, <2>1, <2>2, <2>3 DEF ComingInv
  <2> DEFINE n == links.next[e]
             p == links.prev[e]
  <2>5. /\ links.next \in [L!Node -> L!Node] /\ n \in L!Node /\ p \in L!Node
        /\ \A x \in L!Node : links.prev[links.next[x]] = x /\ links.next[links.prev[x]] = x
        /\ listed \subseteq L!Node
    BY <1>2 DEF Ringed
  <2>6. links'.next = [links.next EXCEPT ![p] = n, ![e] = e]
    BY <1>1 DEF L!dlist_remove
  <2>7. ASSUME NEW x \in L!Node, x # e
        PROVE  links'.next[x] = IF links.next[x] = e THEN n ELSE links.next[x]
    <3>1. links.next[x] = e <=> x = p
      BY <2>5
    <3> QED BY <2>5, <2>6, <2>7, <3>1
  <2>8. links'.next[last_] = head'
    <3>1. links.next[last_] = head /\ last_ \in L!Node /\ last_ # e
      BY <1>2, <2>1, <2>2 DEF ComingInv, LoopInv
    <3>2. links'.next[last_] = IF head = e THEN n ELSE head
      BY <2>7, <3>1
    <3>3. head' = IF head = e THEN (IF n = e THEN NULL ELSE n) ELSE head
      BY <1>1 DEF L!dlist_remove_from_head, L!dlist_pop_head
    <3>4. CASE head = e
      <4>1. n # e
        BY <2>5, <3>1, <3>4
      <4> QED BY <3>2, <3>3, <3>4, <4>1
    <3> QED BY <3>2, <3>3, <3>4
  <2>9. ASSUME NEW x \in Coming', x # last_
        PROVE  \/ links'.next[x] = links.next[x] /\ links'.next[x] \in Coming'
               \/ \E y \in Coming : /\ Coming' = Coming \ {y} /\ links.next[x] = y /\ y # last_
                                   /\ links'.next[x] = links.next[y]
    <3>1. x \in Coming /\ x # e /\ x \in L!Node
      BY <2>1, <2>3, <2>5 DEF ComingInv
    <3>2. links.next[x] \in Coming
      BY <2>1, <2>9, <3>1 DEF ComingInv
    <3>3. CASE links.next[x] = e
      BY <2>2, <2>3, <2>7, <3>1, <3>2, <3>3
    <3>4. CASE links.next[x] # e
      BY <2>3, <2>7, <3>1, <3>2, <3>4
    <3> QED BY <3>3, <3>4
  <2>10. Coming' \subseteq Coming
    BY <2>3
  <2> HIDE DEF n, p
  <2> QED BY <1>1, <1>7, <2>4, <2>8, <2>9, <2>10, ComingKept
<1>8. LoopInv'
  BY <1>1, <1>2, <1>6, <1>7 DEF LoopInv
<1> QED BY <1>3, <1>8 DEF ListInv

\* A body pushes a node.
LEMMA ListPush ==
  ASSUME ListInv, NEW e \in L!Node, L!push(e)
  PROVE  ListInv'
<1>1. /\ looping /\ e \notin listed
      /\ links' = L!dlist_push(links, head, e)
      /\ head' = e
      /\ listed' = listed \cup {e}
      /\ missed' = missed
      /\ last_' = last_ /\ iter_' = iter_ /\ next_' = next_ /\ looping' = looping
      /\ order' = order /\ visited' = visited
  BY DEF L!push, L!loop
<1>2. Ringed(links, listed, head) /\ LoopInv
  BY DEF ListInv
<1>3. Ringed(links, listed, head)'
  BY <1>1, <1>2, RingedPush
<1>4. VisitedInv'
  BY <1>1, <1>2 DEF LoopInv, VisitedInv
<1>5. ASSUME next_ # NULL
      PROVE  ComingInv'
  <2>1. ComingInv
    BY <1>2, <1>5 DEF LoopInv
  <2>2. Coming' = Coming
    BY <1>1 DEF Coming
  <2> DEFINE p == links.prev[head]
  <2>3. /\ links.next \in [L!Node -> L!Node]
        /\ \A x \in L!Node : links.prev[links.next[x]] = x /\ links.next[links.prev[x]] = x
        /\ listed \subseteq L!Node
    BY <1>2 DEF Ringed
  <2>4. last_ \in listed /\ links.next[last_] = head
    BY <2>1 DEF ComingInv
  <2>5. head \in L!Node /\ head # NULL /\ p = last_
    BY <2>3, <2>4, NodeNotNull
  <2>6. links'.next = [links.next EXCEPT ![last_] = e, ![e] = head]
    <3>1. links.prev[e] = e
      BY <1>1, <1>2 DEF Ringed
    <3>2. L!dlist_push(links, head, e).next
            = [links.next EXCEPT ![p] = e, ![links.prev[e]] = head]
      BY <2>5 DEF L!dlist_push, L!dlist_insert_before
    <3> QED BY <1>1, <2>5, <3>1, <3>2
  <2>7. links'.next[last_] = head'
    BY <1>1, <2>3, <2>4, <2>6
  <2>8. ASSUME NEW x \in Coming, x # last_
        PROVE  links'.next[x] = links.next[x] /\ links.next[x] \in Coming
    <3>1. x \in listed /\ x # e
      BY <1>1, <2>1 DEF ComingInv
    <3> QED BY <2>1, <2>3, <2>6, <2>8, <3>1 DEF ComingInv
  <2>9. next_ \in Coming' /\ last_ \in Coming' /\ Coming' \subseteq listed'
    BY <1>1, <2>1, <2>2 DEF ComingInv
  <2> QED BY <1>1, <1>5, <2>2, <2>7, <2>8, <2>9, ComingKept
<1>6. LoopInv'
  BY <1>1, <1>2, <1>4, <1>5 DEF LoopInv
<1> QED BY <1>3, <1>6 DEF ListInv

\* The loop goes on to the next node.
LEMMA ListAgain ==
  ASSUME ListInv, L!again
  PROVE  ListInv'
<1>1. /\ looping /\ next_ # NULL
      /\ iter_' = next_ /\ next_' = L!following(links, next_, last_)
      /\ visited' = Append(visited, next_)
      /\ links' = links /\ head' = head /\ listed' = listed /\ missed' = missed
      /\ last_' = last_ /\ looping' = looping /\ order' = order
  BY DEF L!again
<1>2. Ringed(links, listed, head) /\ LoopInv /\ ComingInv
  BY <1>1 DEF ListInv, LoopInv
<1>3. Ringed(links, listed, head)'
  BY <1>1, <1>2
<1>4. /\ last_ \in Nat /\ iter_ \in 1 .. last_
      /\ next_ \in iter_ + 1 .. last_ /\ next_ \notin missed
      /\ \A x \in iter_ + 1 .. last_ : x \notin missed => next_ <= x
  BY <1>2, SizeAssumption DEF LoopInv, ComingInv, Coming, L!Node
<1>5. VisitedInv'
  <2> PICK v \in Seq(L!Node) : v = visited
    BY <1>2 DEF LoopInv, VisitedInv
  <2>1. next_ \in L!Node
    BY <1>2 DEF ComingInv, Ringed
  <2>2. /\ visited' \in Seq(L!Node)
        /\ DOMAIN visited' = DOMAIN visited \cup {Len(visited) + 1}
        /\ visited'[Len(visited) + 1] = next_
        /\ \A i \in DOMAIN visited : visited'[i] = visited[i]
        /\ \A i \in DOMAIN visited : i \in Int /\ i < Len(visited) + 1
        /\ Len(visited) + 1 \in Int
    BY <1>1, <2>1
  <2>3. /\ {visited[i] : i \in DOMAIN visited} = {e \in 1 .. iter_ : e \notin missed}
        /\ \A i, j \in DOMAIN visited : i < j => visited[i] < visited[j]
    BY <1>2 DEF LoopInv, VisitedInv
  <2>4. {visited'[i] : i \in DOMAIN visited'} = {e \in 1 .. next_ : e \notin missed}
    <3>1. {visited'[i] : i \in DOMAIN visited'} = {visited[i] : i \in DOMAIN visited} \cup {next_}
      BY <2>2
    <3>2. {e \in 1 .. next_ : e \notin missed} = {e \in 1 .. iter_ : e \notin missed} \cup {next_}
      BY <1>4
    <3> QED BY <2>3, <3>1, <3>2
  <2>5. \A i, j \in DOMAIN visited' : i < j => visited'[i] < visited'[j]
    <3> SUFFICES ASSUME NEW i \in DOMAIN visited', NEW j \in DOMAIN visited', i < j
                 PROVE  visited'[i] < visited'[j]
      OBVIOUS
    <3>1. i \in DOMAIN visited
      BY <2>2
    <3>2. CASE j \in DOMAIN visited
      BY <2>2, <2>3, <3>1, <3>2
    <3>3. CASE j = Len(visited) + 1
      <4>1. visited[i] \in {e \in 1 .. iter_ : e \notin missed}
        BY <2>3, <3>1
      <4>2. visited[i] \in Int /\ visited[i] <= iter_
        BY <1>4, <4>1
      <4> QED BY <1>4, <2>2, <3>1, <3>3, <4>2
    <3> QED BY <2>2, <3>2, <3>3
  <2> QED BY <1>1, <2>2, <2>4, <2>5 DEF VisitedInv
<1>6. iter_' \in 1 .. last_'
  BY <1>1, <1>4
<1>7. CASE next_ = last_
  <2>1. next_' = NULL
    BY <1>1, <1>7 DEF L!following
  <2> QED BY <1>1, <1>2, <1>3, <1>5, <1>6, <1>7, <2>1 DEF ListInv, LoopInv
<1>8. CASE next_ # last_
  <2>1. next_' = links.next[next_]
    BY <1>1, <1>8 DEF L!following
  <2>2. Coming' = Coming \ {next_}
    BY <1>1, <1>4 DEF Coming
  <2>3. \A x \in Coming : x \in Int
    BY <1>4 DEF Coming
  <2>4. /\ next_ \in Coming /\ next_' \in Coming /\ next_ < next_'
        /\ \A f \in Coming : f > next_ => f >= next_'
        /\ \A f \in Coming : f >= next_
        /\ last_ \in Coming /\ Coming \subseteq listed /\ links.next[last_] = head
    BY <1>2, <1>8, <2>1 DEF ComingInv
  <2>5. /\ next_' \in Coming' /\ last_ \in Coming' /\ Coming' \subseteq listed
        /\ \A f \in Coming' : next_' <= f
    BY <1>8, <2>2, <2>3, <2>4
  <2>6. ASSUME NEW x \in Coming', x # last_
        PROVE  /\ links.next[x] \in Coming' /\ x < links.next[x]
               /\ \A f \in Coming' : f > x => f >= links.next[x]
    <3>1. /\ links.next[x] \in Coming /\ x < links.next[x]
          /\ \A f \in Coming : f > x => f >= links.next[x]
      BY <1>2, <2>2, <2>6 DEF ComingInv
    <3>2. x >= next_ /\ x \in Int /\ links.next[x] \in Int /\ next_ \in Int
      BY <2>2, <2>3, <2>4, <2>6, <3>1
    <3>3. links.next[x] # next_
      BY <3>1, <3>2
    <3> QED BY <2>2, <3>1, <3>3
  <2>7. ComingInv'
    BY <1>1, <2>4, <2>5, <2>6 DEF ComingInv
  <2>8. next_' # NULL
    BY <2>3, <2>4, NullAssumption
  <2> QED BY <1>1, <1>2, <1>3, <1>5, <1>6, <2>7, <2>8 DEF ListInv, LoopInv
<1> QED BY <1>7, <1>8

\* The loop ends.
LEMMA ListLeave ==
  ASSUME ListInv, L!leave
  PROVE  ListInv'
<1>1. /\ next_ = NULL /\ next_' = next_ /\ links' = links /\ head' = head
      /\ listed' = listed /\ missed' = missed /\ last_' = last_ /\ iter_' = iter_
      /\ order' = order /\ visited' = visited
  BY DEF L!leave
<1> QED BY <1>1 DEF ListInv, LoopInv, VisitedInv

\* The nodes 1 .. k are a ring as the loop of list.h finds them.
LEMMA RingInit ==
  ASSUME NEW k \in L!Node
  PROVE  Ringed(L!ring(k), 1 .. k, 1)
<1>1. k \in Nat /\ k >= 1 /\ k <= Size /\ Size \in Nat
  BY SizeAssumption DEF L!Node
<1> DEFINE nxt == [e \in L!Node |-> IF e < k THEN e + 1 ELSE IF e = k THEN 1 ELSE e]
           prv == [e \in L!Node |-> IF e = 1 THEN k ELSE IF e <= k THEN e - 1 ELSE e]
<1>2. L!ring(k) = [next |-> nxt, prev |-> prv]
  BY DEF L!ring
<1>3. /\ nxt \in [L!Node -> L!Node] /\ prv \in [L!Node -> L!Node]
      /\ \A e \in L!Node : prv[nxt[e]] = e /\ nxt[prv[e]] = e
      /\ \A e \in L!Node \ (1 .. k) : nxt[e] = e
      /\ \A e \in 1 .. k : nxt[e] \in 1 .. k /\ prv[e] \in 1 .. k
  BY <1>1 DEF L!Node
<1>4. /\ nxt[k] = 1 /\ \A e \in 1 .. k - 1 : nxt[e] = e + 1
      /\ prv[1] = k /\ \A e \in 2 .. k : prv[e] = e - 1
  BY <1>1 DEF L!Node
<1> HIDE DEF nxt, prv
<1>5. ASSUME NEW T \in SUBSET (1 .. k), T # {}, \A e \in T : nxt[e] \in T
      PROVE  T = 1 .. k
  <2>1. PICK x \in 1 .. k : x \in T
    BY <1>5
  <2>2. ASSUME NEW m \in 1 .. k, m \in T
        PROVE  m .. k \subseteq T
    <3>1. \A i \in m .. k - 1 : i \in T => i + 1 \in T
      BY <1>4, <1>5, <2>2
    <3> QED BY <1>1, <2>2, <3>1, IntervalInduction
  <2>3. k \in T
    BY <1>1, <2>1, <2>2
  <2>4. 1 \in T
    BY <1>4, <1>5, <2>3
  <2>5. 1 .. k \subseteq T
    BY <1>1, <2>2, <2>4
  <2> QED BY <2>5
<1>6. ASSUME NEW T \in SUBSET (1 .. k), T # {}, \A e \in T : prv[e] \in T
      PROVE  T = 1 .. k
  <2> DEFINE U == {i \in 0 .. k - 1 : k - i \in T}
  <2>1. ASSUME NEW m \in 1 .. k, m \in T
        PROVE  k - m .. k - 1 \subseteq U
    <3>1. k - m \in U
      <4>1. k - (k - m) = m /\ k - m \in 0 .. k - 1
        BY <1>1
      <4> QED BY <2>1, <4>1
    <3>2. ASSUME NEW i \in k - m .. (k - 1) - 1, i \in U
          PROVE  i + 1 \in U
      <4>1. k - i \in T /\ k - i \in 2 .. k /\ (k - i) - 1 = k - (i + 1) /\ i + 1 \in 0 .. k - 1
        BY <1>1, <3>2
      <4>2. k - (i + 1) \in T
        BY <1>4, <1>6, <4>1
      <4> QED BY <4>1, <4>2
    <3>3. PICK lo \in Int, hi \in Int : lo = k - m /\ hi = k - 1
      BY <1>1
    <3> HIDE DEF U
    <3>4. lo .. hi \subseteq U
      <4>1. lo \in U /\ \A i \in lo .. hi - 1 : i \in U => i + 1 \in U
        BY <3>1, <3>2, <3>3
      <4> QED BY <4>1, IntervalInduction
    <3> QED BY <3>3, <3>4
  <2>2. PICK x \in 1 .. k : x \in T
    BY <1>6
  <2>3. k - 1 \in U
    <3>1. k - 1 \in k - x .. k - 1
      BY <1>1
    <3> QED BY <2>1, <2>2, <3>1
  <2>4. 1 \in T
    <3>1. k - (k - 1) = 1
      BY <1>1
    <3> QED BY <2>3, <3>1
  <2>5. k \in T
    BY <1>4, <1>6, <2>4
  <2>6. ASSUME NEW e \in 1 .. k
        PROVE  e \in T
    <3>1. k - e \in 0 .. k - 1 /\ k - (k - e) = e /\ k - e \in k - k .. k - 1 /\ k \in 1 .. k
      BY <1>1
    <3>2. k - e \in U
      BY <2>1, <2>5, <3>1
    <3> QED BY <3>1, <3>2
  <2> QED BY <2>6
<1>7. OneRing(nxt, 1 .. k) /\ OneRing(prv, 1 .. k)
  BY <1>3, <1>5, <1>6 DEF OneRing
<1>8. Ringed([next |-> nxt, prev |-> prv], 1 .. k, 1)
  <2>1. 1 \in 1 .. k /\ 1 .. k \subseteq L!Node
    BY <1>1 DEF L!Node
  <2> QED BY <1>3, <1>7, <2>1 DEF Ringed
<1> QED BY <1>2, <1>8

\* The loop begins with its invariant.
LEMMA ListInit == L!Init => ListInv
<1> SUFFICES ASSUME L!Init
             PROVE  ListInv
  OBVIOUS
<1>1. PICK k \in L!Node : /\ links = L!ring(k) /\ listed = 1 .. k
                          /\ order = [i \in 1 .. k |-> i]
  BY DEF L!Init
<1>2. /\ head = 1 /\ last_ = links.prev[1] /\ iter_ = 1
      /\ next_ = L!following(links, 1, last_)
      /\ looping = TRUE /\ visited = <<1>> /\ missed = {}
  BY DEF L!Init
<1>3. k \in Nat /\ k >= 1 /\ k <= Size /\ Size \in Nat
  BY SizeAssumption DEF L!Node
<1>4. /\ links.prev[1] = k /\ links.next[k] = 1
      /\ \A e \in 1 .. k - 1 : links.next[e] = e + 1
  BY <1>1, <1>3 DEF L!ring, L!Node
<1>5. Ringed(links, listed, head)
  BY <1>1, <1>2, RingInit
<1>6. last_ = k
  BY <1>2, <1>4
<1>7. VisitedInv
  <2>1. {e \in 1 .. iter_ : e \notin missed} = {1}
    BY <1>2
  <2>2. /\ visited \in Seq(L!Node) /\ DOMAIN visited = {1} /\ visited[1] = 1
    BY <1>2, <1>3 DEF L!Node
  <2> QED BY <2>1, <2>2 DEF VisitedInv
<1>8. CASE k = 1
  <2>1. next_ = NULL
    BY <1>2, <1>6, <1>8 DEF L!following
  <2> QED BY <1>1, <1>2, <1>3, <1>5, <1>6, <1>7, <1>8, <2>1 DEF ListInv, LoopInv
<1>9. CASE k # 1
  <2>1. next_ = 2
    BY <1>2, <1>3, <1>4, <1>6, <1>9 DEF L!following
  <2>2. Coming = 2 .. k
    BY <1>2, <1>6 DEF Coming
  <2>3. ComingInv
    <3>1. ASSUME NEW e \in 2 .. k, e # k
          PROVE  links.next[e] = e + 1
      BY <1>3, <1>4, <3>1
    <3>2. /\ 2 \in 2 .. k /\ k \in 2 .. k /\ 2 .. k \subseteq 1 .. k
          /\ \A e \in 2 .. k : 2 <= e
          /\ \A e \in 2 .. k : e # k => /\ e + 1 \in 2 .. k /\ e < e + 1
                                        /\ \A f \in 2 .. k : f > e => f >= e + 1
      BY <1>3, <1>9
    <3> QED BY <1>1, <1>2, <1>4, <1>6, <2>1, <2>2, <3>1, <3>2 DEF ComingInv
  <2>4. next_ # NULL
    BY <2>1, NullAssumption
  <2> QED BY <1>1, <1>2, <1>3, <1>5, <1>6, <1>7, <2>3, <2>4 DEF ListInv, LoopInv
<1> QED BY <1>8, <1>9

\* The loop and its bodies keep the invariant.
LEMMA ListAlways == Spec => [](part = "list" => ListInv)
<1>1. Init => (part = "list" => ListInv)
  BY ListInit DEF Init
<1>2. (part = "list" => ListInv) /\ [Next]_vars => (part = "list" => ListInv)'
  <2> SUFFICES ASSUME part = "list" => ListInv, [Next]_vars, part' = "list"
               PROVE  ListInv'
    OBVIOUS
  <2>1. CASE iterating(L!Next)
    <3>1. ListInv /\ L!Next
      BY <2>1 DEF iterating
    <3> QED BY <3>1, ListRemove, ListPush, ListAgain, ListLeave DEF L!Next, L!turn
  <2>2. CASE UNCHANGED list
    <3>1. part' = part
      BY DEF Next, vars, booting, converting, printing, copying, iterating, finished
    <3>2. ListInv
      BY <3>1
    <3>3. /\ links' = links /\ head' = head /\ last_' = last_ /\ iter_' = iter_
          /\ next_' = next_ /\ looping' = looping /\ listed' = listed /\ order' = order
          /\ visited' = visited /\ missed' = missed
      BY <2>2 DEF list
    <3>4. VisitedInv' = VisitedInv /\ Coming' = Coming
      BY <3>3 DEF VisitedInv, Coming
    <3>5. ComingInv' = ComingInv
      BY <3>3, <3>4 DEF ComingInv
    <3> QED BY <3>2, <3>3, <3>4, <3>5 DEF ListInv, LoopInv
  <2> QED BY <2>1, <2>2 DEF Next, vars, booting, converting, printing, copying, finished
<1> QED BY <1>1, <1>2, PTL DEF Spec

\* Whatever the bodies of the loop remove and push, the list stays one ring
\* of the nodes in it, in both directions.
THEOREM ListSoundAlways == Spec => []ListSound
<1>1. (part = "list" => ListInv) => ListSound
  BY RingedSound DEF ListInv, ListSound
<1> QED BY <1>1, ListAlways, PTL

\* The body of the loop runs once for each node that was in the list when the
\* loop began and was not removed before its turn, and for no other.
THEOREM EachOnceAlways == Spec => []EachOnce
<1>1. ASSUME ListInv, ~looping
      PROVE  {visited[i] : i \in DOMAIN visited} = {order[i] : i \in DOMAIN order} \ missed
  <2>1. iter_ = last_ /\ VisitedInv /\ order = [i \in 1 .. last_ |-> i]
    BY <1>1 DEF ListInv, LoopInv, ComingInv
  <2>2. {order[i] : i \in DOMAIN order} = 1 .. last_
    BY <2>1
  <2> QED BY <2>1, <2>2 DEF VisitedInv
<1>2. ASSUME ListInv, NEW i \in DOMAIN visited, NEW j \in DOMAIN visited, i < j
      PROVE  \E m, n \in DOMAIN order : m < n /\ visited[i] = order[m] /\ visited[j] = order[n]
  <2>1. /\ VisitedInv /\ order = [x \in 1 .. last_ |-> x] /\ iter_ \in 1 .. last_
        /\ last_ \in Nat
    BY <1>2, SizeAssumption DEF ListInv, LoopInv, L!Node
  <2>2. visited[i] \in 1 .. iter_ /\ visited[j] \in 1 .. iter_ /\ visited[i] < visited[j]
    BY <1>2, <2>1 DEF VisitedInv
  <2>3. visited[i] \in 1 .. last_ /\ visited[j] \in 1 .. last_
    BY <2>1, <2>2
  <2> QED BY <2>1, <2>2, <2>3
<1>3. (part = "list" => ListInv) => EachOnce
  BY <1>1, <1>2 DEF EachOnce, L!EachOnce
<1> QED BY <1>3, ListAlways, PTL

=============================================================================
