------------------------------ MODULE ClockProofs ------------------------------
(***************************************************************************)
(* Proofs about Clock, for every width of the counter, length of the tock  *)
(* and lateness below a tock.                                              *)
(*                                                                         *)
(* The inductive invariant has the time of the next match, of which C1     *)
(* holds the low half (Ahead, Late), and for each half read a time between *)
(* the call and now of which it is the half (Halves).                      *)
(***************************************************************************)
EXTENDS Clock, TLAPS

-----------------------------------------------------------------------------
(* Arithmetic.                                                             *)

\* Division with remainder.
LEMMA Division ==
  ASSUME NEW x \in Nat, NEW w \in Nat, w > 0
  PROVE  /\ x \div w \in Nat /\ x % w \in 0 .. w - 1
         /\ x = (x \div w) * w + (x % w)
BY SMT

\* Multiples of w are w apart.
LEMMA Apart ==
  ASSUME NEW a \in Int, NEW b \in Int, NEW w \in Nat, a < b
  PROVE  a * w + w <= b * w
BY SMT

\* Products of natural numbers, and one more time w.
LEMMA Product ==
  ASSUME NEW a \in Nat, NEW w \in Nat
  PROVE  a * w \in Nat /\ (a + 1) * w = a * w + w
BY SMT

\* Quotient and remainder are the only ones there are.
LEMMA Unique ==
  ASSUME NEW x \in Nat, NEW w \in Nat, w > 0,
         NEW q \in Nat, NEW r \in 0 .. w - 1, x = q * w + r
  PROVE  x \div w = q /\ x % w = r
<1> DEFINE a == x \div w
           b == x % w
<1>1. a \in Nat /\ b \in 0 .. w - 1 /\ x = a * w + b
  BY Division
<1> HIDE DEF a, b
<1>2. a * w \in Nat /\ q * w \in Nat
  BY <1>1, Product
<1>3. ~(a < q)
  <2> SUFFICES ASSUME a < q
               PROVE  FALSE
    OBVIOUS
  <2>1. a * w + w <= q * w
    BY <1>1, Apart
  <2> QED BY <2>1, <1>1, <1>2
<1>4. ~(q < a)
  <2> SUFFICES ASSUME q < a
               PROVE  FALSE
    OBVIOUS
  <2>1. q * w + w <= a * w
    BY <1>1, Apart
  <2> QED BY <2>1, <1>1, <1>2
<1>5. a = q
  BY <1>1, <1>3, <1>4
<1>6. b = r
  BY <1>1, <1>2, <1>5
<1> QED BY <1>5, <1>6 DEF a, b

\* Numbers less than w apart with the same remainder are the same.
LEMMA SameRest ==
  ASSUME NEW x \in Nat, NEW y \in Nat, NEW w \in Nat, w > 0,
         x <= y, y - x < w, x % w = y % w
  PROVE  x = y
<1> DEFINE a == x \div w
           b == y \div w
           r == x % w
<1>1. /\ a \in Nat /\ b \in Nat /\ r \in 0 .. w - 1
      /\ x = a * w + r /\ y = b * w + r
  BY Division
<1> HIDE DEF a, b, r
<1>2. a * w \in Nat /\ b * w \in Nat
  BY <1>1, Product
<1>3. ~(a < b)
  <2> SUFFICES ASSUME a < b
               PROVE  FALSE
    OBVIOUS
  <2>1. a * w + w <= b * w
    BY <1>1, Apart
  <2> QED BY <2>1, <1>1, <1>2
<1>4. ~(b < a)
  <2> SUFFICES ASSUME b < a
               PROVE  FALSE
    OBVIOUS
  <2>1. b * w + w <= a * w
    BY <1>1, Apart
  <2> QED BY <2>1, <1>1, <1>2
<1>5. a = b
  BY <1>1, <1>3, <1>4
<1> QED BY <1>1, <1>5

\* The remainder of a sum.
LEMMA RestOfSum ==
  ASSUME NEW x \in Nat, NEW y \in Nat, NEW w \in Nat, w > 0
  PROVE  ((x % w) + y) % w = (x + y) % w
<1> DEFINE q == x \div w
           r == x % w
           p == (r + y) \div w
           s == (r + y) % w
<1>1. q \in Nat /\ r \in 0 .. w - 1 /\ x = q * w + r
  BY Division
<1>2. r + y \in Nat
  BY <1>1
<1>3. p \in Nat /\ s \in 0 .. w - 1 /\ r + y = p * w + s
  BY <1>2, Division
<1> HIDE DEF p, q, r, s
<1>4. (p + q) * w = p * w + q * w /\ p * w \in Nat /\ q * w \in Nat
  BY <1>1, <1>3
<1>5. x + y = (p + q) * w + s /\ p + q \in Nat /\ x + y \in Nat
  BY <1>1, <1>3, <1>4
<1>6. (x + y) % w = s
  BY <1>3, <1>5, Unique
<1> QED BY <1>6 DEF s, r

-----------------------------------------------------------------------------
(* The inductive invariant.                                                *)

TypeOK ==
  /\ now \in Nat /\ tocks \in Nat
  /\ c1 \in Nat /\ match \in BOOLEAN
  /\ irq \in {NULL, "c1", "ctrl", "record"}
  /\ began \in Nat \cup {NULL} /\ matched \in Nat \cup {NULL}
  /\ hi \in Nat \cup {NULL} /\ lo \in Nat \cup {NULL} /\ asked \in Nat \cup {NULL}

\* The match after as many tocks as have been recorded.
Due == began + (tocks + 1) * TICKS_PER_TOCK

\* The next match is less than a tock away, and C1 is set for it.
Ahead ==
  /\ irq = NULL /\ ~match
  /\ now < Due /\ Due <= now + TICKS_PER_TOCK
  /\ c1 = Due % WORD

\* A match is being handled, and C1 is set for it, or for the next one.
Late ==
  /\ matched = Due /\ Due <= now /\ now <= Due + LATENCY
  /\ irq \in {NULL, "c1"} => match /\ c1 = Due % WORD
  /\ irq \in {"ctrl", "record"} => c1 = (Due + TICKS_PER_TOCK) % WORD
  /\ irq = "record" => ~match

TimerInv ==
  IF began = NULL THEN irq = NULL /\ matched = NULL /\ tocks = 0
  ELSE began <= now /\ IF matched = NULL THEN Ahead ELSE Late

\* What has been read was read since the call.
ReaderInv ==
  /\ asked = NULL => hi = NULL /\ lo = NULL
  /\ asked # NULL => asked <= now
  /\ hi # NULL => \E t \in asked .. now : hi = t \div WORD
  /\ lo # NULL => \E t \in asked .. now : lo = t % WORD

IInv == TypeOK /\ TimerInv /\ ReaderInv

\* NULL is nothing else, and a tock is shorter than a rollover.
LEMMA Constants ==
  /\ WORD \in Nat /\ WORD > 0 /\ TICKS_PER_TOCK \in Nat
  /\ TICKS_PER_TOCK > 0 /\ TICKS_PER_TOCK < WORD
  /\ LATENCY \in Nat /\ LATENCY < TICKS_PER_TOCK /\ HORIZON \in Nat
  /\ NULL \notin Nat /\ NULL \notin {"c1", "ctrl", "record"}
BY ClockAssumption

\* The time of a match is a natural number.
LEMMA DueIs ==
  ASSUME TypeOK, began # NULL
  PROVE  Due \in Nat
<1>1. began \in Nat /\ tocks + 1 \in Nat
  BY DEF TypeOK
<1>2. (tocks + 1) * TICKS_PER_TOCK \in Nat
  BY <1>1, Constants, Product
<1> QED BY <1>1, <1>2 DEF Due

\* The invariant holds at first.
LEMMA InitIInv == Init => IInv
BY Constants DEF Init, IInv, TypeOK, TimerInv, ReaderInv

-----------------------------------------------------------------------------
(* The steps.                                                              *)

\* Time reaches the next match when CLO reaches C1, and only then.
LEMMA TickStep ==
  ASSUME IInv, tick
  PROVE  TypeOK' /\ TimerInv'
<1>1. /\ now \in Nat /\ now' = now + 1 /\ match' = (match \/ CLO' = c1)
      /\ UNCHANGED <<c1, irq, began, tocks>>
      /\ CLO' = (now + 1) % WORD
      /\ matched' = IF began # NULL /\ CLO' = c1 THEN now + 1 ELSE matched
      /\ matched # NULL => now - matched < LATENCY
      /\ UNCHANGED <<hi, lo, asked>>
  BY DEF tick, IInv, TypeOK, CLO, reader
<1>2. TypeOK'
  BY <1>1 DEF IInv, TypeOK
<1>3. CASE began = NULL
  BY <1>1, <1>2, <1>3 DEF IInv, TimerInv
<1>4. CASE began # NULL
  <2>1. Due \in Nat /\ Due' = Due /\ began \in Nat
    BY <1>1, <1>4, DueIs DEF IInv, TypeOK, Due
  <2>2. CASE matched = NULL
    <3>1. Ahead
      BY <1>4, <2>2 DEF IInv, TimerInv
    <3>2. CASE now + 1 = Due
      <4>1. CLO' = c1
        BY <1>1, <3>1, <3>2 DEF Ahead
      <4>2. matched' = Due /\ matched' # NULL /\ match'
        BY <1>1, <1>4, <2>1, <3>2, <4>1, Constants
      <4>3. Late'
        BY <1>1, <2>1, <3>1, <3>2, <4>2, Constants DEF Late, Ahead
      <4> QED BY <1>1, <1>2, <1>4, <4>2, <4>3 DEF TimerInv, IInv, TypeOK
    <3>3. CASE now + 1 # Due
      <4>1. CLO' # c1
        <5> SUFFICES ASSUME (now + 1) % WORD = Due % WORD
                     PROVE  FALSE
          BY <1>1, <3>1 DEF Ahead
        <5>1. now + 1 \in Nat /\ now + 1 <= Due /\ Due - (now + 1) < WORD
          BY <1>1, <2>1, <3>1, Constants DEF Ahead
        <5>2. now + 1 = Due
          BY <2>1, <5>1, Constants, SameRest
        <5> QED BY <5>2, <3>3
      <4>2. matched' = NULL /\ ~match'
        BY <1>1, <2>2, <3>1, <4>1 DEF Ahead
      <4>3. Ahead'
        BY <1>1, <2>1, <3>1, <3>3, <4>2, Constants DEF Ahead
      <4>4. began' # NULL /\ began' <= now'
        BY <1>1, <1>4, <2>1 DEF IInv, TimerInv
      <4> QED BY <1>2, <4>2, <4>3, <4>4 DEF TimerInv
    <3> QED BY <3>2, <3>3
  <2>3. CASE matched # NULL
    <3>1. Late /\ began <= now
      BY <1>4, <2>3 DEF IInv, TimerInv
    <3>2. now + 1 <= Due + LATENCY /\ Due < now + 1
      BY <1>1, <2>1, <2>3, <3>1, Constants DEF Late
    <3>3. ASSUME NEW d \in Nat, d = Due \/ d = Due + TICKS_PER_TOCK, c1 = d % WORD
          PROVE  CLO' # c1
      <4> SUFFICES ASSUME (now + 1) % WORD = d % WORD
                   PROVE  FALSE
        BY <1>1, <3>3
      <4>1. now + 1 \in Nat /\ now + 1 # d
        BY <1>1, <2>1, <3>2, <3>3, Constants
      <4>2. CASE now + 1 <= d
        <5>1. d - (now + 1) < WORD
          BY <1>1, <2>1, <3>2, <3>3, Constants
        <5> QED BY <4>1, <4>2, <5>1, Constants, SameRest
      <4>3. CASE d <= now + 1
        <5>1. (now + 1) - d < WORD
          BY <1>1, <2>1, <3>2, <3>3, <4>3, Constants
        <5> QED BY <4>1, <4>3, <5>1, Constants, SameRest
      <4> QED BY <4>1, <4>2, <4>3
    <3>4. \E d \in Nat : (d = Due \/ d = Due + TICKS_PER_TOCK) /\ c1 = d % WORD
      BY <2>1, <3>1, Constants DEF Late, IInv, TypeOK
    <3>5. CLO' # c1
      BY <3>3, <3>4
    <3>6. matched' = matched /\ match' = match
      BY <1>1, <3>5 DEF IInv, TypeOK
    <3>7. Late'
      BY <1>1, <2>1, <3>1, <3>2, <3>6, Constants DEF Late
    <3> QED BY <1>1, <1>2, <1>4, <2>1, <2>3, <3>1, <3>6, <3>7 DEF TimerInv
  <2> QED BY <2>2, <2>3
<1> QED BY <1>2, <1>3, <1>4

\* The steps of caml_time_init and of the handler.
LEMMA TimerStep ==
  ASSUME IInv, caml_time_init \/ enter \/ set_match \/ acknowledge \/ record
  PROVE  TypeOK' /\ TimerInv'
<1>1. CASE caml_time_init
  <2>1. /\ began = NULL /\ began' = now /\ c1' = ((now % WORD) + TICKS_PER_TOCK) % WORD
        /\ match' = FALSE /\ irq = NULL /\ matched = NULL /\ tocks = 0 /\ now \in Nat
        /\ UNCHANGED <<now, irq, tocks, matched, hi, lo, asked>>
    BY <1>1 DEF caml_time_init, CLO, IInv, TimerInv, TypeOK, reader
  <2>2. c1' = (now + TICKS_PER_TOCK) % WORD
    BY <2>1, Constants, RestOfSum
  <2>3. (0 + 1) * TICKS_PER_TOCK = TICKS_PER_TOCK /\ Due' = now + TICKS_PER_TOCK
    BY <2>1, Constants DEF Due
  <2>4. Ahead'
    BY <2>1, <2>2, <2>3, Constants DEF Ahead
  <2>5. c1' \in Nat
    BY <2>1, <2>2, Constants, Division
  <2>6. TypeOK'
    BY <2>1, <2>5 DEF IInv, TypeOK
  <2> QED BY <2>1, <2>4, <2>6, Constants DEF TimerInv
<1>2. CASE enter
  <2>1. /\ began # NULL /\ irq' = "c1" /\ match
        /\ UNCHANGED <<now, c1, match, began, tocks, matched, hi, lo, asked>>
    BY <1>2 DEF enter, reader
  <2>2. matched # NULL /\ Late /\ began <= now
    BY <1>2, <2>1 DEF IInv, TimerInv, Ahead
  <2>3. Late'
    BY <1>2, <2>1, <2>2, Constants DEF Late, Due, enter
  <2> QED BY <2>1, <2>2, <2>3 DEF IInv, TypeOK, TimerInv
<1>3. CASE set_match
  <2>1. /\ irq = "c1" /\ irq' = "ctrl" /\ c1' = (c1 + TICKS_PER_TOCK) % WORD
        /\ UNCHANGED <<now, match, began, tocks, matched, hi, lo, asked>>
    BY <1>3 DEF set_match, next_match, reader
  <2>2. began # NULL /\ matched # NULL /\ Late /\ began <= now
    BY <2>1, Constants DEF IInv, TimerInv, Ahead
  <2>3. Due \in Nat
    BY <2>2, DueIs DEF IInv
  <2>4. c1' = (Due + TICKS_PER_TOCK) % WORD
    <3>1. PICK d \in Nat : d = Due
      BY <2>3
    <3>2. c1' = ((d % WORD) + TICKS_PER_TOCK) % WORD
      BY <2>1, <2>2, <3>1 DEF Late
    <3>3. ((d % WORD) + TICKS_PER_TOCK) % WORD = (d + TICKS_PER_TOCK) % WORD
      BY Constants, RestOfSum
    <3> QED BY <3>1, <3>2, <3>3
  <2>5. c1' \in Nat
    <3>1. Due + TICKS_PER_TOCK \in Nat
      BY <2>3, Constants
    <3> QED BY <2>4, <3>1, Constants, Division
  <2>6. Late'
    BY <2>1, <2>2, <2>4, Constants DEF Late, Due
  <2> QED BY <2>1, <2>2, <2>5, <2>6 DEF IInv, TypeOK, TimerInv
<1>4. CASE acknowledge
  <2>1. /\ irq = "ctrl" /\ irq' = "record" /\ match' = FALSE
        /\ UNCHANGED <<now, c1, began, tocks, matched, hi, lo, asked>>
    BY <1>4 DEF acknowledge, reader
  <2>2. began # NULL /\ matched # NULL /\ Late /\ began <= now
    BY <2>1, Constants DEF IInv, TimerInv, Ahead
  <2>3. Late'
    BY <2>1, <2>2, Constants DEF Late, Due
  <2> QED BY <2>1, <2>2, <2>3 DEF IInv, TypeOK, TimerInv
<1>5. CASE record
  <2>1. /\ irq = "record" /\ irq' = NULL /\ tocks' = tocks + 1 /\ matched' = NULL
        /\ UNCHANGED <<now, c1, match, began, hi, lo, asked>>
    BY <1>5 DEF record, reader
  <2>2. began # NULL /\ matched # NULL /\ Late /\ began <= now
    BY <2>1, Constants DEF IInv, TimerInv, Ahead
  <2>3. Due \in Nat /\ began \in Nat /\ tocks \in Nat /\ now \in Nat
    BY <2>2, DueIs DEF IInv, TypeOK
  <2>4. Due' = Due + TICKS_PER_TOCK
    <3>1. /\ (tocks + 1) * TICKS_PER_TOCK \in Nat
          /\ (tocks + 1 + 1) * TICKS_PER_TOCK = (tocks + 1) * TICKS_PER_TOCK + TICKS_PER_TOCK
      BY <2>3, Constants, Product
    <3> QED BY <2>1, <2>3, <3>1, Constants DEF Due
  <2>5. Ahead'
    BY <2>1, <2>2, <2>3, <2>4, Constants DEF Late, Ahead
  <2> QED BY <2>1, <2>2, <2>5 DEF IInv, TypeOK, TimerInv
<1> QED BY <1>1, <1>2, <1>3, <1>4, <1>5

\* The steps of caml_time_time, and those of the others around it.
LEMMA ReaderStep ==
  ASSUME IInv, [Next]_vars
  PROVE  ReaderInv'
<1>0. /\ now \in Nat /\ asked \in Nat \cup {NULL} /\ hi \in Nat \cup {NULL}
      /\ lo \in Nat \cup {NULL}
  BY DEF IInv, TypeOK
<1>1. ASSUME UNCHANGED reader, now' = now \/ now' = now + 1
      PROVE  ReaderInv'
  <2>1. asked # NULL => asked .. now \subseteq asked .. now'
    BY <1>0, <1>1
  <2> QED BY <1>0, <1>1, <2>1 DEF IInv, ReaderInv, reader
<1>2. CASE ask
  BY <1>0, <1>2, Constants DEF ask, IInv, ReaderInv
<1>3. CASE read_hi
  BY <1>0, <1>3, Constants DEF read_hi, IInv, ReaderInv, CHI
<1>4. CASE read_lo
  BY <1>0, <1>4, Constants DEF read_lo, IInv, ReaderInv, CLO
<1>5. CASE answer
  BY <1>5 DEF answer, ReaderInv
<1>6. CASE \/ UNCHANGED vars \/ tick \/ stopped \/ caml_time_init
           \/ enter \/ set_match \/ acknowledge \/ record
  <2>1. UNCHANGED reader /\ (now' = now \/ now' = now + 1)
    BY <1>6 DEF vars, reader, tick, stopped, caml_time_init, enter, set_match, acknowledge,
                record
  <2> QED BY <2>1, <1>1
<1> QED BY <1>2, <1>3, <1>4, <1>5, <1>6 DEF Next

\* No step breaks the invariant.
LEMMA NextIInv == IInv /\ [Next]_vars => IInv'
<1> SUFFICES ASSUME IInv, [Next]_vars
             PROVE  IInv'
  OBVIOUS
<1>1. ReaderInv'
  BY ReaderStep
<1>2. ASSUME UNCHANGED <<now, timer>>,
             hi' \in Nat \cup {NULL}, lo' \in Nat \cup {NULL}, asked' \in Nat \cup {NULL}
      PROVE  TypeOK' /\ TimerInv'
  BY <1>2 DEF IInv, TypeOK, TimerInv, Ahead, Late, Due, timer
<1>3. now \in Nat /\ CHI \in Nat /\ CLO \in Nat
  BY Constants, Division DEF IInv, TypeOK, CHI, CLO
<1>7. TypeOK' /\ TimerInv'
  <2>1. CASE UNCHANGED vars \/ stopped \/ ask \/ read_hi \/ read_lo \/ answer
    BY <1>2, <1>3, <2>1
       DEF vars, stopped, ask, read_hi, read_lo, answer, timer, reader, IInv, TypeOK
  <2>2. CASE tick
    BY <2>2, TickStep
  <2>3. CASE caml_time_init \/ enter \/ set_match \/ acknowledge \/ record
    BY <2>3, TimerStep
  <2> QED BY <2>1, <2>2, <2>3 DEF Next
<1> QED BY <1>1, <1>7 DEF IInv

\* The invariant holds in every reachable state.
LEMMA IInvAlways == Spec => []IInv
BY InitIInv, NextIInv, PTL DEF Spec

-----------------------------------------------------------------------------
(* The properties.                                                         *)

\* One signal is recorded for every tock, whenever the handler runs within a
\* tock, across rollovers of CLO.
THEOREM OnTimeAlways == Spec => []OnTime
<1>1. ASSUME IInv, began # NULL
      PROVE  tocks = (now - began) \div TICKS_PER_TOCK - (IF matched = NULL THEN 0 ELSE 1)
  <2>1. began \in Nat /\ tocks \in Nat /\ now \in Nat /\ began <= now
    BY <1>1 DEF IInv, TypeOK, TimerInv
  <2> DEFINE q == tocks * TICKS_PER_TOCK
             past == now - began
  <2>2. q \in Nat /\ Due = began + q + TICKS_PER_TOCK /\ past \in Nat
    BY <2>1, Constants, Product DEF Due
  <2>3. CASE matched = NULL
    <3>1. Ahead
      BY <1>1, <2>3 DEF IInv, TimerInv
    <3>2. past - q \in 0 .. TICKS_PER_TOCK - 1 /\ past = q + (past - q)
      BY <2>1, <2>2, <3>1, Constants DEF Ahead
    <3>3. past \div TICKS_PER_TOCK = tocks
      BY <2>1, <2>2, <3>2, Constants, Unique
    <3> QED BY <2>1, <2>3, <3>3
  <2>4. CASE matched # NULL
    <3>1. Late
      BY <1>1, <2>4 DEF IInv, TimerInv
    <3> DEFINE p == (tocks + 1) * TICKS_PER_TOCK
    <3>2. p = q + TICKS_PER_TOCK
      BY <2>1, Constants, Product
    <3>3. past - p \in 0 .. TICKS_PER_TOCK - 1 /\ past = p + (past - p)
      BY <2>1, <2>2, <3>1, <3>2, Constants DEF Late
    <3>4. past \div TICKS_PER_TOCK = tocks + 1
      BY <2>1, <2>2, <3>3, Constants, Unique
    <3> QED BY <2>1, <2>4, <3>4
  <2> QED BY <2>3, <2>4
<1>2. IInv => OnTime
  BY <1>1 DEF OnTime
<1> QED BY <1>2, IInvAlways, PTL

\* What is put together of halves read at the times s and t lies between a
\* and n, but for one rollover.
LEMMA HalvesOf ==
  ASSUME NEW a \in Nat, NEW n \in Nat, NEW s \in a .. n, NEW t \in a .. n,
         NEW w \in Nat, w > 0, NEW x, x = (s \div w) * w + (t % w)
  PROVE  \/ x \in a .. n
         \/ a \div w < n \div w /\ (x - w \in a .. n \/ x + w \in a .. n)
<1> DEFINE A == a \div w
           N == n \div w
           S == s \div w
           T == t \div w
<1>1. /\ A \in Nat /\ N \in Nat /\ S \in Nat /\ T \in Nat
      /\ \E r \in 0 .. w - 1 : a = A * w + r
      /\ \E r \in 0 .. w - 1 : n = N * w + r
      /\ \E r \in 0 .. w - 1 : s = S * w + r
      /\ t % w \in 0 .. w - 1 /\ t = T * w + (t % w)
      /\ s \in Nat /\ t \in Nat
  BY Division
<1> HIDE DEF A, N, S, T
<1> DEFINE Aw == A * w
           Nw == N * w
           Sw == S * w
           Tw == T * w
<1>2. Aw \in Nat /\ Nw \in Nat /\ Sw \in Nat /\ Tw \in Nat
  BY <1>1, Product
<1>3. \A i, j \in Nat : i < j => i * w + w <= j * w
  BY Apart
<1>4. /\ A < S => Aw + w <= Sw
      /\ S < A => Sw + w <= Aw
      /\ A < T => Aw + w <= Tw
      /\ T < A => Tw + w <= Aw
      /\ S < T => Sw + w <= Tw
      /\ T < S => Tw + w <= Sw
      /\ N < S => Nw + w <= Sw
      /\ N < T => Nw + w <= Tw
  BY <1>1, <1>3
<1>5. /\ A = S => Aw = Sw
      /\ S = T => Sw = Tw
      /\ A = T => Aw = Tw
  OBVIOUS
<1>6. PICK r1 \in 0 .. w - 1, r2 \in 0 .. w - 1, r3 \in 0 .. w - 1, r4 \in 0 .. w - 1 :
        a = Aw + r1 /\ n = Nw + r2 /\ s = Sw + r3 /\ t = Tw + r4 /\ x = Sw + r4
  BY <1>1 DEF S
<1> HIDE DEF Aw, Nw, Sw, Tw
<1>7. A <= S /\ A <= T /\ S <= N /\ T <= N
  BY <1>1, <1>2, <1>4, <1>6
<1>8. CASE S = T
  BY <1>5, <1>6, <1>8
<1>9. CASE S < T
  BY <1>1, <1>2, <1>4, <1>5, <1>6, <1>7, <1>9 DEF A, N
<1>10. CASE T < S
  BY <1>1, <1>2, <1>4, <1>5, <1>6, <1>7, <1>10 DEF A, N
<1> QED BY <1>1, <1>8, <1>9, <1>10

\* The time caml_time_time puts together is one since its call, whichever half
\* it reads first, or a rollover off if CLO rolled over since.
THEOREM ReadingCloseAlways == Spec => []ReadingClose
<1>1. ASSUME IInv, hi # NULL, lo # NULL
      PROVE  \/ time \in asked .. now
             \/ /\ asked \div WORD < now \div WORD
                /\ time - WORD \in asked .. now \/ time + WORD \in asked .. now
  <2>1. asked \in Nat /\ now \in Nat
    BY <1>1 DEF IInv, TypeOK, ReaderInv
  <2>2. PICK s \in asked .. now : hi = s \div WORD
    BY <1>1 DEF IInv, ReaderInv
  <2>3. PICK t \in asked .. now : lo = t % WORD
    BY <1>1 DEF IInv, ReaderInv
  <2>4. time = (s \div WORD) * WORD + (t % WORD)
    BY <2>2, <2>3 DEF time
  <2> QED BY <2>1, <2>4, Constants, HalvesOf
<1>2. IInv => ReadingClose
  BY <1>1 DEF ReadingClose
<1> QED BY <1>2, IInvAlways, PTL

=============================================================================
