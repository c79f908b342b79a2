--------------------------- MODULE FramebufferProofs ---------------------------
(***************************************************************************)
(* Proofs about Framebuffer, for every size of the mailbox.                *)
(***************************************************************************)
EXTENDS Framebuffer, Lemmas

-----------------------------------------------------------------------------
(* The invariant.                                                          *)

Steps == {"size", "setup", "pitch"}
Errors == {Error[i] : i \in DOMAIN Error}

\* The mail of the driver.
Ours == [channel |-> FBCHAN, address |-> BUFFER_ADDRESS]

\* The words behind the longest message are as they were at first.
Rest(w) == (\A i \in 22 .. 26 : w[i] = 0) \/ (\A i \in 22 .. 26 : w[i] = 7)

Buffers == {w \in [Words -> Nat] : Rest(w)}

\* The request s is in the buffer w; the answer a to it is.
Requested(w, s) == \A i \in DOMAIN request(s) : w[i - 1] = request(s)[i]

Answered(w, s, a) ==
  /\ w[1] = IF a.ok THEN RESPONSE ELSE RESPONSE + 1
  /\ s = "size" => w[5] = a.values[1] /\ w[6] = a.values[2]
  /\ s = "setup" =>
       /\ w[2] = PHYSICAL /\ w[3] = a.size
       /\ w[7] = VIRTUAL /\ w[8] = 8 /\ w[12] = DEPTH /\ w[13] = 4
       /\ w[16] = ALLOCATE /\ w[18] = (IF a.granted THEN RESPONSE + 8 ELSE 4)
       /\ w[19] = a.values[1] /\ w[20] = a.values[2]
  /\ s = "pitch" =>
       w[4] = (IF a.granted THEN RESPONSE + 4 ELSE 0) /\ w[5] = a.values[1]

\* The values are in their ranges.
Typed ==
  /\ ram \in Buffers /\ cache \in {NULL} \cup Buffers /\ dirty \in BOOLEAN
  /\ outbox \in Seq(Mail) /\ inbox \in Seq(Mail) /\ busy \in {NULL} \cup Mail
  /\ answers \in [Steps -> {NULL} \cup Answers]
  /\ step \in Steps /\ pc \in {"fill", "write", "read", "check", "return", "done"}
  /\ fb \in [width : Nat, height : Nat, base : Nat, size : Nat, pitch : Nat]
  /\ error \in {NULL} \cup Errors

\* The cache has what the memory has, but for a request that is not yet sent,
\* and nothing while the GPU may write.
CacheInv ==
  /\ dirty => pc = "write" /\ cache # NULL
  /\ ~dirty => cache \in {NULL, ram}
  /\ pc \in {"read", "check"} => cache = NULL

\* The driver's mail in a queue: once, or not at all.
Once(q) ==
  \E i \in 1 .. Len(q) : q[i] = Ours /\ \A j \in 1 .. Len(q) : q[j] = Ours => j = i
None(q) == \A i \in 1 .. Len(q) : q[i] # Ours

\* While the driver waits its mail is in one place, and the answer to its
\* request is there from some time on when it is with the GPU; otherwise
\* there is no such mail.
MailInv ==
  IF pc = "read"
  THEN \/ Once(outbox) /\ busy # Ours /\ None(inbox) /\ answers[step] = NULL
       \/ None(outbox) /\ busy = Ours /\ None(inbox)
       \/ None(outbox) /\ busy # Ours /\ Once(inbox) /\ answers[step] # NULL
  ELSE None(outbox) /\ busy # Ours /\ None(inbox)

\* The buffer has the request until it is answered, and then the answer.
BufferInv ==
  /\ pc \in {"fill", "write"} => answers[step] = NULL
  /\ pc = "write" => Requested(mailbuffer, step)
  /\ pc = "read" /\ answers[step] = NULL => Requested(ram, step)
  /\ pc \in {"read", "check"} /\ answers[step] # NULL => Answered(ram, step, answers[step])
  /\ pc = "check" => answers[step] # NULL

\* The first request, the second one, was answered, and what the driver made
\* of it.
SizeDone ==
  LET a == answers["size"]
  IN  /\ a # NULL /\ a.ok /\ a.values[1] # 0 /\ a.values[2] # 0
      /\ fb.width = a.values[1] /\ fb.height = a.values[2]
SetupDone ==
  LET a == answers["setup"]
  IN  /\ a # NULL /\ a.ok /\ a.size = 8 /\ a.granted
      /\ a.values[1] # 0 /\ a.values[2] # 0
      /\ fb.base = to_virtual(a.values[1]) /\ fb.size = a.values[2]

\* What was answered so far, and nothing was found wrong; in the end, what was
\* found.
HistoryInv ==
  IF pc \in {"return", "done"} THEN ErrorHonest /\ error # NULL
  ELSE /\ error = NULL
       /\ step = "size" => answers["setup"] = NULL /\ answers["pitch"] = NULL
       /\ step = "setup" => SizeDone /\ answers["pitch"] = NULL
       /\ step = "pitch" => SizeDone /\ SetupDone

IInv == Typed /\ CacheInv /\ MailInv /\ BufferInv /\ HistoryInv

-----------------------------------------------------------------------------
(* The words of the buffer.                                                *)

\* A request has words for the buffer, no more than 22.
LEMMA RequestIs ==
  ASSUME Typed, NEW s \in Steps
  PROVE  /\ request(s) \in Seq(Nat) /\ Len(request(s)) <= 22
         /\ DOMAIN request(s) = 1 .. Len(request(s))
<1>1. fb.width \in Nat /\ fb.height \in Nat
  BY DEF Typed
<1>2. CASE s = "size"
  BY <1>2 DEF request, SIZE
<1>3. CASE s = "setup"
  BY <1>1, <1>3 DEF request, PHYSICAL, VIRTUAL, DEPTH, ALLOCATE
<1>4. CASE s = "pitch"
  BY <1>4 DEF request, PITCH
<1> QED BY <1>2, <1>3, <1>4 DEF Steps

\* Writing a request puts it into the buffer and leaves the rest.
LEMMA WrittenIs ==
  ASSUME Typed, NEW s \in Steps, NEW w \in Buffers
  PROVE  written(w, s) \in Buffers /\ Requested(written(w, s), s)
<1>1. PICK r \in Seq(Nat) : r = request(s) /\ Len(r) <= 22 /\ DOMAIN r = 1 .. Len(r)
  BY RequestIs
<1>2. w \in [Words -> Nat] /\ Rest(w)
  BY DEF Buffers
<1> DEFINE v == [i \in Words |-> IF i < Len(r) THEN r[i + 1] ELSE w[i]]
<1>3. v \in [Words -> Nat]
  <2> SUFFICES ASSUME NEW i \in Words
               PROVE  v[i] \in Nat
    OBVIOUS
  <2>1. CASE i < Len(r)
    <3>1. i + 1 \in 1 .. Len(r)
      BY <2>1, <1>1 DEF Words
    <3> QED BY <2>1, <3>1, <1>1
  <2>2. CASE ~(i < Len(r))
    BY <2>2, <1>2
  <2> QED BY <2>1, <2>2
<1>4. \A i \in 22 .. 26 : v[i] = w[i]
  BY <1>1 DEF Words
<1>5. \A i \in 1 .. Len(r) : v[i - 1] = r[i]
  BY <1>1 DEF Words
<1>6. Rest(v)
  BY <1>2, <1>4 DEF Rest
<1>7. written(w, s) = v
  BY <1>1 DEF written
<1> QED BY <1>1, <1>3, <1>5, <1>6, <1>7 DEF Buffers, Requested

\* An answer has words for the buffer.
LEMMA AnswerIs ==
  ASSUME NEW a \in Answers
  PROVE  /\ a.values[1] \in Nat /\ a.values[2] \in Nat /\ a.size \in {8, 68, 80}
         /\ a.ok \in BOOLEAN /\ a.granted \in BOOLEAN
         /\ a.values = <<a.values[1], a.values[2]>>
<1>1. a.values \in {<<3, 5>>, <<0, 5>>, <<3, 0>>} /\ a.size \in {8, 68, 80}
      /\ a.ok \in BOOLEAN /\ a.granted \in BOOLEAN
  BY DEF Answers
<1>2. a.values[1] \in Nat /\ a.values[2] \in Nat /\ a.values = <<a.values[1], a.values[2]>>
  BY <1>1
<1> QED BY <1>1, <1>2

\* The words of the requests that the answers leave.
LEMMA RequestWords ==
  ASSUME NEW w
  PROVE  /\ Requested(w, "setup") =>
              /\ w[2] = PHYSICAL /\ w[7] = VIRTUAL /\ w[8] = 8
              /\ w[12] = DEPTH /\ w[13] = 4 /\ w[16] = ALLOCATE /\ w[18] = 4
         /\ Requested(w, "pitch") => w[4] = 0
<1>1. ASSUME Requested(w, "setup")
      PROVE  /\ w[2] = PHYSICAL /\ w[7] = VIRTUAL /\ w[8] = 8
             /\ w[12] = DEPTH /\ w[13] = 4 /\ w[16] = ALLOCATE /\ w[18] = 4
  <2> DEFINE r == request("setup")
  <2>1. /\ DOMAIN r = 1 .. 22 /\ r[3] = PHYSICAL /\ r[8] = VIRTUAL /\ r[9] = 8
        /\ r[13] = DEPTH /\ r[14] = 4 /\ r[17] = ALLOCATE /\ r[19] = 4
    BY DEF request
  <2>2. \A i \in 1 .. 22 : w[i - 1] = r[i]
    BY <1>1, <2>1 DEF Requested
  <2> HIDE DEF r
  <2>3. /\ w[3 - 1] = r[3] /\ w[8 - 1] = r[8] /\ w[9 - 1] = r[9]
        /\ w[13 - 1] = r[13] /\ w[14 - 1] = r[14] /\ w[17 - 1] = r[17] /\ w[19 - 1] = r[19]
    BY <2>2
  <2> QED BY <2>1, <2>3
<1>2. ASSUME Requested(w, "pitch")
      PROVE  w[4] = 0
  <2> DEFINE r == request("pitch")
  <2>1. DOMAIN r = 1 .. 7 /\ r[5] = 0
    BY DEF request
  <2>2. w[5 - 1] = r[5]
    BY <1>2, <2>1 DEF Requested
  <2> QED BY <2>1, <2>2
<1> QED BY <1>1, <1>2

\* An answer is in the buffer as the GPU leaves it, which has the rest.
LEMMA AnsweredIs ==
  ASSUME NEW s \in Steps, NEW w \in Buffers, Requested(w, s), NEW a \in Answers
  PROVE  answered(w, s, a) \in Buffers /\ Answered(answered(w, s, a), s, a)
<1>1. w \in [Words -> Nat] /\ Rest(w)
  BY DEF Buffers
<1>2. /\ a.values[1] \in Nat /\ a.values[2] \in Nat /\ a.size \in Nat
      /\ a.ok \in BOOLEAN /\ a.granted \in BOOLEAN
  BY AnswerIs
<1>3. PICK v : v = answered(w, s, a)
  OBVIOUS
<1>4. CASE s = "size"
  <2>1. v = [i \in Words |->
               IF i = 1 THEN IF a.ok THEN RESPONSE ELSE RESPONSE + 1
               ELSE IF i = 4 /\ a.granted THEN RESPONSE + 8
               ELSE IF i \in 5 .. 6 THEN a.values[i - 4] ELSE w[i]]
    BY <1>3, <1>4 DEF answered
  <2>2. v \in [Words -> Nat] /\ (\A i \in 22 .. 26 : v[i] = w[i])
    BY <1>1, <1>2, <2>1 DEF Words, RESPONSE
  <2>3. /\ v[1] = IF a.ok THEN RESPONSE ELSE RESPONSE + 1
        /\ v[5] = a.values[1] /\ v[6] = a.values[2]
    BY <2>1 DEF Words
  <2>4. Rest(v)
    BY <1>1, <2>2 DEF Rest
  <2> QED BY <1>3, <1>4, <2>2, <2>3, <2>4 DEF Answered, Buffers
<1>5. CASE s = "pitch"
  <2>1. v = [i \in Words |->
               IF i = 1 THEN IF a.ok THEN RESPONSE ELSE RESPONSE + 1
               ELSE IF i = 4 /\ a.granted THEN RESPONSE + 4
               ELSE IF i \in 5 .. 5 THEN a.values[i - 4] ELSE w[i]]
    BY <1>3, <1>5 DEF answered
  <2>2. v \in [Words -> Nat] /\ (\A i \in 22 .. 26 : v[i] = w[i])
    BY <1>1, <1>2, <2>1 DEF Words, RESPONSE
  <2>3. w[4] = 0
    BY <1>5, RequestWords
  <2>4. /\ v[1] = IF a.ok THEN RESPONSE ELSE RESPONSE + 1
        /\ v[4] = (IF a.granted THEN RESPONSE + 4 ELSE 0) /\ v[5] = a.values[1]
    BY <2>1, <2>3 DEF Words
  <2>5. Rest(v)
    BY <1>1, <2>2 DEF Rest
  <2> QED BY <1>3, <1>5, <2>2, <2>4, <2>5 DEF Answered, Buffers
<1>6. CASE s = "setup"
  <2>1. v = [i \in Words |->
               IF i = 1 THEN IF a.ok THEN RESPONSE ELSE RESPONSE + 1
               ELSE IF i = 3 THEN a.size
               ELSE IF i = 18 /\ a.granted THEN RESPONSE + 8
               ELSE IF i \in 19 .. 20 THEN a.values[i - 18] ELSE w[i]]
    BY <1>3, <1>6 DEF answered
  <2>2. v \in [Words -> Nat] /\ (\A i \in 22 .. 26 : v[i] = w[i])
    BY <1>1, <1>2, <2>1 DEF Words, RESPONSE
  <2>3. /\ w[2] = PHYSICAL /\ w[7] = VIRTUAL /\ w[8] = 8
        /\ w[12] = DEPTH /\ w[13] = 4 /\ w[16] = ALLOCATE /\ w[18] = 4
    BY <1>6, RequestWords
  <2>4. /\ v[1] = IF a.ok THEN RESPONSE ELSE RESPONSE + 1
        /\ v[2] = w[2] /\ v[3] = a.size /\ v[7] = w[7] /\ v[8] = w[8]
        /\ v[12] = w[12] /\ v[13] = w[13] /\ v[16] = w[16]
        /\ v[18] = (IF a.granted THEN RESPONSE + 8 ELSE w[18])
        /\ v[19] = a.values[1] /\ v[20] = a.values[2]
    BY <2>1 DEF Words
  <2>5. Rest(v)
    BY <1>1, <2>2 DEF Rest
  <2> QED BY <1>3, <1>6, <2>2, <2>3, <2>4, <2>5 DEF Answered, Buffers
<1> QED BY <1>4, <1>5, <1>6 DEF Steps

-----------------------------------------------------------------------------
(* The scan for the allocate response.                                     *)

\* The scan from i on goes to F[i].
Scans(F, w, c) ==
  \A i \in Nat : F[i] = IF i > c \/ w[i] \in {0, ALLOCATE} THEN i
                        ELSE F[i + 3 + (w[i + 1] \div 4)]

\* There is such a function: the scan goes forward.
LEMMA ScanExists ==
  ASSUME NEW w, NEW c \in Nat, \A i \in 0 .. c : w[i + 1] \in Nat
  PROVE  \E F : F = [i \in Nat |-> F[i]] /\ Scans(F, w, c)
<1> DEFINE next(i) == i + 3 + (w[i + 1] \div 4)
           Good(F, n) ==
             /\ F = [i \in Nat |-> F[i]]
             /\ \A i \in Nat : i + n > c =>
                  F[i] = IF i > c \/ w[i] \in {0, ALLOCATE} THEN i ELSE F[next(i)]
           T == {n \in Nat : \E F : Good(F, n)}
<1>1. 0 \in T
  <2>1. Good([i \in Nat |-> i], 0)
    OBVIOUS
  <2> QED BY <2>1
<1>2. ASSUME NEW n \in T
      PROVE  n + 1 \in T
  <2>1. n \in Nat
    OBVIOUS
  <2>2. PICK F : Good(F, n)
    OBVIOUS
  <2> DEFINE G == [i \in Nat |->
                     IF i + n = c
                     THEN IF w[i] \in {0, ALLOCATE} THEN i ELSE F[next(i)]
                     ELSE F[i]]
  <2>3. G = [i \in Nat |-> G[i]]
    OBVIOUS
  <2>4. ASSUME NEW i \in Nat, i <= c
        PROVE  next(i) \in Nat /\ next(i) > i
    <3>1. w[i + 1] \in Nat
      BY <2>4
    <3> QED BY <3>1
  <2>5. ASSUME NEW i \in Nat, i + (n + 1) > c
        PROVE  G[i] = IF i > c \/ w[i] \in {0, ALLOCATE} THEN i ELSE G[next(i)]
    <3>1. ASSUME i <= c
          PROVE  G[next(i)] = F[next(i)]
      <4>1. next(i) + n # c /\ next(i) \in Nat
        BY <2>1, <2>4, <2>5, <3>1
      <4> QED BY <4>1
    <3>2. CASE i + n = c
      <4>1. i <= c
        BY <2>1, <3>2
      <4> QED BY <3>1, <3>2, <4>1
    <3>3. CASE i + n # c
      <4>1. i + n > c
        BY <2>1, <2>5, <3>3
      <4>2. G[i] = F[i]
        BY <3>3
      <4>3. F[i] = IF i > c \/ w[i] \in {0, ALLOCATE} THEN i ELSE F[next(i)]
        BY <2>2, <4>1
      <4> QED BY <3>1, <4>2, <4>3
    <3> QED BY <3>2, <3>3
  <2>6. Good(G, n + 1)
    BY <2>3, <2>5
  <2> HIDE DEF Good
  <2> QED BY <2>1, <2>6
<1>3. T \in SUBSET Nat
  OBVIOUS
<1> HIDE DEF T
<1>4. T = Nat
  BY <1>1, <1>2, <1>3, NatSetInduction
<1>5. c + 1 \in T
  BY <1>4
<1>6. PICK F : Good(F, c + 1)
  BY <1>5 DEF T
<1>7. \A i \in Nat : i + (c + 1) > c
  OBVIOUS
<1> QED BY <1>6, <1>7 DEF Scans

\* The scan starts at 2.
LEMMA ScanIs ==
  ASSUME NEW w, NEW c \in Nat, \A i \in 0 .. c : w[i + 1] \in Nat
  PROVE  \E F : Scans(F, w, c) /\ scan(w, c) = F[2]
<1> DEFINE from == CHOOSE F : F = [i \in Nat |->
                     IF i > c \/ w[i] \in {0, ALLOCATE} THEN i
                     ELSE F[i + 3 + (w[i + 1] \div 4)]]
<1>1. scan(w, c) = from[2]
  BY DEF scan
<1>2. PICK F : F = [i \in Nat |-> F[i]] /\ Scans(F, w, c)
  BY ScanExists
<1>3. F = [i \in Nat |->
             IF i > c \/ w[i] \in {0, ALLOCATE} THEN i
             ELSE F[i + 3 + (w[i + 1] \div 4)]]
  <2>1. [i \in Nat |-> F[i]] =
          [i \in Nat |->
             IF i > c \/ w[i] \in {0, ALLOCATE} THEN i
             ELSE F[i + 3 + (w[i + 1] \div 4)]]
    BY <1>2 DEF Scans
  <2> QED BY <1>2, <2>1, Zenon
<1>4. from = [i \in Nat |->
                IF i > c \/ w[i] \in {0, ALLOCATE} THEN i
                ELSE from[i + 3 + (w[i + 1] \div 4)]]
  BY <1>3
<1> HIDE DEF from
<1> DEFINE along == [i \in Nat |->
                IF i > c \/ w[i] \in {0, ALLOCATE} THEN i
                ELSE from[i + 3 + (w[i + 1] \div 4)]]
<1>5. \A i \in Nat : along[i] = IF i > c \/ w[i] \in {0, ALLOCATE} THEN i
                                ELSE from[i + 3 + (w[i + 1] \div 4)]
  OBVIOUS
<1>6. from = along
  BY <1>4
<1> HIDE DEF along
<1>7. Scans(from, w, c)
  BY <1>5, <1>6 DEF Scans
<1> QED BY <1>1, <1>7

\* In an answer whose first tag has the size it was sent with, the scan finds
\* the allocate tag; in any other it does not.
LEMMA ScanAnswer ==
  ASSUME NEW w \in Buffers, NEW a \in Answers, Answered(w, "setup", a)
  PROVE  IF a.size = 8 THEN scan(w, 22) = 16
         ELSE scan(w, 22) > 22 \/ (scan(w, 22) = 22 /\ w[24] = 0)
<1>1. w \in [Words -> Nat] /\ Rest(w)
  BY DEF Buffers
<1>2. \A i \in 0 .. 22 : w[i + 1] \in Nat
  <2> SUFFICES ASSUME NEW i \in 0 .. 22
               PROVE  w[i + 1] \in Nat
    OBVIOUS
  <2>1. i + 1 \in Words
    BY DEF Words
  <2> QED BY <1>1, <2>1
<1>3. PICK F : Scans(F, w, 22) /\ scan(w, 22) = F[2]
  BY <1>2, ScanIs
<1>4. /\ w[2] = PHYSICAL /\ w[3] = a.size
      /\ w[7] = VIRTUAL /\ w[8] = 8 /\ w[12] = DEPTH /\ w[13] = 4 /\ w[16] = ALLOCATE
  BY DEF Answered
<1>5. F[2] = F[5 + (a.size \div 4)]
  <2>1. F[2] = F[2 + 3 + (w[2 + 1] \div 4)]
    BY <1>3, <1>4 DEF Scans, PHYSICAL, ALLOCATE
  <2>2. a.size \in Nat
    BY AnswerIs
  <2> QED BY <1>4, <2>1, <2>2
<1>6. CASE a.size = 8
  <2>1. F[2] = F[7]
    BY <1>5, <1>6
  <2>2. F[7] = F[7 + 3 + (w[7 + 1] \div 4)]
    BY <1>3, <1>4 DEF Scans, VIRTUAL, ALLOCATE
  <2>3. F[12] = F[12 + 3 + (w[12 + 1] \div 4)]
    BY <1>3, <1>4 DEF Scans, DEPTH, ALLOCATE
  <2>4. F[16] = 16
    BY <1>3, <1>4 DEF Scans
  <2> QED BY <1>3, <1>4, <1>6, <2>1, <2>2, <2>3, <2>4
<1>7. CASE a.size = 68
  <2>1. F[2] = F[22]
    BY <1>5, <1>7
  <2>2. CASE \A i \in 22 .. 26 : w[i] = 0
    <3>1. w[22] = 0 /\ w[24] = 0
      BY <2>2
    <3>2. F[22] = 22
      BY <1>3, <3>1 DEF Scans
    <3> QED BY <1>3, <1>7, <2>1, <3>1, <3>2
  <2>3. CASE \A i \in 22 .. 26 : w[i] = 7
    <3>1. w[22] = 7 /\ w[22 + 1] = 7
      BY <2>3
    <3>2. F[22] = F[22 + 3 + (w[22 + 1] \div 4)]
      BY <1>3, <3>1 DEF Scans, ALLOCATE
    <3>3. F[26] = 26
      BY <1>3 DEF Scans
    <3> QED BY <1>3, <1>7, <2>1, <3>1, <3>2, <3>3
  <2> QED BY <1>1, <2>2, <2>3 DEF Rest
<1>8. CASE a.size = 80
  <2>1. F[2] = F[25]
    BY <1>5, <1>8
  <2>2. F[25] = 25
    BY <1>3 DEF Scans
  <2> QED BY <1>3, <1>8, <2>1, <2>2
<1>9. a.size \in {8, 68, 80}
  BY AnswerIs
<1> QED BY <1>6, <1>7, <1>8, <1>9

-----------------------------------------------------------------------------
(* The mailbox and the cache.                                              *)

\* Mail has the channel of the framebuffer when it is the driver's.
LEMMA MailIs ==
  /\ Ours \in Mail /\ NULL # Ours
  /\ \A e \in Mail : addressed(e, FBCHAN) <=> e = Ours
<1>1. Ours \in Mail /\ NULL # Ours
  BY NullAssumption DEF Mail, Ours
<1>2. ASSUME NEW e \in Mail
      PROVE  addressed(e, FBCHAN) <=> e = Ours
  <2>1. CASE e = Ours
    BY <2>1 DEF addressed, Ours
  <2>2. CASE e = [channel |-> ANOTHER, address |-> 0]
    BY <2>2, MailboxAssumption DEF addressed, Ours
  <2> QED BY <2>1, <2>2 DEF Mail, Ours
<1> QED BY <1>1, <1>2

\* Mail goes to the end of a queue.
LEMMA QueueAppend ==
  ASSUME NEW q \in Seq(Mail), NEW e \in Mail
  PROVE  /\ Append(q, e) \in Seq(Mail)
         /\ None(q) => IF e = Ours THEN Once(Append(q, e)) ELSE None(Append(q, e))
         /\ Once(q) /\ e # Ours => Once(Append(q, e))
<1> DEFINE r == Append(q, e)
<1>1. /\ r \in Seq(Mail) /\ Len(r) = Len(q) + 1 /\ r[Len(r)] = e
      /\ \A i \in 1 .. Len(q) : r[i] = q[i]
  OBVIOUS
<1> HIDE DEF r
<1>2. ASSUME None(q), e = Ours
      PROVE  Once(r)
  <2>1. \A j \in 1 .. Len(r) : r[j] = Ours => j = Len(r)
    BY <1>1, <1>2 DEF None
  <2>2. Len(r) \in 1 .. Len(r)
    BY <1>1
  <2> QED BY <1>1, <1>2, <2>1, <2>2 DEF Once
<1>3. ASSUME None(q), e # Ours
      PROVE  None(r)
  BY <1>1, <1>3 DEF None
<1>4. ASSUME Once(q), e # Ours
      PROVE  Once(r)
  <2>1. PICK i \in 1 .. Len(q) : q[i] = Ours /\ \A j \in 1 .. Len(q) : q[j] = Ours => j = i
    BY <1>4 DEF Once
  <2>2. i \in 1 .. Len(r) /\ r[i] = Ours /\ \A j \in 1 .. Len(r) : r[j] = Ours => j = i
    BY <1>1, <1>4, <2>1
  <2> QED BY <2>2 DEF Once
<1> QED BY <1>1, <1>2, <1>3, <1>4 DEF r

\* The first mail goes.
LEMMA QueueTail ==
  ASSUME NEW q \in Seq(Mail), q # <<>>
  PROVE  /\ Head(q) \in Mail /\ Tail(q) \in Seq(Mail)
         /\ None(q) => Head(q) # Ours /\ None(Tail(q))
         /\ Once(q) => IF Head(q) = Ours THEN None(Tail(q)) ELSE Once(Tail(q))
<1> DEFINE r == Tail(q)
<1>1. /\ r \in Seq(Mail) /\ Len(r) = Len(q) - 1 /\ Head(q) = q[1] /\ Head(q) \in Mail
      /\ 1 \in 1 .. Len(q)
      /\ \A i \in 1 .. Len(r) : r[i] = q[i + 1] /\ i + 1 \in 1 .. Len(q)
  OBVIOUS
<1> HIDE DEF r
<1>2. ASSUME None(q)
      PROVE  Head(q) # Ours /\ None(r)
  BY <1>1, <1>2 DEF None
<1>3. ASSUME Once(q)
      PROVE  IF Head(q) = Ours THEN None(r) ELSE Once(r)
  <2>1. PICK i \in 1 .. Len(q) : q[i] = Ours /\ \A j \in 1 .. Len(q) : q[j] = Ours => j = i
    BY <1>3 DEF Once
  <2>2. CASE Head(q) = Ours
    <3>1. i = 1
      BY <1>1, <2>1, <2>2
    <3>2. \A j \in 1 .. Len(r) : r[j] # Ours
      BY <1>1, <2>1, <3>1
    <3> QED BY <2>2, <3>2 DEF None
  <2>3. CASE Head(q) # Ours
    <3>1. i # 1 /\ i - 1 \in 1 .. Len(r)
      BY <1>1, <2>1, <2>3
    <3>2. r[i - 1] = Ours /\ \A j \in 1 .. Len(r) : r[j] = Ours => j = i - 1
      BY <1>1, <2>1, <3>1
    <3> QED BY <2>3, <3>1, <3>2 DEF Once
  <2> QED BY <2>2, <2>3
<1> QED BY <1>1, <1>2, <1>3 DEF r

\* A queue with the driver's mail is not one without.
LEMMA OnceOrNone ==
  ASSUME NEW q, Once(q)
  PROVE  ~None(q)
BY DEF Once, None

\* NULL is no buffer.
LEMMA NullIs ==
  /\ NULL \notin Buffers /\ NULL \notin Answers /\ NULL \notin Mail /\ NULL \notin Errors
BY NullAssumption DEF Buffers, Errors

\* A flush leaves in memory what the processor saw.
LEMMA Flushed ==
  ASSUME Typed, CacheInv, flush_cache
  PROVE  /\ ram' = mailbuffer /\ ram' \in Buffers /\ cache' = NULL /\ dirty' = FALSE
         /\ ~dirty => ram' = ram
<1>1. ram \in Buffers /\ cache \in {NULL} \cup Buffers /\ dirty \in BOOLEAN
  BY DEF Typed
<1>2. ram' = (IF dirty THEN cache ELSE ram) /\ cache' = NULL /\ dirty' = FALSE
  BY DEF flush_cache, flushed
<1>3. CASE dirty
  <2>1. cache # NULL
    BY <1>3 DEF CacheInv
  <2> QED BY <1>1, <1>2, <1>3, <2>1 DEF mailbuffer
<1>4. CASE ~dirty
  <2>1. cache \in {NULL, ram}
    BY <1>4 DEF CacheInv
  <2> QED BY <1>1, <1>2, <1>4, <2>1 DEF mailbuffer
<1> QED BY <1>3, <1>4, <1>1

-----------------------------------------------------------------------------
(* The steps.                                                              *)

\* The invariant holds at first.
LEMMA InitIInv == Init => IInv
<1> SUFFICES ASSUME Init
             PROVE  IInv
  OBVIOUS
<1> DEFINE other == [channel |-> ANOTHER, address |-> 0]
<1>1. other \in Mail /\ other # Ours
  <2>1. other.channel # Ours.channel
    BY MailboxAssumption DEF Ours
  <2> QED BY <2>1 DEF Mail
<1> HIDE DEF other
<1>2. \A q \in {<<>>, <<other>>} : q \in Seq(Mail) /\ None(q)
  <2>1. <<>> \in Seq(Mail) /\ None(<<>>)
    BY DEF None
  <2>2. <<other>> \in Seq(Mail) /\ None(<<other>>)
    BY <1>1 DEF None
  <2> QED BY <2>1, <2>2
<1>3. outbox \in {<<>>, <<other>>} /\ inbox \in {<<>>, <<other>>}
  BY DEF Init, other
<1>4. ram \in Buffers
  <2>1. [i \in Words |-> 0] \in Buffers
    BY DEF Words, Buffers, Rest
  <2>2. [i \in Words |-> 7] \in Buffers
    BY DEF Words, Buffers, Rest
  <2> QED BY <2>1, <2>2 DEF Init
<1>5. Typed
  BY <1>2, <1>3, <1>4 DEF Init, Typed, Steps
<1>6. CacheInv
  BY DEF Init, CacheInv
<1>7. MailInv
  BY <1>2, <1>3, MailIs DEF Init, MailInv
<1>8. BufferInv
  BY DEF Init, BufferInv
<1>9. HistoryInv
  BY DEF Init, HistoryInv
<1> QED BY <1>5, <1>6, <1>7, <1>8, <1>9 DEF IInv

\* What was answered and found stays.
LEMMA HistoryKept ==
  ASSUME HistoryInv, UNCHANGED <<fb, answers, error, step>>,
         pc \in {"return", "done"} <=> pc' \in {"return", "done"}
  PROVE  HistoryInv'
BY DEF HistoryInv, SizeDone, SetupDone, ErrorHonest, Verdict

\* A request is written.
LEMMA FillStep ==
  ASSUME IInv, fill
  PROVE  IInv'
<1> USE DEF IInv
<1>1. /\ pc = "fill" /\ pc' = "write" /\ cache' = written(mailbuffer, step) /\ dirty' = TRUE
      /\ UNCHANGED <<ram, outbox, inbox, busy, answers, step, fb, error>>
  BY DEF fill, gpu
<1>2. mailbuffer \in Buffers
  BY DEF mailbuffer, Typed
<1>3. cache' \in Buffers /\ Requested(cache', step)
  BY <1>1, <1>2, WrittenIs DEF Typed
<1>4. cache' # NULL
  BY <1>3, NullIs
<1>5. request(step)' = request(step) /\ mailbuffer' = cache'
  BY <1>1, <1>4 DEF request, mailbuffer
<1>6. Typed'
  BY <1>1, <1>3 DEF Typed
<1>7. CacheInv'
  BY <1>1, <1>4 DEF CacheInv
<1>8. MailInv'
  BY <1>1 DEF MailInv
<1>9. BufferInv'
  <2>1. Requested(mailbuffer, step)'
    BY <1>3, <1>5 DEF Requested
  <2>2. answers'[step'] = NULL
    BY <1>1 DEF BufferInv
  <2> QED BY <1>1, <2>1, <2>2 DEF BufferInv
<1>10. HistoryInv'
  BY <1>1, HistoryKept
<1> QED BY <1>6, <1>7, <1>8, <1>9, <1>10

\* The cache is flushed, by the processor while it waits or on its own.
LEMMA FlushStep ==
  ASSUME IInv, flush_cache, UNCHANGED <<outbox, inbox, gpu, driver>>
  PROVE  IInv'
<1> USE DEF IInv
<1>1. /\ ram' = mailbuffer /\ ram' \in Buffers /\ cache' = NULL /\ dirty' = FALSE
      /\ ~dirty => ram' = ram
  BY Flushed
<1>2. UNCHANGED <<outbox, inbox, busy, answers, step, pc, fb, error>>
  BY DEF gpu, driver
<1>3. pc # "write" => ram' = ram
  BY <1>1 DEF CacheInv, Typed
<1>4. Typed'
  BY <1>1, <1>2 DEF Typed
<1>5. CacheInv'
  BY <1>1, <1>2 DEF CacheInv
<1>6. MailInv'
  BY <1>2 DEF MailInv
<1>7. BufferInv'
  BY <1>1, <1>2, <1>3 DEF BufferInv, mailbuffer, Requested, request, Answered
<1>8. HistoryInv'
  BY <1>2, HistoryKept
<1> QED BY <1>4, <1>5, <1>6, <1>7, <1>8

\* The mail is sent.
LEMMA MailWriteStep ==
  ASSUME IInv, mail_write
  PROVE  IInv'
<1> USE DEF IInv
<1>1. /\ pc = "write" /\ pc' = "read" /\ flush_cache /\ outbox' = Append(outbox, Ours)
      /\ UNCHANGED <<inbox, busy, answers, step, fb, error>>
  BY DEF mail_write, gpu, envelope, Ours
<1>2. ram' = mailbuffer /\ ram' \in Buffers /\ cache' = NULL /\ dirty' = FALSE
  BY <1>1, Flushed
<1>3. outbox \in Seq(Mail) /\ None(outbox) /\ busy # Ours /\ None(inbox)
  BY <1>1 DEF Typed, MailInv
<1>4. outbox' \in Seq(Mail) /\ Once(outbox')
  BY <1>1, <1>3, MailIs, QueueAppend
<1>5. answers[step] = NULL /\ Requested(mailbuffer, step)
  BY <1>1 DEF BufferInv
<1>6. Typed'
  BY <1>1, <1>2, <1>4 DEF Typed
<1>7. CacheInv'
  BY <1>1, <1>2 DEF CacheInv
<1>8. MailInv'
  BY <1>1, <1>3, <1>4, <1>5 DEF MailInv
<1>9. BufferInv'
  BY <1>1, <1>2, <1>5 DEF BufferInv, Requested, request
<1>10. HistoryInv'
  BY <1>1, HistoryKept
<1> QED BY <1>6, <1>7, <1>8, <1>9, <1>10

\* Mail is received.
LEMMA MailReadStep ==
  ASSUME IInv, mail_read
  PROVE  IInv'
<1> USE DEF IInv
<1>1. /\ pc = "read" /\ inbox # <<>> /\ flush_cache /\ inbox' = Tail(inbox)
      /\ pc' = (IF addressed(Head(inbox), FBCHAN) THEN "check" ELSE "read")
      /\ UNCHANGED <<outbox, busy, answers, step, fb, error>>
  BY DEF mail_read, mail_empty, gpu
<1>2. ~dirty
  BY <1>1 DEF CacheInv, Typed
<1>3. ram' = ram /\ ram' \in Buffers /\ cache' = NULL /\ dirty' = FALSE
  BY <1>1, <1>2, Flushed
<1>4. inbox \in Seq(Mail)
  BY DEF Typed
<1>5. /\ Head(inbox) \in Mail /\ Tail(inbox) \in Seq(Mail)
      /\ None(inbox) => Head(inbox) # Ours /\ None(Tail(inbox))
      /\ Once(inbox) => IF Head(inbox) = Ours THEN None(Tail(inbox)) ELSE Once(Tail(inbox))
  BY <1>1, <1>4, QueueTail
<1>6. addressed(Head(inbox), FBCHAN) <=> Head(inbox) = Ours
  BY <1>5, MailIs
<1>7. Typed'
  BY <1>1, <1>3, <1>5 DEF Typed
<1>8. CacheInv'
  BY <1>3 DEF CacheInv
<1>9. MailInv' /\ (pc' = "check" => answers[step] # NULL)
  BY <1>1, <1>5, <1>6 DEF MailInv
<1>10. BufferInv'
  BY <1>1, <1>3, <1>9 DEF BufferInv, Requested, request, Answered
<1>11. HistoryInv'
  BY <1>1, HistoryKept
<1> QED BY <1>7, <1>8, <1>9, <1>10, <1>11

\* The GPU takes mail.
LEMMA TakeStep ==
  ASSUME IInv, gpu_take
  PROVE  IInv'
<1> USE DEF IInv
<1>1. /\ busy = NULL /\ outbox # <<>> /\ busy' = Head(outbox) /\ outbox' = Tail(outbox)
      /\ UNCHANGED <<ram, cache, dirty, inbox, answers, step, pc, fb, error>>
  BY DEF gpu_take, buffer, driver
<1>2. outbox \in Seq(Mail)
  BY DEF Typed
<1>3. /\ Head(outbox) \in Mail /\ Tail(outbox) \in Seq(Mail)
      /\ None(outbox) => Head(outbox) # Ours /\ None(Tail(outbox))
      /\ Once(outbox) => IF Head(outbox) = Ours THEN None(Tail(outbox)) ELSE Once(Tail(outbox))
  BY <1>1, <1>2, QueueTail
<1>4. Typed'
  BY <1>1, <1>3 DEF Typed
<1>5. CacheInv'
  BY <1>1 DEF CacheInv
<1>6. MailInv'
  BY <1>1, <1>3, MailIs DEF MailInv
<1>7. BufferInv'
  BY <1>1 DEF BufferInv, Requested, request, Answered, mailbuffer
<1>8. HistoryInv'
  BY <1>1, HistoryKept
<1> QED BY <1>4, <1>5, <1>6, <1>7, <1>8

\* It answers a request.
LEMMA AnswerStep ==
  ASSUME IInv, gpu_answer
  PROVE  IInv' /\ pc = "read" /\ Requested(ram, step)
<1> USE DEF IInv
<1>1. /\ busy = Ours /\ answers[step] = NULL
      /\ UNCHANGED <<cache, dirty, outbox, inbox, busy, step, pc, fb, error>>
  BY DEF gpu_answer, asked, driver, Ours
<1>2. PICK a \in Answers : answers' = [answers EXCEPT ![step] = a] /\ ram' = answered(ram, step, a)
  BY DEF gpu_answer
<1>3. pc = "read" /\ None(outbox) /\ None(inbox)
  BY <1>1, OnceOrNone DEF MailInv
<1>4. Requested(ram, step) /\ ram \in Buffers /\ step \in Steps
  BY <1>1, <1>3 DEF BufferInv, Typed
<1>5. ram' \in Buffers /\ Answered(ram', step, a)
  BY <1>2, <1>4, AnsweredIs
<1>6. /\ answers' \in [Steps -> {NULL} \cup Answers] /\ answers'[step] = a /\ a # NULL
      /\ \A s \in Steps \ {step} : answers'[s] = answers[s]
  BY <1>2, <1>4, NullIs DEF Typed
<1>7. Typed'
  BY <1>1, <1>5, <1>6 DEF Typed
<1>8. CacheInv'
  BY <1>1, <1>3 DEF CacheInv, Typed
<1>9. MailInv'
  BY <1>1, <1>3, <1>6 DEF MailInv
<1>10. BufferInv'
  BY <1>1, <1>3, <1>5, <1>6 DEF BufferInv, Answered
<1>11. HistoryInv'
  BY <1>1, <1>3, <1>4, <1>6 DEF HistoryInv, SizeDone, SetupDone, Steps
<1> QED BY <1>3, <1>4, <1>7, <1>8, <1>9, <1>10, <1>11

\* It sends mail back.
LEMMA PostStep ==
  ASSUME IInv, gpu_post
  PROVE  IInv'
<1> USE DEF IInv
<1>1. /\ busy # NULL /\ (busy = Ours => answers[step] # NULL)
      /\ inbox' = Append(inbox, busy) /\ busy' = NULL
      /\ UNCHANGED <<ram, cache, dirty, outbox, answers, step, pc, fb, error>>
  BY DEF gpu_post, buffer, driver, asked, Ours
<1>2. inbox \in Seq(Mail) /\ busy \in Mail
  BY <1>1 DEF Typed
<1>3. /\ inbox' \in Seq(Mail)
      /\ None(inbox) => IF busy = Ours THEN Once(inbox') ELSE None(inbox')
      /\ Once(inbox) /\ busy # Ours => Once(inbox')
  BY <1>1, <1>2, QueueAppend
<1>4. Typed'
  BY <1>1, <1>3 DEF Typed
<1>5. CacheInv'
  BY <1>1 DEF CacheInv
<1>6. MailInv'
  BY <1>1, <1>3, MailIs DEF MailInv
<1>7. BufferInv'
  BY <1>1 DEF BufferInv, Requested, request, Answered, mailbuffer
<1>8. HistoryInv'
  BY <1>1, HistoryKept
<1> QED BY <1>4, <1>5, <1>6, <1>7, <1>8

\* The members of enum Error differ.
LEMMA ErrorsAre ==
  /\ Errors = {"SUCCESS", "FAIL_GET_RESOLUTION", "FAIL_GOT_INVALID_RESOLUTION",
               "FAIL_SETUP_FRAMEBUFFER", "FAIL_INVALID_TAGS",
               "FAIL_INVALID_TAG_RESPONSE", "FAIL_INVALID_TAG_DATA",
               "FAIL_INVALID_PITCH_RESPONSE", "FAIL_INVALID_PITCH_DATA"}
  /\ NULL \notin Errors
<1>1. DOMAIN Error = 1 .. 9
  BY DEF Error
<1>2. Errors = {Error[1], Error[2], Error[3], Error[4], Error[5], Error[6], Error[7],
                Error[8], Error[9]}
  BY <1>1 DEF Errors
<1> QED BY <1>2, NullIs DEF Error

\* What is stored in fb when something is wrong.
LEMMA StoredIs ==
  ASSUME NEW w, NEW e
  PROVE  /\ e \in {"FAIL_GET_RESOLUTION", "FAIL_SETUP_FRAMEBUFFER", "FAIL_INVALID_TAGS",
                   "FAIL_INVALID_TAG_RESPONSE", "FAIL_INVALID_PITCH_RESPONSE"} =>
              stored(w, e) = fb
         /\ e = "FAIL_INVALID_TAG_DATA" =>
              stored(w, e) = [fb EXCEPT !.base = w[scan(w, 22) + 3], !.size = w[scan(w, 22) + 4]]
<1>1. PICK i : i = scan(w, 22)
  OBVIOUS
<1>2. NULL \notin {"FAIL_GET_RESOLUTION", "FAIL_SETUP_FRAMEBUFFER", "FAIL_INVALID_TAGS",
                   "FAIL_INVALID_TAG_RESPONSE", "FAIL_INVALID_PITCH_RESPONSE",
                   "FAIL_INVALID_TAG_DATA"}
  BY ErrorsAre
<1>3. ASSUME e \in {"FAIL_GET_RESOLUTION", "FAIL_SETUP_FRAMEBUFFER", "FAIL_INVALID_TAGS",
                    "FAIL_INVALID_TAG_RESPONSE", "FAIL_INVALID_PITCH_RESPONSE"}
      PROVE  stored(w, e) = fb
  BY <1>1, <1>2, <1>3 DEF stored
<1>4. ASSUME e = "FAIL_INVALID_TAG_DATA"
      PROVE  stored(w, e) = [fb EXCEPT !.base = w[i + 3], !.size = w[i + 4]]
  BY <1>1, <1>2, <1>4 DEF stored
<1> QED BY <1>1, <1>3, <1>4

\* Looking at an answer, the driver goes on to the next request or reports
\* what it found; fb has the values given.
LEMMA LookStep ==
  ASSUME IInv, look
  PROVE  IInv'
<1> USE DEF IInv
<1>1. /\ pc = "check" /\ cache' = mailbuffer /\ error' = check(mailbuffer)
      /\ fb' = stored(mailbuffer, error')
      /\ IF error' = NULL THEN pc' = "fill" /\ step' = following(step)
                          ELSE pc' = "return" /\ step' = step
      /\ UNCHANGED <<ram, dirty, outbox, inbox, busy, answers>>
  BY DEF look, gpu
<1>2. ~dirty /\ mailbuffer = ram /\ ram \in Buffers
  BY <1>1 DEF CacheInv, Typed, mailbuffer
<1>3. PICK a \in Answers : a = answers[step] /\ Answered(ram, step, a)
  BY <1>1 DEF BufferInv, Typed
<1>4. /\ a.values[1] \in Nat /\ a.values[2] \in Nat /\ a.size \in {8, 68, 80}
      /\ a.ok \in BOOLEAN /\ a.granted \in BOOLEAN
      /\ a.values = <<a.values[1], a.values[2]>> /\ a # NULL
  BY AnswerIs, NullIs
<1>5. /\ fb \in [width : Nat, height : Nat, base : Nat, size : Nat, pitch : Nat]
      /\ answers \in [Steps -> {NULL} \cup Answers] /\ step \in Steps /\ error = NULL
  BY <1>1 DEF Typed, HistoryInv
<1>6. CacheInv'
  BY <1>1, <1>2 DEF CacheInv
<1>7. MailInv'
  BY <1>1 DEF MailInv
<1>8. ASSUME fb' \in [width : Nat, height : Nat, base : Nat, size : Nat, pitch : Nat],
             error' \in {NULL} \cup Errors, error' = NULL => answers'[step'] = NULL,
             HistoryInv'
      PROVE  IInv'
  <2>1. Typed'
    BY <1>1, <1>2, <1>5, <1>8 DEF Typed, following, Steps
  <2>2. BufferInv'
    BY <1>1, <1>8 DEF BufferInv
  <2> QED BY <1>6, <1>7, <1>8, <2>1, <2>2
<1>9. CASE step = "size"
  <2>1. /\ error' = (IF ~a.ok THEN "FAIL_GET_RESOLUTION"
                     ELSE IF a.values[1] = 0 \/ a.values[2] = 0
                     THEN "FAIL_GOT_INVALID_RESOLUTION" ELSE NULL)
        /\ ram[5] = a.values[1] /\ ram[6] = a.values[2]
    BY <1>1, <1>2, <1>3, <1>4, <1>9 DEF check, check_size, Answered, RESPONSE
  <2>2. answers["setup"] = NULL /\ answers["pitch"] = NULL
    BY <1>1, <1>9 DEF HistoryInv
  <2>3. CASE error' = NULL
    <3>1. a.ok /\ a.values[1] # 0 /\ a.values[2] # 0
      BY <2>1, <2>3, ErrorsAre
    <3>2. fb' = [fb EXCEPT !.width = a.values[1], !.height = a.values[2]]
      BY <1>1, <1>2, <1>9, <2>1, <2>3, ErrorsAre DEF stored
    <3>3. step' = "setup" /\ pc' = "fill"
      BY <1>1, <1>9, <2>3 DEF following
    <3>4. HistoryInv'
      BY <1>1, <1>3, <1>4, <1>5, <1>9, <2>2, <2>3, <3>1, <3>2, <3>3 DEF HistoryInv, SizeDone
    <3> QED BY <1>1, <1>4, <1>5, <1>8, <2>2, <2>3, <3>2, <3>3, <3>4
  <2>4. CASE error' # NULL
    <3>1. error' \in {"FAIL_GET_RESOLUTION", "FAIL_GOT_INVALID_RESOLUTION"}
      BY <2>1, <2>4
    <3>2. fb' = fb \/ fb' = [fb EXCEPT !.width = a.values[1], !.height = a.values[2]]
      BY <1>1, <1>2, <1>9, <2>1, <3>1 DEF stored
    <3>3. error' \in Verdict'
      BY <1>1, <1>3, <1>9, <2>1, <2>4 DEF Verdict
    <3>4. HistoryInv'
      BY <1>1, <1>3, <1>4, <1>9, <2>4, <3>1, <3>3 DEF HistoryInv, ErrorHonest
    <3>5. fb' \in [width : Nat, height : Nat, base : Nat, size : Nat, pitch : Nat]
      BY <1>4, <1>5, <3>2
    <3> QED BY <1>8, <2>4, <3>1, <3>4, <3>5, ErrorsAre
  <2> QED BY <2>3, <2>4
<1>10. CASE step = "setup"
  <2>1. IF a.size = 8 THEN scan(ram, 22) = 16
        ELSE scan(ram, 22) > 22 \/ (scan(ram, 22) = 22 /\ ram[24] = 0)
    BY <1>2, <1>3, <1>10, ScanAnswer
  <2>2. /\ ram[1] = (IF a.ok THEN RESPONSE ELSE RESPONSE + 1)
        /\ ram[18] = (IF a.granted THEN RESPONSE + 8 ELSE 4)
        /\ ram[19] = a.values[1] /\ ram[20] = a.values[2]
    BY <1>3, <1>10 DEF Answered
  <2>3. PICK i : i = scan(ram, 22)
    OBVIOUS
  <2>4. error' = (IF ram[1] # RESPONSE THEN "FAIL_SETUP_FRAMEBUFFER"
                  ELSE IF i > 22 THEN "FAIL_INVALID_TAGS"
                  ELSE IF ram[i + 2] # RESPONSE + 8 THEN "FAIL_INVALID_TAG_RESPONSE"
                  ELSE IF ram[i + 3] = 0 \/ ram[i + 4] = 0 THEN "FAIL_INVALID_TAG_DATA"
                  ELSE NULL)
    BY <1>1, <1>2, <1>10, <2>3 DEF check, check_setup
  <2>5. SizeDone /\ answers["pitch"] = NULL
    BY <1>1, <1>10 DEF HistoryInv
  <2>6. CASE a.ok /\ a.size = 8 /\ a.granted
    <3>1. i = 16 /\ ram[i + 2] = RESPONSE + 8 /\ ram[i + 3] = a.values[1]
          /\ ram[i + 4] = a.values[2] /\ ~(i > 22)
      BY <2>1, <2>2, <2>3, <2>6
    <3>2. error' = (IF a.values[1] = 0 \/ a.values[2] = 0 THEN "FAIL_INVALID_TAG_DATA" ELSE NULL)
      BY <2>2, <2>4, <2>6, <3>1
    <3>3. CASE error' = NULL
      <4>1. a.values[1] # 0 /\ a.values[2] # 0
        BY <3>2, <3>3, ErrorsAre
      <4>2. fb' = [fb EXCEPT !.base = to_virtual(a.values[1]), !.size = a.values[2]]
        BY <1>1, <1>2, <1>10, <2>3, <3>1, <3>3, ErrorsAre DEF stored
      <4>3. to_virtual(a.values[1]) \in Nat
        BY <1>4 DEF to_virtual
      <4>4. step' = "pitch" /\ pc' = "fill"
        BY <1>1, <1>10, <3>3 DEF following
      <4>5. SizeDone' /\ SetupDone'
        BY <1>1, <1>3, <1>4, <1>5, <1>10, <2>5, <2>6, <4>1, <4>2 DEF SizeDone, SetupDone, to_virtual
      <4>6. HistoryInv'
        BY <3>3, <4>4, <4>5 DEF HistoryInv
      <4> QED BY <1>1, <1>4, <1>5, <1>8, <2>5, <3>3, <4>2, <4>3, <4>4, <4>6
    <3>4. CASE error' # NULL
      <4>1. error' = "FAIL_INVALID_TAG_DATA" /\ (a.values[1] = 0 \/ a.values[2] = 0)
        BY <3>2, <3>4
      <4>2. fb' = [fb EXCEPT !.base = a.values[1], !.size = a.values[2]]
        <5>1. fb' = stored(ram, "FAIL_INVALID_TAG_DATA")
          BY <1>1, <1>2, <4>1
        <5>2. fb' = [fb EXCEPT !.base = ram[i + 3], !.size = ram[i + 4]]
          BY <2>3, <5>1, StoredIs
        <5> QED BY <3>1, <5>2
      <4>3. error' \in Verdict'
        BY <1>1, <1>3, <1>4, <1>10, <2>5, <2>6, <4>1 DEF Verdict, SizeDone
      <4>4. HistoryInv'
        BY <1>1, <2>5, <3>4, <4>1, <4>3 DEF HistoryInv, ErrorHonest, SizeDone
      <4> QED BY <1>4, <1>5, <1>8, <3>4, <4>1, <4>2, <4>4, ErrorsAre
    <3> QED BY <3>3, <3>4
  <2>7. CASE ~(a.ok /\ a.size = 8 /\ a.granted)
    <3>1. error' = (IF ~a.ok THEN "FAIL_SETUP_FRAMEBUFFER"
                    ELSE IF i > 22 THEN "FAIL_INVALID_TAGS" ELSE "FAIL_INVALID_TAG_RESPONSE")
      <4>1. CASE ~a.ok
        BY <2>2, <2>4, <4>1 DEF RESPONSE
      <4>2. CASE a.ok /\ a.size = 8 /\ ~a.granted
        BY <2>1, <2>2, <2>3, <2>4, <4>2 DEF RESPONSE
      <4>3. CASE a.ok /\ a.size # 8
        <5>1. i > 22 \/ (i = 22 /\ ram[i + 2] = 0)
          BY <2>1, <2>3, <4>3
        <5> QED BY <2>2, <2>4, <4>3, <5>1 DEF RESPONSE
      <4> QED BY <2>7, <4>1, <4>2, <4>3
    <3>2. a.ok /\ a.size = 8 => ~(i > 22)
      BY <2>1, <2>3
    <3>3. error' \in {"FAIL_SETUP_FRAMEBUFFER", "FAIL_INVALID_TAGS", "FAIL_INVALID_TAG_RESPONSE"}
      BY <3>1
    <3>4. fb' = fb
      BY <1>1, <3>3, StoredIs
    <3>5. error' \in Verdict'
      BY <1>1, <1>3, <1>4, <1>10, <2>5, <2>7, <3>1, <3>2 DEF Verdict, SizeDone
    <3>6. error' # NULL
      BY <3>3, ErrorsAre
    <3>7. HistoryInv'
      BY <1>1, <2>5, <3>3, <3>5, <3>6 DEF HistoryInv, ErrorHonest, SizeDone
    <3> QED BY <1>5, <1>8, <3>3, <3>4, <3>6, <3>7, ErrorsAre
  <2> QED BY <2>6, <2>7
<1>11. CASE step = "pitch"
  <2>1. /\ error' = (IF ~a.granted THEN "FAIL_INVALID_PITCH_RESPONSE"
                     ELSE IF a.values[1] = 0 THEN "FAIL_INVALID_PITCH_DATA" ELSE "SUCCESS")
        /\ ram[5] = a.values[1]
    BY <1>1, <1>2, <1>3, <1>4, <1>11 DEF check, check_pitch, Answered, RESPONSE
  <2>2. SizeDone /\ SetupDone
    BY <1>1, <1>11 DEF HistoryInv
  <2>3. error' # NULL /\ error' \in Errors
    BY <2>1, ErrorsAre
  <2>4. fb' = fb \/ fb' = [fb EXCEPT !.pitch = a.values[1]]
    BY <1>1, <1>2, <1>11, <2>1 DEF stored
  <2>5. error' = "SUCCESS" => fb' = [fb EXCEPT !.pitch = a.values[1]]
    BY <1>1, <1>2, <1>11, <2>1 DEF stored
  <2>6. error' \in Verdict'
    BY <1>1, <1>3, <1>4, <1>11, <2>1, <2>2 DEF Verdict, SizeDone, SetupDone
  <2>7. ASSUME error' = "SUCCESS"
        PROVE  /\ <<fb'.width, fb'.height>> = answers["size"].values
               /\ <<fb'.base, fb'.size>> = <<to_virtual(answers["setup"].values[1]),
                                             answers["setup"].values[2]>>
               /\ fb'.pitch = answers["pitch"].values[1]
    <3>1. /\ fb'.width = fb.width /\ fb'.height = fb.height /\ fb'.base = fb.base
          /\ fb'.size = fb.size /\ fb'.pitch = a.values[1]
      BY <1>5, <2>5, <2>7
    <3>2. answers["size"] \in Answers
      BY <1>5, <2>2 DEF SizeDone, Steps
    <3>3. PICK b \in Answers : b = answers["size"]
      BY <3>2
    <3>4. b.values = <<b.values[1], b.values[2]>>
      BY AnswerIs
    <3>5. <<fb'.width, fb'.height>> = answers["size"].values
      BY <2>2, <3>1, <3>3, <3>4 DEF SizeDone
    <3> QED BY <1>3, <1>11, <2>2, <3>1, <3>5 DEF SetupDone
  <2>8. HistoryInv'
    BY <1>1, <2>2, <2>3, <2>6, <2>7 DEF HistoryInv, ErrorHonest, SizeDone, to_virtual
  <2>9. fb' \in [width : Nat, height : Nat, base : Nat, size : Nat, pitch : Nat]
    BY <1>4, <1>5, <2>4
  <2> QED BY <1>8, <2>3, <2>8, <2>9
<1> QED BY <1>5, <1>9, <1>10, <1>11 DEF Steps

\* The driver returns.
LEMMA ReturnStep ==
  ASSUME IInv, return
  PROVE  IInv'
<1> USE DEF IInv
<1>1. /\ pc = "return" /\ pc' = "done"
      /\ UNCHANGED <<ram, cache, dirty, outbox, inbox, busy, answers, step, fb, error>>
  BY DEF return, buffer, gpu
<1>2. Typed' /\ CacheInv' /\ MailInv'
  BY <1>1 DEF Typed, CacheInv, MailInv
<1>3. BufferInv'
  BY <1>1 DEF BufferInv
<1>4. HistoryInv'
  BY <1>1, HistoryKept
<1> QED BY <1>2, <1>3, <1>4

\* Every step keeps the invariant.
LEMMA NextIInv == IInv /\ [Next]_vars => IInv'
<1> SUFFICES ASSUME IInv, [Next]_vars
             PROVE  IInv'
  OBVIOUS
<1>1. CASE UNCHANGED vars \/ done
  <2>1. /\ UNCHANGED <<ram, cache, dirty, outbox, inbox, busy, answers>>
        /\ UNCHANGED <<step, pc, fb, error>>
    BY <1>1 DEF done, vars, buffer, gpu, driver
  <2>2. Typed' /\ CacheInv' /\ MailInv'
    BY <2>1 DEF IInv, Typed, CacheInv, MailInv
  <2>3. mailbuffer' = mailbuffer /\ request(step)' = request(step)
    BY <2>1 DEF mailbuffer, request
  <2>4. BufferInv'
    BY <2>1, <2>3 DEF IInv, BufferInv, Requested, Answered
  <2>5. HistoryInv'
    BY <2>1, HistoryKept DEF IInv
  <2> QED BY <2>2, <2>4, <2>5 DEF IInv
<1>2. CASE wait \/ evict
  BY <1>2, FlushStep DEF wait, evict
<1> QED BY <1>1, <1>2, FillStep, MailWriteStep, MailReadStep, LookStep, ReturnStep,
           TakeStep, AnswerStep, PostStep DEF Next

\* The invariant holds in every reachable state.
LEMMA IInvAlways == Spec => []IInv
BY InitIInv, NextIInv, PTL DEF Spec

-----------------------------------------------------------------------------

\* The cache is written to only while the driver fills the buffer: nothing is
\* written back over an answer.
THEOREM TypeCorrect == Spec => []TypeOK
<1>1. IInv => TypeOK
  BY DEF IInv, Typed, CacheInv, TypeOK, Errors
<1> QED BY <1>1, IInvAlways, PTL

\* The member of enum Error that fb_init settles on, before it converts it for
\* OCaml, is what the GPU answered to its three requests, and fb has the values
\* given.
THEOREM ErrorHonestAlways == Spec => []ErrorHonest
<1>1. IInv => ErrorHonest
  BY DEF IInv, HistoryInv, ErrorHonest
<1> QED BY <1>1, IInvAlways, PTL

\* The GPU acts on a request that is whole in memory, and only while the
\* driver waits for it.
THEOREM RequestIntactAlways == Spec => RequestIntact
<1>1. ASSUME IInv, [Next]_vars, answers' # answers
      PROVE  pc = "read" /\ \A i \in DOMAIN request(step) : ram[i - 1] = request(step)[i]
  <2>1. gpu_answer
    BY <1>1 DEF Next, fill, wait, mail_write, mail_read, look, return, done, evict,
         gpu_take, gpu_post, vars, gpu
  <2> QED BY <1>1, <2>1, AnswerStep DEF Requested
<1>2. IInv /\ [Next]_vars =>
        [answers' # answers =>
           /\ pc = "read"
           /\ \A i \in DOMAIN request(step) : ram[i - 1] = request(step)[i]]_vars
  BY <1>1
<1> QED BY <1>2, IInvAlways, PTL DEF Spec, RequestIntact

=============================================================================
