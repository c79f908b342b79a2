----------------------------- MODULE ThreadsProofs -----------------------------
(***************************************************************************)
(* Proofs about Threads, for any number of threads and channels.           *)
(*                                                                         *)
(* The inductive invariant has the ring of descriptors as a sequence of    *)
(* all threads there are, from curr_thread on (Ring), and for each half of *)
(* a switch what the descriptors and the global variables hold (Stacks,    *)
(* Halves).                                                                *)
(***************************************************************************)
EXTENDS Threads, Lemmas, SequenceTheorems

-----------------------------------------------------------------------------
(* The inductive invariant.                                                *)

\* q is the ring of descriptors, from curr_thread on along next.
Ring(q) ==
  LET n == Cardinality(Alive)
  IN  /\ q \in [1 .. n -> Alive]
      /\ q[1] = curr_thread
      /\ \A t \in Alive : \E i \in 1 .. n : q[i] = t
      /\ \A i, j \in 1 .. n : q[i] = q[j] => i = j
      /\ \A i \in 1 .. n : thread[q[i]].next = IF i = n THEN q[1] ELSE q[i + 1]

\* Before ocaml_thread_init there is only Main, which no signal interrupts.
Alone ==
  /\ cpu = Main /\ ~switching /\ ~pending /\ ~halted
  /\ \A t \in Threads : at[t] = IF t = Main THEN "ocaml" ELSE "none"
  /\ \A t \in Threads : ~handling[t]

\* The threads that are not on the processor are on their own stacks, in
\* their own contexts; a thread that has not run yet is on the processor.
Stacks ==
  \A t \in Alive :
    /\ at[t] = "fresh" => switching /\ cpu = t /\ ~handling[t]
    /\ t # curr_thread \/ switching => thread[t].stack = t
    /\ (t # curr_thread \/ switching) /\ at[t] # "fresh" => thread[t].context = Context(t)

\* Between the halves of a switch the processor is with the successor of
\* curr_thread; after the second it is with curr_thread.
Halves ==
  /\ curr_thread \in Alive
  /\ IF switching
     THEN cpu = thread[curr_thread].next /\ cpu # curr_thread
     ELSE /\ cpu = curr_thread
          /\ (at[cpu] # "ocaml" \/ handling[cpu]) => globals = Context(cpu)

IInv ==
  /\ TypeOK
  /\ \A t \in Threads : handling[t] => at[t] \in {"ocaml", "locked"}
  /\ IF curr_thread = NULL THEN Alone
     ELSE Stacks /\ Halves /\ \E q \in [1 .. Cardinality(Alive) -> Alive] : Ring(q)

-----------------------------------------------------------------------------
(* Facts about the parts of the invariant.                                 *)

\* There are finitely many threads.
LEMMA AliveFinite ==
  /\ IsFiniteSet(Alive) /\ Cardinality(Alive) \in Nat
  /\ \A t \in Alive : Cardinality(Alive) >= 1
<1>1. Alive \in SUBSET Threads /\ IsFiniteSet(Threads)
  BY ThreadsAssumption DEF Alive
<1>2. IsFiniteSet(Alive) /\ Cardinality(Alive) \in Nat
  BY <1>1, FS_Subset, FS_CardinalityType
<1>3. ASSUME NEW t \in Alive
      PROVE  Cardinality(Alive) >= 1
  BY <1>2, FS_EmptySet
<1> QED BY <1>2, <1>3

\* The ring stays when no next pointer changes, and nobody comes.
LEMMA RingKept ==
  ASSUME NEW q, Ring(q), curr_thread' = curr_thread, Alive' = Alive,
         \A t \in Alive : thread'[t].next = thread[t].next
  PROVE  Ring(q)'
<1>1. PICK n \in Nat : n = Cardinality(Alive)
  BY AliveFinite
<1>2. Cardinality(Alive)' = n
  BY <1>1
<1>3. \A i \in 1 .. n : q[i] \in Alive
  BY <1>1 DEF Ring
<1> QED BY <1>1, <1>2, <1>3 DEF Ring

\* The running thread when there are no others.
LEMMA Successor ==
  ASSUME IInv, curr_thread # NULL
  PROVE  /\ curr_thread \in Alive
         /\ thread[curr_thread].next \in Alive
         /\ thread[thread[curr_thread].next].next \in Alive
<1>1. curr_thread \in Alive
  BY DEF IInv, Halves
<1>2. PICK q : Ring(q)
  BY DEF IInv
<1>3. PICK n \in Nat : n = Cardinality(Alive) /\ n >= 1
  BY <1>1, AliveFinite
<1>4. \A t \in Alive : thread[t].next \in Alive
  BY <1>2, <1>3 DEF Ring
<1> QED BY <1>1, <1>4

-----------------------------------------------------------------------------
(* The steps.                                                              *)

\* What the steps of the running thread t have in common: they leave the
\* places of the others.
StepOf(t) ==
  /\ curr_thread # NULL /\ Running(t)
  /\ curr_thread' = curr_thread
  /\ at' \in [Threads -> Places] /\ handling' \in [Threads -> BOOLEAN]
  /\ \A u \in Threads \ {t} : at'[u] = at[u] /\ handling'[u] = handling[u]
  /\ at'[t] \in {"ocaml", "wait", "locked"}
  /\ handling'[t] => at'[t] \in {"ocaml", "locked"}
  /\ last_channel_locked' \in Channels \cup {NULL}
  /\ mutex' \in [Channels -> BOOLEAN]
  /\ channel' \in [Threads -> Channels \cup {NULL}]
  /\ pending' \in BOOLEAN /\ halted' \in BOOLEAN

\* A step of the running thread creates no thread and ends none.
LEMMA AliveKept ==
  ASSUME IInv, NEW t \in Threads, StepOf(t)
  PROVE  /\ Alive' = Alive /\ t \in Alive /\ t = curr_thread /\ t = cpu
         /\ at[t] \notin {"none", "fresh"}
<1>1. t = cpu /\ t = curr_thread /\ t \in Alive /\ ~switching
  BY DEF IInv, StepOf, Running, Halves
<1>2. at[t] \notin {"none", "fresh"}
  BY <1>1 DEF IInv, Stacks, Alive, StepOf
<1>3. \A u \in Threads : at'[u] # "none" <=> at[u] # "none"
  BY <1>2 DEF StepOf
<1> QED BY <1>1, <1>2, <1>3 DEF Alive

\* A step after which t still runs, with the global variables as they are
\* to be.
LEMMA StepKeeps ==
  ASSUME IInv, NEW t \in Threads, StepOf(t),
         UNCHANGED <<thread, cpu, switching>>, globals' \in Contexts,
         at'[t] # "ocaml" \/ handling'[t] => globals' = Context(t)'
  PROVE  IInv'
<1>1. /\ Alive' = Alive /\ t \in Alive /\ t = curr_thread /\ t = cpu /\ ~switching
      /\ curr_thread' # NULL
  BY AliveKept DEF StepOf, Running
<1>2. TypeOK'
  BY DEF IInv, TypeOK, StepOf
<1>3. \A u \in Threads : handling'[u] => at'[u] \in {"ocaml", "locked"}
  BY DEF IInv, StepOf
<1>4. Stacks'
  BY <1>1 DEF IInv, Stacks, StepOf, Context, Alive
<1>5. Halves'
  BY <1>1 DEF IInv, Halves, StepOf
<1>6. PICK q \in [1 .. Cardinality(Alive) -> Alive] : Ring(q)
  BY <1>1 DEF IInv, StepOf
<1>7. Ring(q)'
  BY <1>1, <1>6, RingKept DEF StepOf
<1> QED BY <1>1, <1>2, <1>3, <1>4, <1>5, <1>6, <1>7 DEF IInv

\* schedule() in t, when it saves the context t has.
LEMMA StepSchedules ==
  ASSUME IInv, NEW t \in Threads, StepOf(t),
         NEW g \in Contexts, schedule(thread, g), g = Context(t)'
  PROVE  IInv'
<1>1. /\ Alive' = Alive /\ t \in Alive /\ t = curr_thread /\ t = cpu /\ ~switching
      /\ curr_thread' # NULL
  BY AliveKept DEF StepOf, Running
<1>2. CASE thread[curr_thread].next = curr_thread
  <2>1. UNCHANGED <<thread, cpu, switching>> /\ globals' = g
    BY <1>1, <1>2 DEF schedule
  <2> QED BY <2>1, StepKeeps
<1>3. CASE thread[curr_thread].next # curr_thread
  <2>1. /\ thread' = saved(thread, g) /\ switching' = TRUE /\ globals' = g
        /\ cpu' = thread[thread[curr_thread].next].stack
    BY <1>1, <1>3 DEF schedule, StepOf
  <2>2. PICK u \in Alive : u = thread[t].next /\ u # t
    BY <1>1, <1>3, Successor DEF StepOf
  <2>3. thread[u].stack = u /\ cpu' = u
    BY <1>1, <2>1, <2>2 DEF IInv, Stacks, StepOf
  <2>4. thread \in [Threads -> Descriptors]
    BY DEF IInv, TypeOK
  <2>5. /\ thread'[t].next = thread[t].next /\ thread'[t].prev = thread[t].prev
        /\ thread'[t].stack = t /\ thread'[t].context = g
        /\ \A v \in Threads \ {t} : thread'[v] = thread[v]
        /\ thread' \in [Threads -> Descriptors]
    BY <1>1, <2>1, <2>4 DEF saved, Descriptors, Alive
  <2>6. TypeOK'
    BY <2>1, <2>3, <2>5 DEF IInv, TypeOK, StepOf, Alive
  <2>7. \A v \in Threads : handling'[v] => at'[v] \in {"ocaml", "locked"}
    BY DEF IInv, StepOf
  <2>8. Stacks'
    BY <1>1, <2>1, <2>5 DEF IInv, Stacks, StepOf, Context, Alive
  <2>9. Halves'
    BY <1>1, <2>1, <2>2, <2>3, <2>5 DEF Halves, StepOf
  <2>10. PICK q \in [1 .. Cardinality(Alive) -> Alive] : Ring(q)
    BY <1>1 DEF IInv, StepOf
  <2>11. Ring(q)'
    BY <1>1, <2>5, <2>10, RingKept DEF StepOf, Alive
  <2> QED BY <1>1, <2>6, <2>7, <2>8, <2>9, <2>10, <2>11 DEF IInv
<1> QED BY <1>2, <1>3

\* At boot there is only Main, and no ring yet.
LEMMA InitIInv == Init => IInv
<1> SUFFICES ASSUME Init
             PROVE  IInv
  OBVIOUS
<1>1. TypeOK
  <2>1. thread \in [Threads -> Descriptors]
    BY DEF Init, initial, Descriptors, Contexts
  <2>2. at \in [Threads -> Places] /\ handling \in [Threads -> BOOLEAN]
    BY DEF Init, Places
  <2>3. mutex \in [Channels -> BOOLEAN] /\ channel \in [Threads -> Channels \cup {NULL}]
    BY DEF Init
  <2> QED BY <2>1, <2>2, <2>3, ThreadsAssumption DEF Init, TypeOK, Contexts
<1>2. Alone
  BY DEF Init, Alone
<1> QED BY <1>1, <1>2 DEF IInv, Init

\* Both contexts of a thread are contexts.
LEMMA ContextsOf ==
  ASSUME NEW t \in Threads
  PROVE  /\ Entered(t) \in Contexts /\ Nested(t) \in Contexts
         /\ Entered(t) # NULL /\ Nested(t) # NULL
BY ThreadsAssumption DEF Contexts, Entered, Nested

\* Before ocaml_thread_init only that and a yield that does nothing happen.
LEMMA AloneStep ==
  ASSUME IInv, curr_thread = NULL, Next
  PROVE  IInv'
<1>0. /\ Alone /\ TypeOK /\ Main \in Threads /\ Main # NULL
  BY ThreadsAssumption DEF IInv
<1> DEFINE Same == /\ UNCHANGED <<curr_thread, thread, cpu, switching, at, handling,
                                  pending, halted, channel>>
                   /\ globals' \in Contexts
                   /\ last_channel_locked' \in Channels \cup {NULL}
                   /\ mutex' \in [Channels -> BOOLEAN]
<1>1. ASSUME Same
      PROVE  IInv'
  BY <1>0, <1>1 DEF IInv, TypeOK, Alone
<1>2. ASSUME NEW t \in Threads, yield(t)
      PROVE  Same
  BY <1>0, <1>2, ContextsOf DEF yield, schedule, TypeOK
<1>3. ASSUME NEW t \in Threads, caml_io_mutex_unlock_exn(t)
      PROVE  Same
  <2>1. t = Main /\ at' = [at EXCEPT ![t] = "ocaml"] /\ at[t] = "ocaml"
    BY <1>0, <1>3 DEF caml_io_mutex_unlock_exn, Writing, InOCaml, Running, Alone
  <2>2. at' = at
    BY <1>0, <2>1 DEF TypeOK
  <2>3. mutex' \in [Channels -> BOOLEAN]
    BY <1>0, <1>3 DEF caml_io_mutex_unlock_exn, after_raise, TypeOK
  <2> QED BY <1>0, <1>3, <2>2, <2>3, ContextsOf DEF caml_io_mutex_unlock_exn
<1>4. ASSUME ocaml_thread_init
      PROVE  IInv'
  <2>1. /\ curr_thread' = Main /\ globals' = Entered(Main) /\ UNCHANGED program
        /\ thread' = [thread EXCEPT ![Main] = initial(Main, Main, NULL)]
        /\ UNCHANGED <<last_channel_locked, mutex>>
    BY <1>4 DEF ocaml_thread_init
  <2>2. /\ thread'[Main].next = Main
        /\ thread' \in [Threads -> Descriptors]
    BY <1>0, <2>1 DEF initial, Descriptors, Contexts, TypeOK
  <2>3. Alive' = {Main}
    BY <1>0, <2>1 DEF Alive, Alone, program
  <2>4. TypeOK'
    BY <1>0, <2>1, <2>2, ContextsOf DEF TypeOK, program
  <2>5. Cardinality(Alive)' = 1
    BY <2>3, FS_Singleton
  <2>6. Ring([i \in 1 .. 1 |-> Main])'
    BY <2>1, <2>2, <2>3, <2>5 DEF Ring
  <2>7. [i \in 1 .. 1 |-> Main] \in [1 .. Cardinality(Alive)' -> Alive']
    BY <2>3, <2>5
  <2>8. Stacks'
    BY <1>0, <2>1, <2>3 DEF Stacks, Alone, program
  <2>9. Halves'
    BY <1>0, <2>1, <2>3 DEF Halves, Alone, program
  <2>10. \A t \in Threads : handling'[t] => at'[t] \in {"ocaml", "locked"}
    BY <1>0, <2>1 DEF Alone, program
  <2> QED BY <1>0, <2>1, <2>4, <2>6, <2>7, <2>8, <2>9, <2>10 DEF IInv
<1>5. /\ ~resume /\ ~starter /\ ~time_irq_timer1 /\ ~abort
  BY <1>0 DEF Alone, resume, starter, time_irq_timer1, abort
<1>6. ASSUME NEW t \in Threads
      PROVE  /\ \A th \in Threads : ~caml_thread_create(t, th)
             /\ ~caml_thread_signal(t) /\ ~handler(t) /\ ~handled(t)
             /\ ~lock(t)
  BY <1>0 DEF Alone, caml_thread_create, caml_thread_signal, handler, handled, lock,
              caml_io_mutex_lock
<1>7. ASSUME NEW t \in Threads
      PROVE  ~caml_io_mutex_unlock(t) /\ ~return(t)
  BY <1>0, ThreadsAssumption
     DEF Alone, caml_io_mutex_unlock, return, Writing, InOCaml, Running
<1> QED BY <1>1, <1>2, <1>3, <1>4, <1>5, <1>6, <1>7 DEF Next

-----------------------------------------------------------------------------
(* The steps of the running thread.                                        *)

\* The running thread is the one curr_thread points at, between two switches, and
\* the globals are its own wherever the runtime is in C.
LEMMA RunningIs ==
  ASSUME IInv, curr_thread # NULL, NEW t \in Threads, Running(t)
  PROVE  /\ t = curr_thread /\ t = cpu /\ t \in Alive /\ ~switching
         /\ at[t] \in {"ocaml", "wait", "locked"}
         /\ (at[t] # "ocaml" \/ handling[t]) => globals = Context(t)
         /\ handling[t] => at[t] \in {"ocaml", "locked"}
<1>1. t = cpu /\ t = curr_thread /\ t \in Alive /\ ~switching
  BY DEF IInv, Running, Halves
<1>2. at[t] \in Places /\ at[t] \notin {"none", "fresh"}
  BY <1>1 DEF IInv, TypeOK, Stacks, Alive
<1> QED BY <1>1, <1>2 DEF IInv, Halves, Places

\* yield enters C and gives the processor away.
LEMMA YieldStep ==
  ASSUME IInv, curr_thread # NULL, NEW t \in Threads, yield(t)
  PROVE  IInv'
<1>1. Running(t) /\ ~handling[t] /\ at[t] = "ocaml"
  BY DEF yield, InOCaml
<1>2. StepOf(t)
  BY <1>1 DEF StepOf, yield, IInv, TypeOK
<1>3. Entered(t) = Context(t)'
  BY <1>1 DEF yield, Context
<1> QED BY <1>2, <1>3, ContextsOf, StepSchedules DEF yield

\* The handler yields from its own, nested, call of the runtime.
LEMMA HandlerStep ==
  ASSUME IInv, curr_thread # NULL, NEW t \in Threads, handler(t)
  PROVE  IInv'
<1>1. Running(t) /\ at[t] \in {"ocaml", "locked"}
  BY DEF handler, InOCaml, Writing
<1>2. handling \in [Threads -> BOOLEAN] /\ handling' = [handling EXCEPT ![t] = TRUE]
  BY DEF handler, IInv, TypeOK
<1>3. StepOf(t)
  BY <1>1, <1>2 DEF StepOf, handler, IInv, TypeOK
<1>4. Nested(t) = Context(t)'
  BY <1>2 DEF Context
<1> QED BY <1>3, <1>4, ContextsOf, StepSchedules DEF handler

\* When the handler returns, the globals are again those of the call it interrupted.
LEMMA HandledStep ==
  ASSUME IInv, curr_thread # NULL, NEW t \in Threads, handled(t)
  PROVE  IInv'
<1>1. Running(t) /\ at[t] \in {"ocaml", "locked"}
  BY RunningIs DEF handled
<1>2. handling \in [Threads -> BOOLEAN] /\ handling' = [handling EXCEPT ![t] = FALSE]
  BY DEF handled, IInv, TypeOK
<1>3. StepOf(t)
  BY <1>1, <1>2 DEF StepOf, handled, IInv, TypeOK
<1>4. Entered(t) = Context(t)'
  BY <1>2 DEF Context
<1> QED BY <1>3, <1>4, ContextsOf, StepKeeps DEF handled

\* A signal is recorded; no thread moves.
LEMMA SignalStep ==
  ASSUME IInv, curr_thread # NULL, NEW t \in Threads, caml_thread_signal(t)
  PROVE  IInv'
<1>1. Running(t) /\ ~handling[t] /\ at[t] = "ocaml"
  BY DEF caml_thread_signal, InOCaml
<1>2. StepOf(t)
  BY <1>1 DEF StepOf, caml_thread_signal, IInv, TypeOK
<1> QED BY <1>1, <1>2, ContextsOf, StepKeeps DEF caml_thread_signal

\* The end of a thread stops the machine.
LEMMA ReturnStep ==
  ASSUME IInv, curr_thread # NULL, NEW t \in Threads, return(t)
  PROVE  IInv'
<1>1. Running(t) /\ ~handling[t] /\ at[t] = "ocaml"
  BY DEF return, InOCaml
<1>2. StepOf(t)
  BY <1>1 DEF StepOf, return, IInv, TypeOK, kernel
<1>3. globals' \in Contexts
  BY DEF return, kernel, IInv, TypeOK
<1> QED BY <1>1, <1>2, <1>3, StepKeeps DEF return, kernel

\* lock takes the channel, or gives the processor away in its waiting loop.
LEMMA LockStep ==
  ASSUME IInv, curr_thread # NULL, NEW t \in Threads, lock(t)
  PROVE  IInv'
<1>1. PICK chan \in Channels : caml_io_mutex_lock(t, chan)
  BY DEF lock
<1>2. Running(t) /\ ~handling[t]
  BY <1>1, RunningIs DEF caml_io_mutex_lock, InOCaml
<1>3. /\ channel' \in [Threads -> Channels \cup {NULL}]
      /\ at \in [Threads -> Places] /\ mutex \in [Channels -> BOOLEAN]
      /\ handling' = handling /\ handling \in [Threads -> BOOLEAN]
  BY <1>1 DEF caml_io_mutex_lock, IInv, TypeOK
<1>4. Entered(t) = Context(t)'
  BY <1>2, <1>3 DEF Context
<1>5. CASE lockable(chan)
  <2>1. /\ at' = [at EXCEPT ![t] = "locked"]
        /\ mutex' = [mutex EXCEPT ![chan] = TRUE]
        /\ last_channel_locked' = chan /\ globals' = Entered(t)
        /\ UNCHANGED <<thread, cpu, switching, curr_thread, pending, halted>>
    BY <1>1, <1>5 DEF caml_io_mutex_lock
  <2>2. StepOf(t)
    BY <1>2, <1>3, <2>1 DEF StepOf, IInv, TypeOK, Places
  <2> QED BY <1>4, <2>1, <2>2, ContextsOf, StepKeeps
<1>6. CASE ~lockable(chan)
  <2>1. /\ at' = [at EXCEPT ![t] = "wait"]
        /\ schedule(thread, Entered(t))
        /\ UNCHANGED <<mutex, last_channel_locked, curr_thread, pending, halted>>
    BY <1>1, <1>6 DEF caml_io_mutex_lock, turn
  <2>2. StepOf(t)
    BY <1>2, <1>3, <2>1 DEF StepOf, IInv, TypeOK, Places
  <2> QED BY <1>4, <2>1, <2>2, ContextsOf, StepSchedules
<1> QED BY <1>5, <1>6

\* Both ways out of an operation lead back to the thread's own code.
LEMMA UnlockStep ==
  ASSUME IInv, curr_thread # NULL, NEW t \in Threads,
         caml_io_mutex_unlock(t) \/ caml_io_mutex_unlock_exn(t)
  PROVE  IInv'
<1>1. Running(t) /\ ~handling[t]
  BY DEF caml_io_mutex_unlock, caml_io_mutex_unlock_exn, Writing, InOCaml
<1>2. /\ mutex' \in [Channels -> BOOLEAN]
      /\ at' = [at EXCEPT ![t] = "ocaml"] /\ at \in [Threads -> Places]
      /\ globals' \in Contexts /\ last_channel_locked' = NULL
      /\ UNCHANGED <<curr_thread, thread, cpu, switching, channel, handling, pending,
                     halted>>
  BY ContextsOf
     DEF caml_io_mutex_unlock, caml_io_mutex_unlock_exn, after_raise, IInv, TypeOK
<1>3. StepOf(t)
  BY <1>1, <1>2 DEF StepOf, IInv, TypeOK, Places
<1> QED BY <1>1, <1>2, <1>3, StepKeeps

\* What the descriptors are after caml_thread_create and the first half of
\* its schedule().
LEMMA Linked ==
  ASSUME IInv, curr_thread # NULL, NEW t \in Threads, Running(t),
         NEW th \in Threads, at[th] = "none",
         schedule(linked(th), Entered(t))
  PROVE  /\ thread' \in [Threads -> Descriptors]
         /\ thread'[th].next = thread[t].next
         /\ thread'[th].stack = th
         /\ thread'[t].next = th /\ thread'[t].stack = t
         /\ thread'[t].context = Entered(t)
         /\ \A u \in Alive \ {t} : /\ thread'[u].next = thread[u].next
                                  /\ thread'[u].stack = thread[u].stack
                                  /\ thread'[u].context = thread[u].context
         /\ cpu' = th /\ switching' = TRUE /\ globals' = Entered(t)
<1>1. t = curr_thread /\ t = cpu /\ t \in Alive /\ th \notin Alive /\ th # t
  BY RunningIs DEF Alive
<1>2. PICK after \in Alive : after = thread[t].next
  BY <1>1, Successor
<1>3. after \in Threads /\ after # th
  BY <1>1, <1>2 DEF Alive
<1>4. thread \in [Threads -> Descriptors] /\ Entered(t) \in Contexts /\ NULL \in Contexts
  BY ContextsOf DEF IInv, TypeOK, Contexts
<1> DEFINE added == [thread EXCEPT ![th] = initial(after, t, th)]
           behind == [added EXCEPT ![after].prev = th]
           d == [behind EXCEPT ![t].next = th]
<1>5. linked(th) = d
  BY <1>1, <1>2 DEF linked
<1>6. initial(after, t, th) \in Descriptors
  BY <1>3, <1>4 DEF initial, Descriptors
<1>7. /\ added \in [Threads -> Descriptors]
      /\ added[th] = initial(after, t, th)
      /\ \A u \in Threads \ {th} : added[u] = thread[u]
  BY <1>4, <1>6
<1> HIDE DEF added
<1>8. /\ behind \in [Threads -> Descriptors]
      /\ \A u \in Threads : /\ behind[u].next = added[u].next
                            /\ behind[u].stack = added[u].stack
                            /\ behind[u].context = added[u].context
  BY <1>3, <1>7 DEF Descriptors
<1> HIDE DEF behind
<1>9. /\ d \in [Threads -> Descriptors]
      /\ d[t].next = th
      /\ \A u \in Threads \ {t} : d[u] = behind[u]
  BY <1>8 DEF Descriptors
<1>10. d[th].next = after /\ d[th].stack = th
  BY <1>1, <1>7, <1>8, <1>9 DEF initial
<1> HIDE DEF d
<1>11. /\ thread' = saved(d, Entered(t)) /\ switching' = TRUE
       /\ cpu' = d[th].stack /\ globals' = Entered(t)
  BY <1>1, <1>5, <1>9 DEF schedule
<1> DEFINE half == [d EXCEPT ![t].context = Entered(t)]
<1>14. /\ half \in [Threads -> Descriptors]
       /\ half[t].next = th /\ half[t].context = Entered(t)
       /\ \A u \in Threads \ {t} : half[u] = d[u]
  BY <1>4, <1>9 DEF Descriptors
<1>15. thread' = [half EXCEPT ![t].stack = t]
  BY <1>1, <1>11 DEF saved
<1> HIDE DEF half
<1>12. /\ thread' \in [Threads -> Descriptors]
       /\ thread'[t].next = th /\ thread'[t].stack = t
       /\ thread'[t].context = Entered(t)
       /\ \A u \in Threads \ {t} : thread'[u] = d[u]
  BY <1>14, <1>15 DEF Descriptors
<1>13. ASSUME NEW u \in Alive \ {t}
       PROVE  /\ thread'[u].next = thread[u].next
              /\ thread'[u].stack = thread[u].stack
              /\ thread'[u].context = thread[u].context
  <2>1. u \in Threads /\ u # th /\ u # t
    BY <1>1 DEF Alive
  <2> QED BY <2>1, <1>7, <1>8, <1>9, <1>12
<1> QED BY <1>1, <1>2, <1>10, <1>11, <1>12, <1>13

\* The ring q with th behind its first thread.
Grown(q, th, n) ==
  [i \in 1 .. n + 1 |-> IF i = 1 THEN q[1] ELSE IF i = 2 THEN th ELSE q[i - 1]]

\* A new thread comes into the ring behind the running one.
LEMMA RingGrown ==
  ASSUME IInv, curr_thread # NULL, NEW t \in Threads, Running(t),
         NEW th \in Threads, at[th] = "none", at' = [at EXCEPT ![th] = "fresh"],
         curr_thread' = curr_thread, schedule(linked(th), Entered(t)),
         NEW n \in Nat, n = Cardinality(Alive), NEW q \in [1 .. n -> Alive], Ring(q)
  PROVE  /\ Cardinality(Alive)' = n + 1
         /\ Grown(q, th, n) \in [1 .. n + 1 -> Alive']
         /\ Ring(Grown(q, th, n))'
<1>1. t = curr_thread /\ t \in Alive /\ th \notin Alive /\ th # t
  BY RunningIs DEF Alive
<1>2. /\ thread'[th].next = thread[t].next
      /\ thread'[t].next = th
      /\ \A u \in Alive \ {t} : thread'[u].next = thread[u].next
  BY Linked
<1>3. Alive' = Alive \cup {th}
  BY DEF Alive, IInv, TypeOK
<1>4. n >= 1
  BY <1>1, AliveFinite
<1>5. Ring(q) /\ \A i \in 1 .. n : q[i] \in Alive
  BY <1>4
<1>6. Cardinality(Alive)' = n + 1
  BY <1>1, <1>3, <1>4, AliveFinite, FS_AddElement
<1> DEFINE r == Grown(q, th, n)
<1>7. q[1] = t
  BY <1>1 DEF Ring
<1>8. \A i \in 1 .. n + 1 : r[i] = IF i = 1 THEN t ELSE IF i = 2 THEN th ELSE q[i - 1]
  BY <1>7 DEF Grown
<1>9. r \in [1 .. n + 1 -> Alive']
  BY <1>1, <1>3, <1>4, <1>5, <1>7 DEF Grown
<1> HIDE DEF r
<1>10. \A u \in Alive' : \E i \in 1 .. n + 1 : r[i] = u
  <2> SUFFICES ASSUME NEW u \in Alive'
               PROVE  \E i \in 1 .. n + 1 : r[i] = u
    OBVIOUS
  <2>1. CASE u = th
    <3>1. 2 \in 1 .. n + 1 /\ r[2] = th
      BY <1>4, <1>8
    <3> QED BY <2>1, <3>1
  <2>2. CASE u = t
    <3>1. 1 \in 1 .. n + 1 /\ r[1] = t
      BY <1>4, <1>8
    <3> QED BY <2>2, <3>1
  <2>3. CASE u \in Alive \ {t}
    <3>1. PICK i \in 1 .. n : q[i] = u
      BY <2>3, <1>5, <1>4 DEF Ring
    <3>2. i # 1
      BY <3>1, <2>3, <1>1, <1>5 DEF Ring
    <3>3. i + 1 \in 1 .. n + 1 /\ r[i + 1] = q[i]
      BY <3>1, <3>2, <1>4, <1>8
    <3> QED BY <3>1, <3>3
  <2> QED BY <2>1, <2>2, <2>3, <1>3
<1>11. \A i, j \in 1 .. n + 1 : r[i] = r[j] => i = j
  <2>1. \A i \in 1 .. n : q[i] # th
    BY <1>1, <1>5, <1>4
  <2>2. \A i \in 3 .. n + 1 : r[i] = q[i - 1] /\ r[i] # th /\ r[i] # t
    BY <2>1, <1>1, <1>5, <1>4, <1>8 DEF Ring
  <2>3. r[1] = t /\ r[2] = th
    BY <1>4, <1>8
  <2>4. \A i, j \in 3 .. n + 1 : r[i] = r[j] => i = j
    BY <2>2, <1>5, <1>4 DEF Ring
  <2>5. \A i \in 1 .. n + 1 : i = 1 \/ i = 2 \/ i \in 3 .. n + 1
    OBVIOUS
  <2> HIDE DEF r
  <2> QED BY <2>2, <2>3, <2>4, <2>5, <1>1
<1>12. /\ r[1] = t /\ r[2] = th /\ q[1] = t
       /\ \A i \in 3 .. n + 1 : r[i] = q[i - 1]
       /\ \A i \in 1 .. n : q[i] \in Alive /\ (q[i] = t => i = 1)
       /\ \A i \in 1 .. n : thread[q[i]].next = IF i = n THEN q[1] ELSE q[i + 1]
  <2>1. r[1] = t /\ r[2] = th /\ \A i \in 3 .. n + 1 : r[i] = q[i - 1]
    BY <1>4, <1>8
  <2>2. /\ q[1] = t /\ \A i, j \in 1 .. n : q[i] = q[j] => i = j
        /\ \A i \in 1 .. n : thread[q[i]].next = IF i = n THEN q[1] ELSE q[i + 1]
    BY <1>1, <1>5, <1>4 DEF Ring
  <2>3. \A i \in 1 .. n : q[i] \in Alive /\ (q[i] = t => i = 1)
    BY <1>5, <1>4, <2>2
  <2> QED BY <2>1, <2>2, <2>3
<1>13. \A i \in 1 .. n + 1 :
        thread'[r[i]].next = IF i = n + 1 THEN r[1] ELSE r[i + 1]
  <2> HIDE DEF r
  <2> SUFFICES ASSUME NEW i \in 1 .. n + 1
               PROVE  thread'[r[i]].next = IF i = n + 1 THEN r[1] ELSE r[i + 1]
    OBVIOUS
  <2>1. CASE i = 1
    BY <2>1, <1>2, <1>4, <1>12
  <2>2. CASE i = 2
    <3>1. thread'[r[2]].next = thread[t].next
      BY <1>2, <1>12
    <3>2. thread[t].next = IF n = 1 THEN t ELSE q[2]
      <4>1. 1 \in 1 .. n
        BY <1>4
      <4>2. thread[q[1]].next = IF 1 = n THEN q[1] ELSE q[1 + 1]
        BY <4>1, <1>12
      <4> QED BY <4>2, <1>12
    <3>3. n # 1 => r[3] = q[2]
      BY <1>4, <1>12
    <3> QED BY <2>2, <3>1, <3>2, <3>3, <1>12, <1>4
  <2>3. CASE i \in 3 .. n + 1
    <3>1. i - 1 \in 2 .. n /\ r[i] = q[i - 1]
      BY <2>3, <1>4, <1>12
    <3>2. q[i - 1] \in Alive \ {t}
      BY <3>1, <1>12, <1>4
    <3>3. thread'[r[i]].next = thread[q[i - 1]].next
      BY <3>1, <3>2, <1>2
    <3>4. thread[q[i - 1]].next = IF i - 1 = n THEN q[1] ELSE q[i - 1 + 1]
      BY <3>1, <1>12, <1>4
    <3>5. i # n + 1 => r[i + 1] = q[i - 1 + 1]
      BY <2>3, <1>4, <1>12
    <3> QED BY <3>3, <3>4, <3>5, <1>12, <2>3, <1>4
  <2> QED BY <2>1, <2>2, <2>3, <1>4
<1>14. curr_thread' = t
  BY <1>1
<1>15. Ring(r)'
  <2>1. /\ Cardinality(Alive)' = n + 1 /\ r[1] = curr_thread'
        /\ r \in [1 .. n + 1 -> Alive']
    BY <1>6, <1>9, <1>12, <1>14
  <2> QED BY <2>1, <1>10, <1>11, <1>13 DEF Ring
<1> QED BY <1>4, <1>6, <1>9, <1>15 DEF r

\* The new thread is about to run, and its creator is left as it is to be.
LEMMA CreateStep ==
  ASSUME IInv, curr_thread # NULL, NEW t \in Threads, NEW th \in Threads,
         caml_thread_create(t, th)
  PROVE  IInv'
<1>1. Running(t) /\ ~handling[t] /\ at[t] = "ocaml"
  BY DEF caml_thread_create, InOCaml
<1>2. CASE UNCHANGED <<thread, cpu, switching, at>> /\ globals' = Entered(t)
  <2>1. StepOf(t)
    BY <1>1, <1>2 DEF StepOf, caml_thread_create, IInv, TypeOK
  <2> QED BY <1>1, <1>2, <2>1, ContextsOf, StepKeeps DEF caml_thread_create
<1>3. CASE at' = [at EXCEPT ![th] = "fresh"] /\ schedule(linked(th), Entered(t))
  <2>1. /\ t = curr_thread /\ t = cpu /\ t \in Alive /\ th \notin Alive /\ th # t
        /\ at[th] = "none" /\ curr_thread' = t /\ ~handling[th]
    BY <1>1, RunningIs DEF Alive, caml_thread_create, IInv
  <2>2. /\ thread' \in [Threads -> Descriptors]
        /\ thread'[th].next = thread[t].next
        /\ thread'[th].stack = th
        /\ thread'[t].next = th /\ thread'[t].stack = t
        /\ thread'[t].context = Entered(t)
        /\ \A u \in Alive \ {t} : /\ thread'[u].next = thread[u].next
                                 /\ thread'[u].stack = thread[u].stack
                                 /\ thread'[u].context = thread[u].context
        /\ cpu' = th /\ switching' = TRUE /\ globals' = Entered(t)
    BY <1>1, <1>3, <2>1, Linked
  <2>3. /\ at \in [Threads -> Places] /\ at' \in [Threads -> Places]
        /\ at'[th] = "fresh"
        /\ \A u \in Threads \ {th} : at'[u] = at[u]
    BY <1>3 DEF IInv, TypeOK, Places
  <2>4. Alive' = Alive \cup {th}
    BY <2>3 DEF Alive
  <2>5. TypeOK'
    BY <2>1, <2>2, <2>3, ContextsOf DEF IInv, TypeOK, caml_thread_create
  <2>6. \A u \in Threads : handling'[u] => at'[u] \in {"ocaml", "locked"}
    BY <2>1, <2>3 DEF IInv, caml_thread_create
  <2>7. Stacks'
    <3> SUFFICES ASSUME NEW u \in Alive'
                 PROVE  /\ at'[u] = "fresh" => u = th
                        /\ thread'[u].stack = u
                        /\ u # th => thread'[u].context = Context(u)'
      BY <2>1, <2>2, <2>3 DEF Stacks, caml_thread_create
    <3>1. CASE u = th
      BY <3>1, <2>2
    <3>2. CASE u = t
      BY <3>2, <1>1, <2>1, <2>2, <2>3 DEF Context, caml_thread_create
    <3>3. CASE u \in Alive \ {t}
      <4>1. u \in Threads /\ u # th /\ at'[u] = at[u]
        BY <3>3, <2>1, <2>3 DEF Alive
      <4>2. ~switching
        BY <1>1 DEF Running
      <4>3. at[u] # "fresh" /\ thread[u].stack = u /\ thread[u].context = Context(u)
        BY <3>3, <4>2, <2>1 DEF IInv, Stacks
      <4>4. Context(u)' = Context(u)
        BY DEF Context, caml_thread_create
      <4> QED BY <3>3, <4>1, <4>3, <4>4, <2>2
    <3> QED BY <3>1, <3>2, <3>3, <2>4
  <2>8. Halves'
    BY <2>1, <2>2, <2>4 DEF Halves
  <2>9. PICK q \in [1 .. Cardinality(Alive) -> Alive] : Ring(q)
    BY DEF IInv
  <2>13. \E r \in [1 .. Cardinality(Alive)' -> Alive'] : Ring(r)'
    <3>1. PICK n \in Nat : n = Cardinality(Alive)
      BY AliveFinite
    <3>2. /\ Cardinality(Alive)' = n + 1
          /\ Grown(q, th, n) \in [1 .. n + 1 -> Alive']
          /\ Ring(Grown(q, th, n))'
      BY <1>1, <1>3, <2>1, <2>9, <3>1, RingGrown
    <3> QED BY <3>2
  <2>14. curr_thread' # NULL
    BY <2>1, ThreadsAssumption
  <2> QED BY <2>5, <2>6, <2>7, <2>8, <2>13, <2>14 DEF IInv
<1> QED BY <1>2, <1>3 DEF caml_thread_create

-----------------------------------------------------------------------------
(* The second half of a switch, and the whole invariant.                   *)

\* The ring q seen from its second thread on.
Rotated(q, n) == [i \in 1 .. n |-> IF i = n THEN q[1] ELSE q[i + 1]]

\* What makes curr_thread follow the switch turns the ring by one.
LEMMA RingTurned ==
  ASSUME NEW q \in [1 .. Cardinality(Alive) -> Alive], Ring(q), curr_thread \in Alive,
         curr_thread' = thread[curr_thread].next, Alive' = Alive, thread' = thread
  PROVE  /\ Rotated(q, Cardinality(Alive)) \in [1 .. Cardinality(Alive) -> Alive]
         /\ Ring(Rotated(q, Cardinality(Alive)))'
<1>1. PICK n \in Nat : n = Cardinality(Alive) /\ n >= 1
  BY AliveFinite
<1>2. Cardinality(Alive)' = n
  BY <1>1
<1>3. /\ \A i \in 1 .. n : q[i] \in Alive
      /\ q[1] = curr_thread
      /\ \A t \in Alive : \E i \in 1 .. n : q[i] = t
      /\ \A i, j \in 1 .. n : q[i] = q[j] => i = j
      /\ \A i \in 1 .. n : thread[q[i]].next = IF i = n THEN q[1] ELSE q[i + 1]
  BY <1>1 DEF Ring
<1> DEFINE r == Rotated(q, n)
<1>4. \A i \in 1 .. n : r[i] = IF i = n THEN q[1] ELSE q[i + 1]
  BY DEF Rotated
<1>5. r \in [1 .. n -> Alive]
  BY <1>1, <1>3 DEF Rotated
<1> HIDE DEF r
<1>6. r[1] = curr_thread'
  <2>1. 1 \in 1 .. n
    BY <1>1
  <2>2. thread[q[1]].next = IF 1 = n THEN q[1] ELSE q[1 + 1]
    BY <2>1, <1>3
  <2> QED BY <2>1, <2>2, <1>3, <1>4
<1>7. \A t \in Alive : \E i \in 1 .. n : r[i] = t
  <2> SUFFICES ASSUME NEW t \in Alive
               PROVE  \E i \in 1 .. n : r[i] = t
    OBVIOUS
  <2>1. PICK i \in 1 .. n : q[i] = t
    BY <1>3
  <2>2. CASE i = 1
    <3>1. n \in 1 .. n /\ r[n] = q[1]
      BY <1>1, <1>4
    <3> QED BY <2>1, <2>2, <3>1
  <2>3. CASE i # 1
    <3>1. i - 1 \in 1 .. n /\ i - 1 # n
      BY <2>3, <1>1
    <3>2. r[i - 1] = q[i - 1 + 1] /\ i - 1 + 1 = i
      BY <3>1, <1>4
    <3> QED BY <2>1, <3>1, <3>2
  <2> QED BY <2>2, <2>3
<1>8. \A i, j \in 1 .. n : r[i] = r[j] => i = j
  <2> SUFFICES ASSUME NEW i \in 1 .. n, NEW j \in 1 .. n, r[i] = r[j]
               PROVE  i = j
    OBVIOUS
  <2>1. /\ 1 \in 1 .. n
        /\ i # n => i + 1 \in 1 .. n /\ i + 1 # 1
        /\ j # n => j + 1 \in 1 .. n /\ j + 1 # 1
    BY <1>1
  <2> QED BY <2>1, <1>3, <1>4
<1>9. \A i \in 1 .. n : thread[r[i]].next = IF i = n THEN r[1] ELSE r[i + 1]
  <2> SUFFICES ASSUME NEW i \in 1 .. n
               PROVE  thread[r[i]].next = IF i = n THEN r[1] ELSE r[i + 1]
    OBVIOUS
  <2>1. CASE i = n
    <3>1. r[i] = q[1] /\ r[1] = curr_thread'
      BY <2>1, <1>4, <1>6
    <3> QED BY <2>1, <3>1, <1>3
  <2>2. CASE i # n
    <3>1. i + 1 \in 1 .. n /\ r[i] = q[i + 1] /\ r[i + 1] = IF i + 1 = n THEN q[1] ELSE q[i + 1 + 1]
      BY <2>2, <1>1, <1>4
    <3>2. thread[q[i + 1]].next = IF i + 1 = n THEN q[1] ELSE q[i + 1 + 1]
      BY <3>1, <1>3
    <3> QED BY <2>2, <3>1, <3>2
  <2> QED BY <2>1, <2>2
<1>10. Ring(r)'
  BY <1>2, <1>5, <1>6, <1>7, <1>8, <1>9 DEF Ring
<1> QED BY <1>1, <1>5, <1>10 DEF r

\* The thread switched to makes curr_thread and the global variables its own.
LEMMA ResumeStep ==
  ASSUME IInv, resume \/ starter
  PROVE  IInv'
<1>1. switching /\ curr_thread # NULL
  BY DEF resume, starter, IInv, Alone
<1>2. /\ curr_thread \in Alive /\ cpu = thread[curr_thread].next /\ cpu # curr_thread
      /\ cpu \in Alive /\ cpu \in Threads
  BY <1>1, Successor DEF IInv, Halves, Alive
<1>3. /\ curr_thread' = cpu /\ globals' = thread[cpu].context /\ switching' = FALSE
      /\ UNCHANGED <<thread, last_channel_locked, mutex, cpu, channel, handling, pending,
                     halted>>
  BY <1>2 DEF resume, starter, resumed
<1>4. /\ at' \in [Threads -> Places] /\ at \in [Threads -> Places]
      /\ \A u \in Threads \ {cpu} : at'[u] = at[u]
      /\ at[cpu] = "fresh" => at'[cpu] = "ocaml"
      /\ at[cpu] # "fresh" => at'[cpu] = at[cpu]
  BY <1>2 DEF resume, starter, IInv, TypeOK, Places
<1>5. Alive' = Alive
  BY <1>2, <1>4 DEF Alive
<1>6. globals' \in Contexts
  BY <1>2, <1>3 DEF IInv, TypeOK, Descriptors
<1>7. TypeOK'
  BY <1>2, <1>3, <1>4, <1>6 DEF IInv, TypeOK
<1>8. /\ \A u \in Alive : thread[u].stack = u
      /\ \A u \in Alive : at[u] # "fresh" => thread[u].context = Context(u)
      /\ \A u \in Alive \ {cpu} : at[u] # "fresh"
      /\ at[cpu] = "fresh" => ~handling[cpu]
  BY <1>1, <1>2 DEF IInv, Stacks
<1>9. \A u \in Threads : Context(u)' = Context(u)
  BY <1>3 DEF Context
<1>10. \A u \in Threads : handling'[u] => at'[u] \in {"ocaml", "locked"}
  BY <1>3, <1>4, <1>8, <1>2 DEF IInv
<1>11. Stacks'
  <2> SUFFICES ASSUME NEW u \in Alive
               PROVE  /\ at'[u] # "fresh"
                      /\ thread[u].stack = u
                      /\ u # cpu => thread[u].context = Context(u)
    BY <1>3, <1>5, <1>9 DEF Stacks, Alive
  <2>1. u \in Threads
    BY DEF Alive
  <2> QED BY <2>1, <1>4, <1>8
<1>12. Halves'
  BY <1>2, <1>3, <1>4, <1>5, <1>8, <1>9 DEF Halves
<1>13. PICK q \in [1 .. Cardinality(Alive) -> Alive] : Ring(q)
  BY <1>1 DEF IInv
<1>14. \E r \in [1 .. Cardinality(Alive)' -> Alive'] : Ring(r)'
  BY <1>2, <1>3, <1>5, <1>13, RingTurned
<1>15. curr_thread' # NULL
  BY <1>2, <1>3, ThreadsAssumption
<1> QED BY <1>7, <1>10, <1>11, <1>12, <1>14, <1>15 DEF IInv

\* A step that changes no variable keeps the invariant.
LEMMA IInvUnchanged ==
  ASSUME IInv, UNCHANGED <<kernel, cpu, switching, at, channel, handling, halted>>,
         pending' \in BOOLEAN, curr_thread = NULL => pending' = pending
  PROVE  IInv'
<1>1. /\ UNCHANGED <<curr_thread, thread, globals, last_channel_locked, mutex, cpu,
                     switching, at, channel, handling, halted>>
      /\ Alive' = Alive
  BY DEF kernel, Alive
<1>2. TypeOK' /\ \A t \in Threads : handling'[t] => at'[t] \in {"ocaml", "locked"}
  BY <1>1 DEF IInv, TypeOK
<1>3. CASE curr_thread = NULL
  BY <1>1, <1>2, <1>3 DEF IInv, Alone
<1>4. CASE curr_thread # NULL
  <2>1. Stacks' /\ Halves'
    BY <1>1, <1>4 DEF IInv, Stacks, Halves, Context
  <2>2. PICK q \in [1 .. Cardinality(Alive) -> Alive] : Ring(q)
    BY <1>4 DEF IInv
  <2>3. Ring(q)'
    BY <1>1, <2>2, RingKept
  <2> QED BY <1>1, <1>2, <1>4, <2>1, <2>2, <2>3 DEF IInv
<1> QED BY <1>3, <1>4

\* No step breaks the invariant.
LEMMA NextIInv == IInv /\ [Next]_vars => IInv'
<1> SUFFICES ASSUME IInv, [Next]_vars
             PROVE  IInv'
  OBVIOUS
<1>1. CASE UNCHANGED vars
  BY <1>1, IInvUnchanged DEF vars, kernel, program, IInv, TypeOK
<1>2. CASE Next /\ curr_thread = NULL
  BY <1>2, AloneStep
<1>3. CASE Next /\ curr_thread # NULL
  <2>1. ASSUME time_irq_timer1
        PROVE  IInv'
    BY <2>1, IInvUnchanged DEF time_irq_timer1
  <2>2. ASSUME abort
        PROVE  IInv'
    BY <1>1, <2>2 DEF abort
  <2>3. ~ocaml_thread_init
    BY <1>3 DEF ocaml_thread_init
  <2> QED BY <1>3, <2>1, <2>2, <2>3, ResumeStep, CreateStep, YieldStep, SignalStep,
             HandlerStep, HandledStep, ReturnStep, LockStep, UnlockStep DEF Next
<1> QED BY <1>2, <1>3, <1>1

\* The invariant holds in every reachable state.
LEMMA IInvAlways == Spec => []IInv
BY InitIInv, NextIInv, PTL DEF Spec

\* Pointers of the descriptors are to threads, the mutexes of the channels
\* are locked or not, and the processor is on the stack of a thread.
THEOREM TypeCorrect == Spec => []TypeOK
<1>1. IInv => TypeOK
  BY DEF IInv
<1> QED BY <1>1, IInvAlways, PTL

\* Whatever path of switches led to it, the thread that runs is curr_thread
\* and has its own context in the global variables.
THEOREM OwnContextAlways == Spec => []OwnContext
<1>1. IInv => OwnContext
  BY DEF IInv, Stacks, Halves, OwnContext
<1> QED BY <1>1, IInvAlways, PTL

-----------------------------------------------------------------------------
(* The walk of the garbage collector.                                      *)

\* q leads from t along next through as many threads as there are.
Follows(q, t) ==
  LET n == Cardinality(Alive)
  IN  /\ q \in [1 .. n -> Alive]
      /\ \A i \in 1 .. n : q[i] = IF i = 1 THEN t ELSE thread[q[i - 1]].next

\* What leads from t along next is the walk from t.
LEMMA WalkIs ==
  \A t \in Threads : \A q \in [1 .. Cardinality(Alive) -> Alive] :
    Follows(q, t) => Walk(t) = q
<1> SUFFICES ASSUME NEW t \in Threads, NEW q \in [1 .. Cardinality(Alive) -> Alive],
                    Follows(q, t)
             PROVE  Walk(t) = q
  OBVIOUS
<1>1. PICK n \in Nat : n = Cardinality(Alive)
  BY AliveFinite
<1> DEFINE met == CHOOSE f : f = [i \in 1 .. n |-> IF i = 1 THEN t ELSE thread[f[i - 1]].next]
<1>2. Walk(t) = met
  BY <1>1 DEF Walk
<1>3. \A i \in 1 .. n : q[i] = IF i = 1 THEN t ELSE thread[q[i - 1]].next
  BY <1>1 DEF Follows
<1>4. q = [i \in 1 .. n |-> q[i]]
  BY <1>1
<1>5. q = [i \in 1 .. n |-> IF i = 1 THEN t ELSE thread[q[i - 1]].next]
  BY <1>3, <1>4
<1>6. met = [i \in 1 .. n |-> IF i = 1 THEN t ELSE thread[met[i - 1]].next]
  BY <1>5
<1> HIDE DEF met
<1> DEFINE along == [i \in 1 .. n |-> IF i = 1 THEN t ELSE thread[met[i - 1]].next]
<1>7. /\ along = [i \in 1 .. n |-> along[i]]
      /\ \A i \in 1 .. n : along[i] = IF i = 1 THEN t ELSE thread[met[i - 1]].next
  OBVIOUS
<1>8. met = along
  BY <1>6
<1> HIDE DEF along
<1>9. /\ met = [i \in 1 .. n |-> met[i]]
      /\ \A i \in 1 .. n : met[i] = IF i = 1 THEN t ELSE thread[met[i - 1]].next
  BY <1>7, <1>8
<1>10. \A i \in 1 .. n : met[i] = IF i = 1 THEN t ELSE thread[met[i - 1]].next
  BY <1>9
<1>11. ASSUME NEW i \in 1 .. n
       PROVE  met[i] = q[i]
  <2> DEFINE T == {k \in 1 .. n : met[k] = q[k]}
  <2>1. 1 <= n => 1 \in T
    BY <1>3, <1>10
  <2>2. ASSUME NEW k \in 1 .. n - 1, k \in T
        PROVE  k + 1 \in T
    <3>1. k + 1 \in 1 .. n /\ k + 1 # 1 /\ (k + 1) - 1 = k
      OBVIOUS
    <3>2. met[k + 1] = thread[met[k]].next
      BY <3>1, <1>10
    <3>3. q[k + 1] = thread[q[k]].next
      BY <3>1, <1>3
    <3>4. met[k] = q[k]
      BY <2>2
    <3> QED BY <3>1, <3>2, <3>3, <3>4
  <2> HIDE DEF T
  <2>3. 1 .. n \subseteq T
    BY <2>1, <2>2, IntervalInduction
  <2> QED BY <2>3 DEF T
<1>12. [i \in 1 .. n |-> met[i]] = [i \in 1 .. n |-> q[i]]
  BY <1>11, Zenon
<1> QED BY <1>2, <1>4, <1>9, <1>12, Zenon

\* The ring is what follows curr_thread.
LEMMA RingFollows ==
  ASSUME IInv, NEW q \in [1 .. Cardinality(Alive) -> Alive], Ring(q)
  PROVE  Follows(q, curr_thread)
<1>1. PICK n \in Nat : n = Cardinality(Alive)
  BY AliveFinite
<1>2. /\ q[1] = curr_thread
      /\ \A i \in 1 .. n : thread[q[i]].next = IF i = n THEN q[1] ELSE q[i + 1]
  BY <1>1 DEF Ring
<1>3. ASSUME NEW i \in 1 .. n
      PROVE  q[i] = IF i = 1 THEN curr_thread ELSE thread[q[i - 1]].next
  <2>1. CASE i = 1
    BY <2>1, <1>2
  <2>2. CASE i # 1
    <3>1. i - 1 \in 1 .. n /\ i - 1 # n /\ i - 1 + 1 = i
      BY <2>2
    <3> QED BY <2>2, <3>1, <1>2
  <2> QED BY <2>1, <2>2
<1> QED BY <1>1, <1>3 DEF Follows

\* A collection scans the stacks of all threads but the one that runs, each
\* as far as it is in use.
THEOREM ScanExactAlways == Spec => []ScanExact
<1>1. ASSUME IInv, curr_thread # NULL, ~switching
      PROVE  caml_thread_scan_roots = {Context(t) : t \in Alive \ {cpu}}
  <2>1. PICK q \in [1 .. Cardinality(Alive) -> Alive] : Ring(q)
    BY <1>1 DEF IInv
  <2>2. curr_thread = cpu /\ curr_thread \in Threads
    BY <1>1 DEF IInv, Halves, Alive
  <2>3. Walk(curr_thread) = q
    BY <1>1, <2>1, <2>2, RingFollows, WalkIs
  <2>4. {q[i] : i \in DOMAIN q} = Alive
    BY <2>1 DEF Ring
  <2>5. \A t \in Alive \ {cpu} : thread[t].context = Context(t) /\ Context(t) # NULL
    BY <1>1, <2>2, ContextsOf DEF IInv, Stacks, Context, Alive
  <2>6. caml_thread_scan_roots = {thread[t].context : t \in Alive \ {cpu}} \ {NULL}
    BY <2>2, <2>3, <2>4 DEF caml_thread_scan_roots
  <2> QED BY <2>5, <2>6
<1>2. IInv => ScanExact
  BY <1>1 DEF ScanExact
<1> QED BY <1>2, IInvAlways, PTL

-----------------------------------------------------------------------------
(* The locks of the channels.                                              *)

\* The threads in an operation on the channel c.
Holders(c) == {t \in Threads : at[t] = "locked" /\ channel[t] = c}

\* last_channel_locked names the channel that is locked, and one thread is
\* in an operation on it.
LInv ==
  \A c \in Channels :
    /\ mutex[c] <=> last_channel_locked = c
    /\ mutex[c] => \E t \in Threads : Holders(c) = {t}
    /\ ~mutex[c] => Holders(c) = {}

\* The threads of foo.ml write to one channel.
SingleChannel == \A c, d \in Channels : c = d

\* Nothing about the locks changes.
LEMMA LocksKept ==
  ASSUME LInv, mutex' = mutex, last_channel_locked' = last_channel_locked,
         \A t \in Threads : /\ at'[t] = "locked" <=> at[t] = "locked"
                            /\ at[t] = "locked" => channel'[t] = channel[t]
  PROVE  LInv'
<1>1. \A c \in Channels : Holders(c)' = Holders(c)
  BY DEF Holders
<1> QED BY <1>1 DEF LInv

\* A thread takes the free mutex.
LEMMA LocksTaken ==
  ASSUME IInv, LInv, SingleChannel, NEW t \in Threads, NEW chan \in Channels,
         ~mutex[chan],
         mutex' = [mutex EXCEPT ![chan] = TRUE], last_channel_locked' = chan,
         at' = [at EXCEPT ![t] = "locked"], channel' = [channel EXCEPT ![t] = chan]
  PROVE  LInv'
<1>1. /\ at \in [Threads -> Places] /\ channel \in [Threads -> Channels \cup {NULL}]
      /\ mutex \in [Channels -> BOOLEAN]
  BY DEF IInv, TypeOK
<1>2. Holders(chan)' = {t}
  BY <1>1 DEF Holders, LInv
<1>3. mutex'[chan]
  BY <1>1
<1>4. \A c \in Channels : c = chan
  BY DEF SingleChannel
<1> QED BY <1>2, <1>3, <1>4 DEF LInv

\* The thread in an operation leaves it.
LEMMA LocksLeft ==
  ASSUME IInv, LInv, SingleChannel, NEW t \in Threads, at[t] = "locked",
         \A c \in Channels : channel[t] = c => ~mutex'[c],
         channel[t] \in Channels, last_channel_locked' = NULL,
         at' = [at EXCEPT ![t] = "ocaml"], channel' = channel
  PROVE  LInv'
<1>1. at \in [Threads -> Places]
  BY DEF IInv, TypeOK
<1>2. PICK chan \in Channels : chan = channel[t]
  OBVIOUS
<1>3. t \in Holders(chan)
  BY <1>2 DEF Holders
<1>4. Holders(chan) = {t}
  BY <1>3 DEF LInv
<1>5. Holders(chan)' = {}
  BY <1>1, <1>4 DEF Holders
<1>6. ~mutex'[chan] /\ NULL # chan
  BY <1>2, ThreadsAssumption
<1>7. \A c \in Channels : c = chan
  BY DEF SingleChannel
<1> QED BY <1>5, <1>6, <1>7 DEF LInv

\* A thread in an operation has a channel.
CInv == \A t \in Threads : at[t] = "locked" => channel[t] \in Channels

\* No step breaks the invariant of the locks.
LEMMA NextLInv ==
  ASSUME SingleChannel, RaiseAnywhere = FALSE, IInv, LInv, CInv, [Next]_vars
  PROVE  LInv' /\ CInv'
<1>0. /\ at \in [Threads -> Places] /\ channel \in [Threads -> Channels \cup {NULL}]
      /\ mutex \in [Channels -> BOOLEAN]
  BY DEF IInv, TypeOK
<1> DEFINE Kept == /\ mutex' = mutex /\ last_channel_locked' = last_channel_locked
                   /\ \A t \in Threads : /\ at'[t] = "locked" <=> at[t] = "locked"
                                         /\ at[t] = "locked" => channel'[t] = channel[t]
<1>1. ASSUME Kept
      PROVE  LInv' /\ CInv'
  BY <1>1, LocksKept DEF CInv
<1>2. CASE UNCHANGED vars \/ time_irq_timer1 \/ abort \/ ocaml_thread_init \/ resume
  BY <1>2, <1>1
     DEF vars, kernel, program, time_irq_timer1, abort, ocaml_thread_init, resume
<1>3. CASE starter
  <2>1. Kept
    BY <1>0, <1>3 DEF starter
  <2> QED BY <2>1, <1>1
<1>4. ASSUME NEW t \in Threads, NEW th \in Threads, caml_thread_create(t, th)
      PROVE  LInv' /\ CInv'
  <2>1. Kept
    BY <1>0, <1>4 DEF caml_thread_create
  <2> QED BY <2>1, <1>1
<1>5. ASSUME NEW t \in Threads,
             yield(t) \/ caml_thread_signal(t) \/ handler(t) \/ handled(t) \/ return(t)
      PROVE  LInv' /\ CInv'
  <2>1. Kept
    BY <1>5 DEF yield, caml_thread_signal, handler, handled, return, kernel
  <2> QED BY <2>1, <1>1
<1>6. ASSUME NEW t \in Threads, NEW chan \in Channels, caml_io_mutex_lock(t, chan)
      PROVE  LInv' /\ CInv'
  <2>1. at[t] # "locked" /\ channel' = [channel EXCEPT ![t] = chan]
    BY <1>6 DEF caml_io_mutex_lock, InOCaml
  <2>2. CASE lockable(chan)
    <3>1. /\ mutex' = [mutex EXCEPT ![chan] = TRUE] /\ last_channel_locked' = chan
          /\ at' = [at EXCEPT ![t] = "locked"] /\ ~mutex[chan]
      BY <1>6, <2>2 DEF caml_io_mutex_lock, lockable
    <3>2. CInv'
      BY <1>0, <2>1, <3>1 DEF CInv
    <3> QED BY <2>1, <3>1, <3>2, LocksTaken
  <2>3. CASE ~lockable(chan)
    <3>1. at' = [at EXCEPT ![t] = "wait"] /\ UNCHANGED <<mutex, last_channel_locked>>
      BY <1>6, <2>3 DEF caml_io_mutex_lock
    <3>2. Kept
      BY <1>0, <2>1, <3>1
    <3> QED BY <3>2, <1>1
  <2> QED BY <2>2, <2>3
<1>7. ASSUME NEW t \in Threads, caml_io_mutex_unlock(t) \/ caml_io_mutex_unlock_exn(t)
      PROVE  LInv' /\ CInv'
  <2>1. /\ at[t] = "locked" /\ last_channel_locked' = NULL /\ channel' = channel
        /\ at' = [at EXCEPT ![t] = "ocaml"]
    BY <1>7 DEF caml_io_mutex_unlock, caml_io_mutex_unlock_exn, Writing
  <2>2. channel[t] \in Channels
    BY <2>1 DEF CInv
  <2>3. ~mutex'[channel[t]]
    <3>1. CASE caml_io_mutex_unlock(t)
      BY <1>0, <2>2, <3>1 DEF caml_io_mutex_unlock
    <3>2. CASE caml_io_mutex_unlock_exn(t)
      <4>1. mutex'[channel[t]] = (mutex[channel[t]] /\ channel[t] # last_channel_locked)
        BY <2>2, <3>2 DEF caml_io_mutex_unlock_exn, after_raise
      <4> QED BY <2>2, <4>1 DEF LInv
    <3> QED BY <1>7, <3>1, <3>2
  <2>4. CInv'
    BY <1>0, <2>1 DEF CInv
  <2> QED BY <2>1, <2>2, <2>3, <2>4, LocksLeft
<1> QED BY <1>2, <1>3, <1>4, <1>5, <1>6, <1>7 DEF Next, lock

\* The channel is locked exactly when one thread is in an operation on it,
\* also when operations end with an exception, as long as there is one
\* channel and nothing else raises an exception.
THEOREM LockExclusiveAlways ==
  SingleChannel /\ RaiseAnywhere = FALSE => (Spec => []LockExclusive)
<1> SUFFICES ASSUME SingleChannel, RaiseAnywhere = FALSE
             PROVE  Spec => []LockExclusive
  OBVIOUS
<1>1. Init => LInv /\ CInv
  BY ThreadsAssumption DEF Init, LInv, CInv, Holders
<1>2. IInv /\ LInv /\ CInv /\ [Next]_vars => LInv' /\ CInv'
  BY NextLInv
<1>3. ASSUME LInv
      PROVE  LockExclusive
  <2> SUFFICES ASSUME NEW c \in Channels
               PROVE  Cardinality(Holders(c)) = IF mutex[c] THEN 1 ELSE 0
    BY DEF LockExclusive, Holders
  <2> QED BY <1>3, FS_Singleton, FS_EmptySet DEF LInv
<1> QED BY <1>1, <1>2, <1>3, IInvAlways, PTL DEF Spec

-----------------------------------------------------------------------------
(* The ring as the queue of Scheduler.                                     *)

Queue == IF curr_thread = NULL THEN <<Main>> ELSE Walk(cpu)

\* What follows the thread on the processor is the ring, turned by one when
\* curr_thread has not followed yet.
QueueIsRing ==
  IInv /\ curr_thread # NULL =>
    \A q \in [1 .. Cardinality(Alive) -> Alive] :
      Ring(q) => Queue = IF switching THEN Rotated(q, Cardinality(Alive)) ELSE q

\* The queue is read off the ring.
LEMMA RingIsQueue == QueueIsRing
<1> SUFFICES ASSUME IInv, curr_thread # NULL,
                    NEW q \in [1 .. Cardinality(Alive) -> Alive], Ring(q)
             PROVE  Queue = IF switching THEN Rotated(q, Cardinality(Alive)) ELSE q
  BY DEF QueueIsRing
<1>1. PICK n \in Nat : n = Cardinality(Alive) /\ n >= 1
  BY AliveFinite DEF IInv, Halves
<1>2. cpu \in Threads /\ curr_thread \in Alive
  BY DEF IInv, TypeOK, Halves
<1>3. CASE ~switching
  <2>1. Follows(q, cpu)
    BY <1>3, RingFollows DEF IInv, Halves
  <2> QED BY <1>2, <1>3, <2>1, WalkIs DEF Queue
<1>4. CASE switching
  <2> DEFINE r == Rotated(q, n)
  <2>1. \A i \in 1 .. n : r[i] = IF i = n THEN q[1] ELSE q[i + 1]
    BY DEF Rotated
  <2>2. r \in [1 .. n -> Alive]
    BY <1>1 DEF Rotated
  <2> HIDE DEF r
  <2>3. q[1] = curr_thread
    BY DEF Ring
  <2>4. \A i \in 1 .. n : thread[q[i]].next = IF i = n THEN q[1] ELSE q[i + 1]
    BY <1>1 DEF Ring
  <2>5. cpu = thread[curr_thread].next
    BY <1>4 DEF IInv, Halves
  <2>6. ASSUME NEW i \in 1 .. n
        PROVE  r[i] = thread[q[i]].next
    BY <2>1, <2>4
  <2>7. ASSUME NEW i \in 1 .. n
        PROVE  r[i] = IF i = 1 THEN cpu ELSE thread[r[i - 1]].next
    <3>1. CASE i = 1
      BY <3>1, <2>3, <2>5, <2>6
    <3>2. CASE i # 1
      <4>1. i - 1 \in 1 .. n /\ i - 1 # n /\ i - 1 + 1 = i
        BY <3>2
      <4>2. r[i - 1] = q[i]
        BY <4>1, <2>1
      <4> QED BY <3>2, <4>2, <2>6
    <3> QED BY <3>1, <3>2
  <2>8. Follows(r, cpu)
    BY <1>1, <2>2, <2>7 DEF Follows
  <2>9. Walk(cpu) = r
    BY <1>1, <1>2, <2>2, <2>8, WalkIs
  <2> QED BY <1>1, <1>4, <2>9 DEF Queue, r
<1> QED BY <1>3, <1>4

\* The first thread of a sequence goes to its end.
LEMMA RotatedIs ==
  ASSUME NEW n \in Nat, n >= 1, NEW S, NEW q \in [1 .. n -> S]
  PROVE  Rotated(q, n) = Tail(q) \o <<Head(q)>>
<1>1. q \in Seq(S) /\ Len(q) = n /\ q # << >>
  OBVIOUS
<1>2. /\ Tail(q) \in Seq(S) /\ Len(Tail(q)) = n - 1 /\ Head(q) = q[1] /\ q[1] \in S
      /\ \A i \in 1 .. n - 1 : Tail(q)[i] = q[i + 1]
  BY <1>1
<1> DEFINE s == Tail(q)
           u == s \o <<Head(q)>>
<1>3. u \in Seq(S) /\ Len(u) = n
  BY <1>2
<1>4. \A i \in 1 .. n : u[i] = IF i = n THEN q[1] ELSE q[i + 1]
  BY <1>2
<1>5. u = [i \in 1 .. n |-> u[i]]
  BY <1>3
<1> HIDE DEF u
<1>6. [i \in 1 .. n |-> u[i]] = [i \in 1 .. n |-> IF i = n THEN q[1] ELSE q[i + 1]]
  BY <1>4
<1> QED BY <1>5, <1>6, Zenon DEF Rotated, u, s

\* With a new thread behind the first and the turn its own, the new thread
\* is first and its creator last.
LEMMA GrownIs ==
  ASSUME NEW n \in Nat, n >= 1, NEW S, NEW q \in [1 .. n -> S], NEW th \in S
  PROVE  Rotated(Grown(q, th, n), n + 1) = <<th>> \o Tail(q) \o <<Head(q)>>
<1>1. q \in Seq(S) /\ Len(q) = n /\ q # << >>
  OBVIOUS
<1>2. /\ Tail(q) \in Seq(S) /\ Len(Tail(q)) = n - 1 /\ Head(q) = q[1] /\ q[1] \in S
      /\ \A i \in 1 .. n - 1 : Tail(q)[i] = q[i + 1]
  BY <1>1
<1> DEFINE s == Tail(q)
           v == <<th>> \o s
           u == v \o <<Head(q)>>
<1>3. v \in Seq(S) /\ Len(v) = n /\ \A i \in 1 .. n : v[i] = IF i = 1 THEN th ELSE q[i]
  BY <1>2
<1> HIDE DEF v
<1>4. /\ u \in Seq(S) /\ Len(u) = n + 1
      /\ \A i \in 1 .. n + 1 : u[i] = IF i = n + 1 THEN q[1] ELSE IF i = 1 THEN th ELSE q[i]
  BY <1>2, <1>3
<1>5. u = [i \in 1 .. n + 1 |-> u[i]]
  BY <1>4
<1> HIDE DEF u
<1> DEFINE g == Grown(q, th, n)
<1>6. \A i \in 1 .. n + 1 : g[i] = IF i = 1 THEN q[1] ELSE IF i = 2 THEN th ELSE q[i - 1]
  BY DEF Grown
<1> HIDE DEF g
<1>7. ASSUME NEW i \in 1 .. n + 1
      PROVE  u[i] = IF i = n + 1 THEN g[1] ELSE g[i + 1]
  <2>1. 1 \in 1 .. n + 1 /\ g[1] = q[1]
    BY <1>6
  <2>2. CASE i = n + 1
    BY <2>1, <2>2, <1>4
  <2>3. CASE i # n + 1
    <3>1. i + 1 \in 1 .. n + 1 /\ i + 1 # 1 /\ (i + 1 = 2 <=> i = 1) /\ (i + 1) - 1 = i
      BY <2>3
    <3> QED BY <2>3, <3>1, <1>4, <1>6
  <2> QED BY <2>2, <2>3
<1>8. [i \in 1 .. n + 1 |-> u[i]]
        = [i \in 1 .. n + 1 |-> IF i = n + 1 THEN g[1] ELSE g[i + 1]]
  BY <1>7
<1> QED BY <1>5, <1>8, Zenon DEF Rotated, u, v, s, g

\* The queue stays when neither the processor nor the ring turns.
LEMMA QueueKept ==
  ASSUME IInv, IInv', curr_thread # NULL, curr_thread' = curr_thread,
         switching' = switching, Alive' = Alive,
         \A t \in Alive : thread'[t].next = thread[t].next
  PROVE  Queue' = Queue
<1>1. PICK q \in [1 .. Cardinality(Alive) -> Alive] : Ring(q)
  BY DEF IInv
<1>2. Ring(q)'
  BY <1>1, RingKept
<1>3. QueueIsRing /\ QueueIsRing'
  BY RingIsQueue, PTL
<1> QED BY <1>1, <1>2, <1>3 DEF QueueIsRing

\* schedule() gives the next thread of the queue its turn.
LEMMA QueueTurned ==
  ASSUME IInv, IInv', NEW t \in Threads, Running(t), curr_thread # NULL,
         curr_thread' = curr_thread, Alive' = Alive, NEW g, schedule(thread, g)
  PROVE  Queue' = Queue \/ Turns!Yield
<1>1. t = curr_thread /\ t \in Alive /\ t \in Threads /\ ~switching
  BY RunningIs
<1>2. CASE thread[curr_thread].next = curr_thread
  BY <1>1, <1>2, QueueKept DEF schedule
<1>3. CASE thread[curr_thread].next # curr_thread
  <2>1. switching' = TRUE /\ thread' = saved(thread, g)
    BY <1>3 DEF schedule
  <2>2. \A u \in Alive : thread'[u].next = thread[u].next
    BY <2>1, <1>1 DEF saved, IInv, TypeOK, Descriptors, Alive
  <2>3. PICK n \in Nat : n = Cardinality(Alive) /\ n >= 1
    BY <1>1, AliveFinite
  <2>4. PICK q \in [1 .. n -> Alive] : Ring(q)
    BY <2>3 DEF IInv
  <2>5. Ring(q)'
    BY <2>2, <2>4, RingKept
  <2>6. QueueIsRing /\ QueueIsRing'
    BY RingIsQueue, PTL
  <2>7. Queue = q
    BY <1>1, <2>3, <2>4, <2>6 DEF QueueIsRing
  <2>8. Queue' = Rotated(q, n)
    BY <2>1, <2>3, <2>5, <2>6 DEF QueueIsRing
  <2>9. Queue' = Tail(Queue) \o <<Head(Queue)>>
    BY <2>3, <2>7, <2>8, RotatedIs
  <2> QED BY <2>9 DEF Turns!Yield, Queue
<1> QED BY <1>2, <1>3

\* ocaml_thread_init makes Main the whole queue, and nothing else happens to
\* it before that.
LEMMA QueueAlone ==
  ASSUME IInv, IInv', curr_thread = NULL, [Next]_vars
  PROVE  Queue' = Queue
<1>1. /\ cpu = Main /\ ~switching /\ \A t \in Threads : at[t] = IF t = Main THEN "ocaml" ELSE "none"
      /\ Main # NULL /\ Main \in Threads
  BY ThreadsAssumption DEF IInv, Alone
<1>2. CASE ocaml_thread_init
  <2>1. curr_thread' = Main /\ at' = at /\ ~switching'
    BY <1>1, <1>2 DEF ocaml_thread_init, program
  <2>2. Alive' = {Main}
    BY <1>1, <2>1 DEF Alive
  <2>3. Cardinality(Alive)' = 1
    BY <2>2, FS_Singleton
  <2>4. PICK q \in [1 .. 1 -> {Main}] : Ring(q)'
    BY <1>1, <2>1, <2>2, <2>3 DEF IInv
  <2>5. q = <<Main>>
    OBVIOUS
  <2>6. QueueIsRing'
    BY RingIsQueue, PTL
  <2>7. Queue' = q
    BY <1>1, <2>1, <2>2, <2>3, <2>4, <2>6 DEF QueueIsRing
  <2> QED BY <2>5, <2>7 DEF Queue
<1>3. CASE ~ocaml_thread_init
  <2>1. curr_thread' = curr_thread
    BY <1>1, <1>3
       DEF Next, vars, kernel, program, resume, starter, time_irq_timer1, abort,
           caml_thread_create, yield, caml_thread_signal, handler, handled, return, lock,
           caml_io_mutex_lock, caml_io_mutex_unlock, caml_io_mutex_unlock_exn
  <2> QED BY <2>1 DEF Queue
<1> QED BY <1>2, <1>3

\* A new thread runs at once, and its creator comes last.
LEMMA QueueGrows ==
  ASSUME IInv, IInv', curr_thread # NULL, NEW t \in Threads, NEW th \in Threads,
         caml_thread_create(t, th)
  PROVE  Queue' = Queue \/ Turns!Create(th)
<1>1. Running(t) /\ curr_thread' = curr_thread /\ at[th] = "none"
  BY DEF caml_thread_create, InOCaml
<1>2. t = curr_thread /\ t \in Alive /\ ~switching /\ th \notin Alive
  BY <1>1, RunningIs DEF Alive
<1>3. CASE UNCHANGED <<thread, cpu, switching, at>>
  <2>1. Alive' = Alive
    BY <1>3 DEF Alive
  <2> QED BY <1>1, <1>3, <2>1, QueueKept
<1>4. CASE at' = [at EXCEPT ![th] = "fresh"] /\ schedule(linked(th), Entered(t))
  <2>1. PICK n \in Nat : n = Cardinality(Alive) /\ n >= 1
    BY <1>2, AliveFinite
  <2>2. PICK q \in [1 .. n -> Alive] : Ring(q)
    BY <2>1 DEF IInv
  <2>3. /\ Cardinality(Alive)' = n + 1
        /\ Grown(q, th, n) \in [1 .. n + 1 -> Alive']
        /\ Ring(Grown(q, th, n))'
    BY <1>1, <1>4, <2>1, <2>2, RingGrown
  <2>4. switching' = TRUE
    BY <1>1, <1>4, Linked
  <2>5. QueueIsRing /\ QueueIsRing'
    BY RingIsQueue, PTL
  <2>6. Queue = q
    BY <1>2, <2>1, <2>2, <2>5 DEF QueueIsRing
  <2>7. Queue' = Rotated(Grown(q, th, n), n + 1)
    BY <1>1, <2>3, <2>4, <2>5 DEF QueueIsRing
  <2>8. Queue' = <<th>> \o Tail(Queue) \o <<Head(Queue)>>
    <3>1. q \in [1 .. n -> Threads]
      BY <2>2 DEF Alive
    <3>2. Rotated(Grown(q, th, n), n + 1) = <<th>> \o Tail(q) \o <<Head(q)>>
      BY <2>1, <3>1, GrownIs
    <3> QED BY <2>6, <2>7, <3>2, Zenon
  <2>9. \A i \in 1 .. Len(Queue) : Queue[i] # th
    BY <1>2, <2>2, <2>6
  <2> QED BY <2>8, <2>9 DEF Turns!Create, Queue
<1> QED BY <1>3, <1>4 DEF caml_thread_create

\* Every step is a turn of the queue, a new thread in it, or leaves it alone.
LEMMA QueueStep ==
  ASSUME IInv, IInv', [Next]_vars
  PROVE  [Turns!Next]_Queue
<1>1. CASE curr_thread = NULL
  BY <1>1, QueueAlone
<1> SUFFICES ASSUME curr_thread # NULL
             PROVE  Queue' = Queue \/ Turns!Next
  BY <1>1
<1>2. at \in [Threads -> Places]
  BY DEF IInv, TypeOK
<1>3. CASE UNCHANGED vars \/ time_irq_timer1 \/ abort
  <2>1. UNCHANGED <<curr_thread, thread, switching, at>>
    BY <1>3 DEF vars, kernel, program, time_irq_timer1, abort
  <2>2. Alive' = Alive
    BY <2>1 DEF Alive
  <2> QED BY <2>1, <2>2, QueueKept
<1>4. CASE resume \/ starter
  <2>1. PICK q \in [1 .. Cardinality(Alive) -> Alive] : Ring(q)
    BY DEF IInv
  <2>2. /\ curr_thread \in Alive /\ cpu = thread[curr_thread].next /\ switching
        /\ cpu \in Threads
    BY <1>4 DEF IInv, TypeOK, Halves, resume, starter
  <2>3. curr_thread' = thread[curr_thread].next /\ thread' = thread /\ ~switching'
    BY <1>4, <2>2 DEF resume, starter, resumed
  <2>4. Alive' = Alive
    BY <1>2, <1>4, <2>2 DEF resume, starter, Alive
  <2>5. PICK n \in Nat : n = Cardinality(Alive)
    BY AliveFinite
  <2>6. Rotated(q, n) \in [1 .. n -> Alive] /\ Ring(Rotated(q, n))'
    BY <2>1, <2>2, <2>3, <2>4, <2>5, RingTurned
  <2>7. QueueIsRing /\ QueueIsRing'
    BY RingIsQueue, PTL
  <2>8. curr_thread' # NULL
    BY <2>2, <2>3, ThreadsAssumption
  <2>9. Queue = Rotated(q, n)
    BY <2>1, <2>2, <2>5, <2>7 DEF QueueIsRing
  <2>10. Queue' = Rotated(q, n)
    BY <2>3, <2>4, <2>5, <2>6, <2>7, <2>8 DEF QueueIsRing
  <2> QED BY <2>9, <2>10
<1>5. ASSUME NEW t \in Threads, NEW th \in Threads, caml_thread_create(t, th)
      PROVE  Queue' = Queue \/ Turns!Next
  BY <1>5, QueueGrows DEF Turns!Next
<1>6. ASSUME NEW t \in Threads,
             \/ yield(t) \/ handler(t)
             \/ lock(t) /\ ~ UNCHANGED <<thread, cpu, switching>>
      PROVE  Queue' = Queue \/ Turns!Next
  <2>1. Running(t)
    BY <1>6 DEF yield, handler, lock, caml_io_mutex_lock, InOCaml, Writing
  <2>2. at[t] # "none"
    BY <2>1, RunningIs
  <2>3. PICK g : schedule(thread, g)
    BY <1>6 DEF yield, handler, lock, caml_io_mutex_lock, turn
  <2>4. curr_thread' = curr_thread
    BY <1>6 DEF yield, handler, lock, caml_io_mutex_lock
  <2>5. at' = at \/ at' = [at EXCEPT ![t] = "wait"] \/ at' = [at EXCEPT ![t] = "locked"]
    BY <1>6 DEF yield, handler, lock, caml_io_mutex_lock
  <2>6. Alive' = Alive
    BY <1>2, <2>2, <2>5 DEF Alive
  <2> QED BY <2>1, <2>3, <2>4, <2>6, QueueTurned DEF Turns!Next
<1>7. ASSUME NEW t \in Threads,
             \/ caml_thread_signal(t) \/ handled(t) \/ return(t)
             \/ caml_io_mutex_unlock(t) \/ caml_io_mutex_unlock_exn(t)
             \/ lock(t) /\ UNCHANGED <<thread, cpu, switching>>
      PROVE  Queue' = Queue \/ Turns!Next
  <2>1. Running(t)
    BY <1>7 DEF caml_thread_signal, handled, return, caml_io_mutex_unlock,
                caml_io_mutex_unlock_exn, lock, caml_io_mutex_lock, InOCaml, Writing
  <2>2. at[t] # "none"
    BY <2>1, RunningIs
  <2>3. UNCHANGED <<curr_thread, thread, switching>>
    BY <1>7 DEF caml_thread_signal, handled, return, caml_io_mutex_unlock,
                caml_io_mutex_unlock_exn, lock, caml_io_mutex_lock, kernel
  <2>4. \/ at' = at \/ at' = [at EXCEPT ![t] = "wait"] \/ at' = [at EXCEPT ![t] = "locked"]
        \/ at' = [at EXCEPT ![t] = "ocaml"]
    BY <1>7 DEF caml_thread_signal, handled, return, caml_io_mutex_unlock,
                caml_io_mutex_unlock_exn, lock, caml_io_mutex_lock
  <2>5. Alive' = Alive
    BY <1>2, <2>2, <2>4 DEF Alive
  <2> QED BY <2>3, <2>5, QueueKept
<1>8. ~ocaml_thread_init
  BY DEF ocaml_thread_init
<1> QED BY <1>3, <1>4, <1>5, <1>6, <1>7, <1>8 DEF Next

\* The threads take turns in the order of a queue, and a new thread runs at
\* once, its creator last: Thread_stubs.c does what Scheduler promises.
THEOREM SchedulerImplemented == Spec => SchedulerPromise
<1>1. Init => Turns!Init
  BY DEF Init, Turns!Init
<1>2. IInv /\ IInv' /\ [Next]_vars => [Turns!Next]_Queue
  BY QueueStep
<1> QED BY <1>1, <1>2, IInvAlways, PTL DEF Spec, SchedulerPromise, Turns!Spec, Queue

=============================================================================
