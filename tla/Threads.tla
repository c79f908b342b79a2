------------------------------- MODULE Threads -------------------------------
(***************************************************************************)
(* Thread_stubs.c: the threads of the OCaml program, the scan of their     *)
(* stacks by the garbage collector, and the locks of the I/O channels.     *)
(*                                                                         *)
(* One processor runs all threads.  A switch takes place in schedule(),    *)
(* and in two halves: switch_thread leaves the stack of one thread for     *)
(* that of the next, and only what runs there makes curr_thread and the    *)
(* global variables of the OCaml runtime follow.  schedule() is called by  *)
(* Thread.yield, by a thread that waits for a channel, by create, and by   *)
(* the handler the program sets for signal 0 (foo.ml), which the timer     *)
(* interrupt records and the runtime calls when the running thread next    *)
(* looks for signals: when it allocates, and when it is about to write the *)
(* channel it has locked.                                                  *)
(*                                                                         *)
(* The eight global variables saved and loaded with each switch (the       *)
(* bottom of the OCaml stack, the return address, the local roots...) are  *)
(* one value, a context: which thread entered C, and how deep.             *)
(***************************************************************************)
EXTENDS Integers, FiniteSets, Sequences

CONSTANTS
  Threads,        \* the thread descriptors there may be
  Main,           \* the thread that initialises the module
  Channels,       \* the I/O channels the threads write to
  NULL,
  Returning,      \* the threads whose function may return
  RaiseAnywhere   \* whether a thread may raise an exception in C code
                  \* outside the channel operations

ASSUME ThreadsAssumption ==
  /\ IsFiniteSet(Threads) /\ Main \in Threads
  /\ NULL \notin Threads \cup Channels \cup (Threads \X {1, 2})
  /\ Returning \subseteq Threads \ {Main}
  /\ RaiseAnywhere \in BOOLEAN

VARIABLES
  curr_thread,
  thread,      \* the descriptors: [next, prev, stack, context]
  globals,     \* the context the global variables hold
  last_channel_locked,
  mutex,       \* whether the mutex of each channel is locked
  cpu,         \* the thread on whose stack the processor is
  switching,   \* it has just got there, from switch_thread
  at,          \* where each thread is, or goes on after schedule()
  channel,     \* the channel it waits for or writes to
  handling,    \* whether it is in the signal handler, called from there
  pending,     \* signal 0 is recorded
  halted       \* the machine is in abort

kernel == <<curr_thread, thread, globals, last_channel_locked, mutex>>
program == <<cpu, switching, at, channel, handling, pending, halted>>
vars == <<kernel, program>>

Places == {"none", "fresh", "ocaml", "wait", "locked"}

Contexts == {NULL} \cup (Threads \X {1, 2})

\* The context of a thread that has entered C from its own code, or from
\* the handler that was called from there.
Entered(t) == <<t, 1>>
Nested(t) == <<t, 2>>

Running(t) == cpu = t /\ ~switching /\ ~halted

\* t runs code of its own, in OCaml or in C.
InOCaml(t) == Running(t) /\ at[t] = "ocaml" /\ ~handling[t]
Writing(t) == Running(t) /\ at[t] = "locked" /\ ~handling[t]

Alive == {t \in Threads : at[t] # "none"}

-----------------------------------------------------------------------------
(* schedule                                                                *)

\* Mutant of saved: the global variables are not saved.
saved_stack_only(d, g) == [d EXCEPT ![curr_thread].stack = cpu]

\* The descriptors d after the first half of schedule(), called by the
\* running thread when the global variables hold g.
saved(d, g) ==
  [d EXCEPT ![curr_thread].context = g, ![curr_thread].stack = cpu]

\* schedule() up to the switch, on the descriptors d.  With no thread to
\* switch to, it returns.
schedule(d, g) ==
  /\ globals' = g
  /\ IF curr_thread # NULL /\ d[curr_thread].next # curr_thread
     THEN /\ thread' = saved(d, g)
          /\ cpu' = d[d[curr_thread].next].stack
          /\ switching' = TRUE
     ELSE /\ thread' = d
          /\ UNCHANGED <<cpu, switching>>

\* Mutant of resumed: curr_thread is not advanced.
resumed_stale == curr_thread

\* schedule() after the switch, in the thread switched to.
resumed == thread[curr_thread].next

resume ==
  /\ switching /\ at[cpu] # "fresh"
  /\ curr_thread' = resumed
  /\ globals' = thread[resumed].context
  /\ switching' = FALSE
  /\ UNCHANGED <<thread, last_channel_locked, mutex, cpu, at, channel,
                 handling, pending, halted>>

\* The same for a thread that has not run before: its frame, built by
\* caml_thread_create, leads to starter, which calls the closure.
starter ==
  /\ switching /\ at[cpu] = "fresh"
  /\ curr_thread' = cpu
  /\ globals' = thread[cpu].context
  /\ switching' = FALSE
  /\ at' = [at EXCEPT ![cpu] = "ocaml"]
  /\ UNCHANGED <<thread, last_channel_locked, mutex, cpu, channel, handling,
                 pending, halted>>

\* The closure of t returns to starter, which crashes the machine.
return(t) ==
  /\ InOCaml(t) /\ t \in Returning
  /\ halted' = TRUE
  /\ UNCHANGED <<kernel, cpu, switching, at, channel, handling, pending>>

\* abort blinks for ever.
abort == halted /\ UNCHANGED vars

-----------------------------------------------------------------------------
(* ocaml_thread_init, caml_thread_create, Thread.yield                     *)

\* Mutant of initial: the stack built for the thread is not recorded.
initial_stackless(n, p, s) ==
  [next |-> n, prev |-> p, stack |-> NULL, context |-> NULL]

\* A descriptor between n and p in the ring, with the stack s.
initial(n, p, s) == [next |-> n, prev |-> p, stack |-> s, context |-> NULL]

\* A second call does nothing.
ocaml_thread_init ==
  /\ InOCaml(Main) /\ curr_thread = NULL
  /\ curr_thread' = Main
  /\ thread' = [thread EXCEPT ![Main] = initial(Main, Main, NULL)]
  /\ globals' = Entered(Main)
  /\ UNCHANGED <<last_channel_locked, mutex, program>>

\* Mutant of linked: th is linked in before the current thread.
linked_last(th) ==
  LET before == thread[curr_thread].prev
      added == [thread EXCEPT ![th] = initial(curr_thread, before, th)]
  IN  [[added EXCEPT ![before].next = th] EXCEPT ![curr_thread].prev = th]

\* The descriptors once th is linked in behind the current thread.
linked(th) ==
  LET after == thread[curr_thread].next
      added == [thread EXCEPT ![th] = initial(after, curr_thread, th)]
  IN  [[added EXCEPT ![after].prev = th] EXCEPT ![curr_thread].next = th]

\* t creates th and switches to it at once, or there is no memory for it; that
\* the answer is then 0, which is no OCaml value, is left out.
caml_thread_create(t, th) ==
  /\ InOCaml(t) /\ curr_thread # NULL /\ at[th] = "none"
  /\ \/ /\ at' = [at EXCEPT ![th] = "fresh"]
        /\ schedule(linked(th), Entered(t))
     \/ /\ globals' = Entered(t)
        /\ UNCHANGED <<thread, cpu, switching, at>>
  /\ UNCHANGED <<curr_thread, last_channel_locked, mutex, channel, handling,
                 pending, halted>>

yield(t) ==
  /\ InOCaml(t)
  /\ schedule(thread, Entered(t))
  /\ UNCHANGED <<curr_thread, last_channel_locked, mutex, at, channel,
                 handling, pending, halted>>

-----------------------------------------------------------------------------
(* The timer interrupt and the handler of foo.ml                           *)

time_irq_timer1 ==
  /\ curr_thread # NULL /\ ~pending /\ ~halted
  /\ pending' = TRUE
  /\ UNCHANGED <<kernel, cpu, switching, at, channel, handling, halted>>

\* Thread.signal: t records signal 0 itself.
caml_thread_signal(t) ==
  /\ InOCaml(t) /\ curr_thread # NULL
  /\ pending' = TRUE
  /\ globals' = Entered(t)
  /\ UNCHANGED <<curr_thread, thread, last_channel_locked, mutex, cpu,
                 switching, at, channel, handling, halted>>

handler(t) ==
  /\ InOCaml(t) \/ Writing(t)
  /\ pending
  /\ pending' = FALSE
  /\ handling' = [handling EXCEPT ![t] = TRUE]
  /\ schedule(thread, Nested(t))
  /\ UNCHANGED <<curr_thread, last_channel_locked, mutex, at, channel, halted>>

\* The handler returns to the C code of the runtime that called it, which
\* restores the context it had saved on the stack.
handled(t) ==
  /\ Running(t) /\ handling[t]
  /\ handling' = [handling EXCEPT ![t] = FALSE]
  /\ globals' = Entered(t)
  /\ UNCHANGED <<curr_thread, thread, last_channel_locked, mutex, cpu,
                 switching, at, channel, pending, halted>>

-----------------------------------------------------------------------------
(* The hooks for I/O locking, set by ocaml_thread_init                     *)

\* Mutant of lockable: the mutex is not looked at.
lockable_always(chan) == TRUE

lockable(chan) == ~mutex[chan]

\* Mutant of turn: the loop spins without giving the others a turn.
turn_kept(t) == globals' = Entered(t) /\ UNCHANGED <<thread, cpu, switching>>

turn(t) == schedule(thread, Entered(t))

\* One turn of the loop of caml_io_mutex_lock: the mutex is taken, or the
\* other threads are given a turn.
caml_io_mutex_lock(t, chan) ==
  /\ curr_thread # NULL
  /\ \/ InOCaml(t)
     \/ Running(t) /\ at[t] = "wait" /\ channel[t] = chan
  /\ channel' = [channel EXCEPT ![t] = chan]
  /\ \/ /\ lockable(chan)
        /\ mutex' = [mutex EXCEPT ![chan] = TRUE]
        /\ last_channel_locked' = chan
        /\ at' = [at EXCEPT ![t] = "locked"]
        /\ globals' = Entered(t)
        /\ UNCHANGED <<thread, cpu, switching>>
     \/ /\ ~lockable(chan)
        /\ at' = [at EXCEPT ![t] = "wait"]
        /\ turn(t)
        /\ UNCHANGED <<mutex, last_channel_locked>>
  /\ UNCHANGED <<curr_thread, handling, pending, halted>>

\* t is done with its channel.
caml_io_mutex_unlock(t) ==
  /\ Writing(t)
  /\ mutex' = [mutex EXCEPT ![channel[t]] = FALSE]
  /\ last_channel_locked' = NULL
  /\ at' = [at EXCEPT ![t] = "ocaml"]
  /\ UNCHANGED <<curr_thread, thread, globals, cpu, switching, channel,
                 handling, pending, halted>>

\* Mutant of after_raise: the channel stays locked.
after_raise_locked == mutex

\* The mutexes once the channel locked last is unlocked.
after_raise == [c \in Channels |-> mutex[c] /\ c # last_channel_locked]

\* C code raises an exception in t.
caml_io_mutex_unlock_exn(t) ==
  /\ Writing(t) \/ (RaiseAnywhere /\ InOCaml(t))
  /\ mutex' = after_raise
  /\ last_channel_locked' = NULL
  /\ at' = [at EXCEPT ![t] = "ocaml"]
  /\ globals' = Entered(t)
  /\ UNCHANGED <<curr_thread, thread, cpu, switching, channel, handling,
                 pending, halted>>

-----------------------------------------------------------------------------

Init ==
  /\ curr_thread = NULL
  /\ thread = [t \in Threads |-> initial(NULL, NULL, NULL)]
  /\ globals = NULL
  /\ last_channel_locked = NULL
  /\ mutex = [c \in Channels |-> FALSE]
  /\ cpu = Main
  /\ switching = FALSE
  /\ at = [t \in Threads |-> IF t = Main THEN "ocaml" ELSE "none"]
  /\ channel \in [Threads -> {NULL}]
  /\ handling = [t \in Threads |-> FALSE]
  /\ pending = FALSE
  /\ halted = FALSE

lock(t) == \E c \in Channels : caml_io_mutex_lock(t, c)
await(t) == at[t] = "wait" /\ lock(t)

Next ==
  \/ ocaml_thread_init \/ resume \/ starter \/ time_irq_timer1 \/ abort
  \/ \E t \in Threads :
       \/ \E th \in Threads : caml_thread_create(t, th)
       \/ yield(t) \/ caml_thread_signal(t) \/ handler(t) \/ handled(t)
       \/ return(t)
       \/ lock(t) \/ caml_io_mutex_unlock(t) \/ caml_io_mutex_unlock_exn(t)

Spec == Init /\ [][Next]_vars

\* The processor goes on, the timer keeps ticking, and a thread that runs
\* again and again does not put off for ever what each turn lets it do: look
\* for signals (every loop of foo.ml allocates) and finish its write (a tick
\* lasts longer than a write).
Fairness ==
  /\ WF_vars(ocaml_thread_init) /\ WF_vars(resume) /\ WF_vars(starter)
  /\ WF_vars(time_irq_timer1)
  /\ \A t \in Threads : /\ WF_vars(handled(t)) /\ WF_vars(await(t))
                        /\ SF_vars(handler(t)) /\ SF_vars(caml_io_mutex_unlock(t))

FairSpec == Spec /\ Fairness

-----------------------------------------------------------------------------
(* What the garbage collector sees.                                        *)

\* The threads met from t on along next, as far as there are threads.
Walk(t) ==
  LET met[i \in 1 .. Cardinality(Alive)] ==
        IF i = 1 THEN t ELSE thread[met[i - 1]].next
  IN  met

\* The contexts caml_thread_scan_roots scans for the threads that do not run.
caml_thread_scan_roots ==
  {thread[th].context : th \in {Walk(curr_thread)[i] : i \in DOMAIN Walk(curr_thread)}
                                 \ {curr_thread}} \ {NULL}

-----------------------------------------------------------------------------
(* Invariants.                                                             *)

Descriptors == [next : Threads \cup {NULL}, prev : Threads \cup {NULL},
                stack : Threads \cup {NULL}, context : Contexts]

\* The type invariant: pointers are to threads and channels, and the
\* processor is never on the stack of no thread.
TypeOK ==
  /\ curr_thread \in Threads \cup {NULL}
  /\ thread \in [Threads -> Descriptors]
  /\ globals \in Contexts
  /\ last_channel_locked \in Channels \cup {NULL}
  /\ mutex \in [Channels -> BOOLEAN]
  /\ cpu \in Threads
  /\ switching \in BOOLEAN
  /\ at \in [Threads -> Places]
  /\ channel \in [Threads -> Channels \cup {NULL}]
  /\ handling \in [Threads -> BOOLEAN]
  /\ pending \in BOOLEAN
  /\ halted \in BOOLEAN

\* The context t has in C: that of the innermost call it made from OCaml.
Context(t) == IF handling[t] THEN Nested(t) ELSE Entered(t)

\* curr_thread and the global variables are those of the thread that runs,
\* whatever path of switches led back to it, and every other thread is on its
\* own stack when switched to, in its own context.
OwnContext ==
  curr_thread # NULL /\ ~switching =>
    /\ curr_thread = cpu
    /\ (at[cpu] # "ocaml" \/ handling[cpu]) => globals = Context(cpu)
    /\ \A t \in Alive \ {cpu} : thread[t].stack = t

\* A garbage collection, which can happen whenever a thread runs, scans the
\* stacks of all other threads exactly as far as they are in use, and finds
\* no thread whose closure only its unscanned first frame holds ("start
\* thread before the GC can clean up the closure").
ScanExact ==
  curr_thread # NULL /\ ~switching =>
    caml_thread_scan_roots = {Context(t) : t \in Alive \ {cpu}}

\* A channel is locked exactly when one thread is in an operation on it.
LockExclusive ==
  \A c \in Channels :
    Cardinality({t \in Threads : at[t] = "locked" /\ channel[t] = c})
      = IF mutex[c] THEN 1 ELSE 0

-----------------------------------------------------------------------------
(* Properties of behaviours.                                               *)

\* The ring of descriptors is the queue of Scheduler: seen from the thread
\* that runs, next leads through all the threads in the order they will run.
Turns == INSTANCE Scheduler
  WITH queue <- IF curr_thread = NULL THEN <<Main>> ELSE Walk(cpu)

SchedulerPromise == Turns!Spec

\* Every thread gets its turn, again and again, however the threads wait for
\* channels and whoever the handler interrupts, unless a thread returns and
\* the machine stops.
EveryThreadRuns == \A t \in Threads : at[t] # "none" ~> cpu = t \/ halted

\* A channel does not stay locked, nor, in consequence, do all threads come
\* to wait for it.
LockReleased == \A c \in Channels : mutex[c] ~> ~mutex[c] \/ halted

=============================================================================
