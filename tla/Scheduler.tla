------------------------------ MODULE Scheduler ------------------------------
(***************************************************************************)
(* What Thread.ml promises: the threads take turns in the order of a       *)
(* queue, and a new thread runs at once, its creator last.                 *)
(***************************************************************************)
EXTENDS Sequences, Integers

CONSTANTS Threads, Main

VARIABLE queue  \* the thread that runs, then the others in the order they will

Init == queue = <<Main>>

Yield == queue' = Tail(queue) \o <<Head(queue)>>

Create(t) ==
  /\ \A i \in 1 .. Len(queue) : queue[i] # t
  /\ queue' = <<t>> \o Tail(queue) \o <<Head(queue)>>

Next == Yield \/ \E t \in Threads : Create(t)

Spec == Init /\ [][Next]_queue

=============================================================================
