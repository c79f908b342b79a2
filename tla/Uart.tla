--------------------------------- MODULE Uart ---------------------------------
(***************************************************************************)
(* uart.c: putchar and puts, called by the kernel; in between any two of   *)
(* its steps by the interrupt handler of main.c, which runs with           *)
(* interrupts off and returns; and, in between any two steps of either, by *)
(* the handler of a fatal exception, which ends in abort.  panic prints a  *)
(* last message of the kernel, with interrupts on, and ends in abort too.  *)
(*                                                                         *)
(* The UART is external: a FIFO it takes characters from, a flag that says *)
(* whether the FIFO is full, and a data register; a character written when *)
(* the FIFO is full is lost.                                               *)
(***************************************************************************)
EXTENDS Integers, Sequences, FiniteSets

CONSTANTS
  Chars,      \* the characters there are
  Text,       \* the characters the kernel prints
  Panic,      \* what it prints when it panics: msg
  Lines,      \* the line each interrupt prints: a sequence of strings
  Dump,       \* what the handler of a fatal exception prints
  DEPTH       \* the characters the FIFO holds

ASSUME UartAssumption ==
  /\ Text \in Seq(Chars) /\ Panic \in Seq(Chars) /\ Dump \in Seq(Chars)
  /\ Lines \in Seq(Seq(Chars))
  /\ DEPTH \in Nat \ {0}

VARIABLES
  fifo,       \* the FIFO of the UART
  wire,       \* what it has transmitted
  lost,       \* the characters written to a full FIFO
  left,       \* what each caller of puts has still to print
  ready,      \* whether each caller has seen room in the FIFO
  running,    \* the caller that has the processor, and those interrupted
  panicked,   \* the kernel is in panic
  irqs        \* the number of interrupts so far

vars == <<fifo, wire, lost, left, ready, running, panicked, irqs>>

Callers == {"kernel", "irq", "fatal"}

\* The caller that has the processor.
Runs(c) == Head(running) = c

Init ==
  /\ fifo = <<>> /\ wire = <<>> /\ lost = {}
  /\ left = [c \in Callers |-> IF c = "kernel" THEN Text ELSE <<>>]
  /\ ready = [c \in Callers |-> FALSE]
  /\ running = <<"kernel">>
  /\ panicked = FALSE
  /\ irqs = 0

\* Mutants of room: the flag is not looked at, or taken for its opposite.
room_assumed == TRUE
room_inverted == Len(fifo) = DEPTH

\* UART0_FR does not say that the FIFO is full.
room == Len(fifo) < DEPTH

\* putchar waits in a loop...
putchar_spin(c) ==
  /\ Runs(c) /\ left[c] # <<>> /\ ~ready[c]
  /\ ~room
  /\ UNCHANGED vars

\* ... until it sees room...
putchar_wait(c) ==
  /\ Runs(c) /\ left[c] # <<>> /\ ~ready[c]
  /\ room
  /\ ready' = [ready EXCEPT ![c] = TRUE]
  /\ UNCHANGED <<fifo, wire, lost, left, running, panicked, irqs>>

\* ... and writes its character, the next one of puts.
putchar_write(c) ==
  /\ Runs(c) /\ ready[c]
  /\ IF Len(fifo) < DEPTH
     THEN fifo' = Append(fifo, Head(left[c])) /\ UNCHANGED lost
     ELSE lost' = lost \cup {Head(left[c])} /\ UNCHANGED fifo
  /\ left' = [left EXCEPT ![c] = Tail(@)]
  /\ ready' = [ready EXCEPT ![c] = FALSE]
  /\ UNCHANGED <<wire, running, panicked, irqs>>

\* The UART transmits a character.
transmit ==
  /\ fifo # <<>>
  /\ wire' = Append(wire, Head(fifo))
  /\ fifo' = Tail(fifo)
  /\ UNCHANGED <<lost, left, ready, running, panicked, irqs>>

\* Mutant of interruptible: interrupts are on in the handler of a fatal
\* exception.
interruptible_fatal == ~Runs("irq")

\* Every exception switches interrupts off.
interruptible == Runs("kernel")

\* exception_irq_handler prints its line and returns.
exception_irq ==
  /\ interruptible /\ irqs < Len(Lines)
  /\ running' = <<"irq">> \o running
  /\ irqs' = irqs + 1
  /\ left' = [left EXCEPT !["irq"] = Lines[irqs + 1]]
  /\ UNCHANGED <<fifo, wire, lost, ready, panicked>>

exception_return ==
  /\ Runs("irq") /\ left["irq"] = <<>>
  /\ running' = Tail(running)
  /\ UNCHANGED <<fifo, wire, lost, left, ready, panicked, irqs>>

\* Any other exception: its handler prints its name and the registers, and
\* then there is only abort, with interrupts off.
exception_fatal ==
  /\ "fatal" \notin {running[i] : i \in DOMAIN running}
  /\ running' = <<"fatal">> \o running
  /\ left' = [left EXCEPT !["fatal"] = Dump]
  /\ UNCHANGED <<fifo, wire, lost, ready, panicked, irqs>>

\* The kernel calls panic in between two calls of putchar: its message is
\* the last it prints, and abort does not switch off interrupts.
panic ==
  /\ Runs("kernel") /\ ~ready["kernel"] /\ ~panicked
  /\ panicked' = TRUE
  /\ left' = [left EXCEPT !["kernel"] = Panic]
  /\ UNCHANGED <<fifo, wire, lost, ready, running, irqs>>

\* Who has the processor has nothing left to print.
Quiet == fifo = <<>> /\ left[Head(running)] = <<>> /\ ~Runs("irq")

\* The kernel goes on silently, or the machine is in abort.
idle == Quiet /\ UNCHANGED vars

Next ==
  \/ \E c \in Callers : putchar_spin(c) \/ putchar_wait(c) \/ putchar_write(c)
  \/ transmit \/ exception_irq \/ exception_return
  \/ exception_fatal \/ panic \/ idle

\* The processor and the UART go on; nothing is assumed of exceptions.
Fairness ==
  /\ \A c \in Callers : WF_vars(putchar_wait(c)) /\ WF_vars(putchar_write(c))
  /\ WF_vars(transmit) /\ WF_vars(exception_return)

Spec == Init /\ [][Next]_vars /\ Fairness

-----------------------------------------------------------------------------

\* The characters of the text s, and those of the output that are from s.
Of(s) == {s[i] : i \in DOMAIN s}
Printed == wire \o fifo

\* What of s is in S, in its order.  (SelectSeq, in a form to prove about.)
Only(s, S) ==
  LET upto[i \in 0 .. Len(s)] ==
        IF i = 0 THEN <<>>
        ELSE IF s[i] \in S THEN Append(upto[i - 1], s[i]) ELSE upto[i - 1]
  IN  upto[Len(s)]

PrintedOf(s) == Only(Printed, Of(s))

\* The line of the k-th interrupt is out, or its handler is at it, or has
\* been stopped at it by a fatal exception.
Complete(k) == k < irqs \/ (k = irqs /\ left["irq"] = <<>>)

\* A line an interrupt has printed is whole, and nothing is mixed into it,
\* however full the FIFO was and wherever the kernel was interrupted.
IrqLinesWhole ==
  \A k \in {k \in DOMAIN Lines : Complete(k)} :
    \E i \in 0 .. Len(Printed) - Len(Lines[k]) :
      SubSeq(Printed, i + 1, i + Len(Lines[k])) = Lines[k]

\* A fatal exception has the last word: what its handler has printed is all
\* there, is the end of the output, and stays so.
LastWords ==
  Runs("fatal") \/ left["fatal"] # <<>> =>
    LET said == SubSeq(Dump, 1, Len(Dump) - Len(left["fatal"]))
    IN  /\ Len(said) <= Len(Printed)
        /\ SubSeq(Printed, Len(Printed) - Len(said) + 1, Len(Printed)) = said

\* Each interrupt costs the kernel at most the one character it had seen
\* room for; all others appear, in order, and those of panic to the end.
LossBounded ==
  LET kept(s) == Only(s, Chars \ lost)
  IN  /\ Cardinality(lost) <= irqs
      /\ lost \subseteq Of(Text) \cup Of(Panic)
      /\ IF panicked
         THEN /\ \E n \in 0 .. Len(Text) : PrintedOf(Text) = kept(SubSeq(Text, 1, n))
              /\ PrintedOf(Panic) \o left["kernel"] = kept(Panic)
         ELSE PrintedOf(Text) \o left["kernel"] = kept(Text)

\* putchar waits "for UART to become ready to transmit" before it writes.
NothingLost == lost = {}

\* Whoever has the processor in the end gets all out that it has to say,
\* after panic and after a fatal exception too.
AllPrinted == <>[]Quiet

=============================================================================
