-------------------------------- MODULE Clock --------------------------------
(***************************************************************************)
(* Time_stubs.c: the tocks of the system timer, and the reading of its     *)
(* 64-bit counter in two halves.                                           *)
(*                                                                         *)
(* The timer is external: a counter read as CHI and CLO, a compare         *)
(* register C1, and the flag MATCH1, set when CLO becomes C1 and cleared   *)
(* by writing it, which interrupts the processor when enabled.  Time goes  *)
(* on between any two accesses.                                            *)
(***************************************************************************)
EXTENDS Integers

CONSTANTS
  WORD,            \* 2^32: what CLO counts to
  TICKS_PER_TOCK,
  LATENCY,         \* bound: the ticks from a match to the end of the handler
  HORIZON,         \* bound: how long time goes on
  NULL

ASSUME ClockAssumption ==
  /\ WORD \in Nat /\ HORIZON \in Nat
  /\ NULL \notin Int \cup {"c1", "ctrl", "record"}
  /\ TICKS_PER_TOCK \in 1 .. WORD - 1
  /\ LATENCY \in 0 .. TICKS_PER_TOCK - 1

VARIABLES
  now,       \* the counter
  c1, match, \* TIMER_C1 and MATCH1
  irq,       \* where the handler is: NULL, or what it has still to do
  began,     \* the time of caml_time_init, NULL before
  tocks,     \* the signals recorded
  matched,   \* the time of the match not yet handled
  hi, lo,    \* what caml_time_time has read, NULL before
  asked      \* the time caml_time_time was called, NULL when it is not

vars == <<now, c1, match, irq, began, tocks, matched, hi, lo, asked>>
timer == <<c1, match, irq, began, tocks, matched>>
reader == <<hi, lo, asked>>

CHI == now \div WORD
CLO == now % WORD

Init ==
  /\ now \in 0 .. WORD - 1
  /\ c1 = 0 /\ match \in BOOLEAN
  /\ irq = NULL /\ began = NULL /\ tocks = 0 /\ matched = NULL
  /\ hi = NULL /\ lo = NULL /\ asked = NULL

\* Time goes on, unless the handler would be later than LATENCY.
tick ==
  /\ now < HORIZON
  /\ matched # NULL => now - matched < LATENCY
  /\ now' = now + 1
  /\ match' = (match \/ CLO' = c1)
  /\ matched' = IF began # NULL /\ CLO' = c1 THEN now' ELSE matched
  /\ UNCHANGED <<c1, irq, began, tocks, reader>>

stopped == now = HORIZON /\ UNCHANGED vars

\* The first match is set a tock from now; one left over is cleared.
caml_time_init ==
  /\ began = NULL
  /\ began' = now
  /\ c1' = (CLO + TICKS_PER_TOCK) % WORD
  /\ match' = FALSE
  /\ UNCHANGED <<now, irq, tocks, matched, reader>>

\* time_irq_timer1: the next match, the acknowledgement, the signal.
enter ==
  /\ irq = NULL /\ match /\ began # NULL
  /\ irq' = "c1"
  /\ UNCHANGED <<now, c1, match, began, tocks, matched, reader>>

\* Mutant of next_match: a tock from the time the handler runs.
next_match_late == (CLO + TICKS_PER_TOCK) % WORD

next_match == (c1 + TICKS_PER_TOCK) % WORD

set_match ==
  /\ irq = "c1"
  /\ c1' = next_match
  /\ irq' = "ctrl"
  /\ UNCHANGED <<now, match, began, tocks, matched, reader>>

acknowledge ==
  /\ irq = "ctrl"
  /\ match' = FALSE
  /\ irq' = "record"
  /\ UNCHANGED <<now, c1, began, tocks, matched, reader>>

record ==
  /\ irq = "record"
  /\ tocks' = tocks + 1
  /\ irq' = NULL
  /\ matched' = NULL
  /\ UNCHANGED <<now, c1, match, began, reader>>

\* caml_time_time.  The reads of CHI and CLO are not volatile: the compiler
\* may make them in either order.
ask ==
  /\ asked = NULL
  /\ asked' = now
  /\ UNCHANGED <<now, timer, hi, lo>>

read_hi ==
  /\ asked # NULL /\ hi = NULL
  /\ hi' = CHI
  /\ UNCHANGED <<now, timer, lo, asked>>

read_lo ==
  /\ asked # NULL /\ lo = NULL
  /\ lo' = CLO
  /\ UNCHANGED <<now, timer, hi, asked>>

answer ==
  /\ hi # NULL /\ lo # NULL
  /\ hi' = NULL /\ lo' = NULL /\ asked' = NULL
  /\ UNCHANGED <<now, timer>>

Next ==
  \/ tick \/ stopped \/ caml_time_init
  \/ enter \/ set_match \/ acknowledge \/ record
  \/ ask \/ read_hi \/ read_lo \/ answer

Spec == Init /\ [][Next]_vars

-----------------------------------------------------------------------------

\* As many signals have been recorded as tocks have passed since
\* caml_time_init, but for one the handler is late with: lateness does not
\* add up, and neither the match before caml_time_init nor the rollover of
\* CLO makes one more or less.
OnTime ==
  began # NULL =>
    tocks = (now - began) \div TICKS_PER_TOCK - (IF matched = NULL THEN 0 ELSE 1)

\* Mutant of time: the halves are swapped.
time_swapped == lo * WORD + hi

\* The time caml_time_time puts together.
time == hi * WORD + lo

\* The time caml_time_time puts together, and has still to split into seconds
\* and microseconds, is between its call and now, or, when CLO has rolled over in the meantime,
\* a rollover off.
ReadingClose ==
  hi # NULL /\ lo # NULL =>
    \/ time \in asked .. now
    \/ /\ asked \div WORD < now \div WORD
       /\ time - WORD \in asked .. now \/ time + WORD \in asked .. now

=============================================================================
