------------------------------- MODULE MCUart -------------------------------
(***************************************************************************)
(* Uart with a text longer than the FIFO, and two interrupts that can fill *)
(* it; what panic and a fatal exception print does not fit either.         *)
(***************************************************************************)
EXTENDS Uart

MCChars == {"a", "b", "c", "d", "e", "p", "q", "r", "x", "y", "z", "0", "1", "2", "3", "4"}
MCText == <<"a", "b", "c", "d", "e">>
MCPanic == <<"p", "q", "r">>
MCLines == << <<"0", "1", "2">>, <<"3", "4">> >>
MCDump == <<"x", "y", "z">>

=============================================================================
