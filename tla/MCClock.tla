------------------------------- MODULE MCClock -------------------------------
(***************************************************************************)
(* Clock with a CLO of 3 bits, that rolls over twice.                *)
(***************************************************************************)
EXTENDS Clock

=============================================================================
