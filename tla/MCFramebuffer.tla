---------------------------- MODULE MCFramebuffer ----------------------------
(***************************************************************************)
(* Framebuffer with a mailbox that one mail fills.                         *)
(***************************************************************************)
EXTENDS Framebuffer

=============================================================================
