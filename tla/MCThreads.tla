------------------------------ MODULE MCThreads ------------------------------
(***************************************************************************)
(* Threads with the main thread and the two that foo.ml creates.           *)
(***************************************************************************)
EXTENDS Threads

CONSTANTS main, t1, t2

MCThreadSet == {main, t1, t2}
MCReturning == {t1}

=============================================================================
