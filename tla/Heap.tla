-------------------------------- MODULE Heap --------------------------------
(***************************************************************************)
(* What memory.h promises the rest of the kernel: malloc, calloc, realloc  *)
(* and free hand out blocks of the arena that never overlap, and a block   *)
(* stays where it is, untouched, until its owner gives it back.            *)
(*                                                                         *)
(* `block` maps the address of each block in use to the number of bytes    *)
(* its owner asked for: the slot and slot_size arrays of test/memory.c.    *)
(***************************************************************************)
EXTENDS Integers

CONSTANTS Lo, Hi,  \* the arena is the addresses Lo .. Hi-1
          Sizes    \* the numbers of bytes a client may ask for

VARIABLE block

\* The bytes at p .. p+s-1 and those at q .. q+t-1 have none in common.
Apart(p, s, q, t) == p + s <= q \/ q + t <= p

\* s bytes at p lie in the arena, apart from all blocks but those in `except`.
Fits(p, s, except) ==
  /\ Lo <= p
  /\ p + s <= Hi
  /\ \A q \in DOMAIN block \ except : q # p /\ Apart(p, s, q, block[q])

With(p, s) == [q \in DOMAIN block \cup {p} |-> IF q = p THEN s ELSE block[q]]
Without(p) == [q \in DOMAIN block \ {p} |-> block[q]]

Init == block = [q \in {} |-> 0]

\* malloc or calloc succeeds.  When it fails nothing changes.
Malloc(s) ==
  \E p \in Lo .. Hi :
    /\ Fits(p, s, {})
    /\ block' = With(p, s)

Free(p) == block' = Without(p)

\* realloc: the block grows or shrinks where it is, moves to where it does
\* not overlap its old self, or is lost when there is no room to move it to.
Realloc(p, s) ==
  \/ /\ Fits(p, s, {p})
     /\ block' = With(p, s)
  \/ \E q \in Lo .. Hi :
       /\ Fits(q, s, {})
       /\ block' = [r \in (DOMAIN block \ {p}) \cup {q} |->
                      IF r = q THEN s ELSE block[r]]
  \/ block' = Without(p)

Next ==
  \/ \E s \in Sizes : Malloc(s)
  \/ \E p \in DOMAIN block : Free(p)
  \/ \E p \in DOMAIN block, s \in Sizes : Realloc(p, s)

Spec == Init /\ [][Next]_block

-----------------------------------------------------------------------------

\* No two blocks in use share a byte: what fill_block and check_block of
\* test/memory.c look for.
Disjoint ==
  \A p, q \in DOMAIN block : p # q => Apart(p, block[p], q, block[q])

=============================================================================
