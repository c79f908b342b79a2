------------------------------- MODULE DList -------------------------------
(***************************************************************************)
(* The operations of list.h on doubly linked cyclic lists.                 *)
(*                                                                         *)
(* A DList node is any value d; the pointers of all nodes are one record   *)
(* l = [next, prev] of two functions on nodes, so that an operation of     *)
(* list.h, a sequence of assignments through pointers, is an operator from *)
(* such a record to the next one.  A list is known by its head, the NULL   *)
(* value standing for the empty list.                                      *)
(***************************************************************************)
EXTENDS Walks

CONSTANT NULL  \* the head of an empty list: no node

\* dlist_init: d becomes a list of one node.
dlist_init(l, d) ==
  [next |-> [l.next EXCEPT ![d] = d],
   prev |-> [l.prev EXCEPT ![d] = d]]

\* dlist_insert_after: the whole ring of d2 is spliced in after d1.
dlist_insert_after(l, d1, d2) ==
  LET n1 == l.next[d1]
      e2 == l.prev[d2]
  IN  [next |-> [l.next EXCEPT ![d1] = d2, ![e2] = n1],
       prev |-> [l.prev EXCEPT ![d2] = d1, ![n1] = e2]]

\* dlist_insert_before: the whole ring of d2 is spliced in before d1.
dlist_insert_before(l, d1, d2) ==
  LET e1 == l.prev[d1]
      e2 == l.prev[d2]
  IN  [next |-> [l.next EXCEPT ![e1] = d2, ![e2] = d1],
       prev |-> [l.prev EXCEPT ![d2] = e1, ![d1] = e2]]

\* dlist_remove: d leaves its ring and becomes a list of one node.
dlist_remove(l, d) ==
  LET n == l.next[d]
      p == l.prev[d]
  IN  [next |-> [l.next EXCEPT ![p] = n, ![d] = d],
       prev |-> [l.prev EXCEPT ![n] = p, ![d] = d]]

\* dlist_push (DLIST_PUSH): the ring of d goes to the front of the list
\* `head`; the new head is d.
dlist_push(l, head, d) ==
  IF head # NULL THEN dlist_insert_before(l, head, d) ELSE l

\* Mutant of dlist_pop_head: the last node stays the head.
dlist_pop_head_stale(l, d) == l.next[d]

\* dlist_pop (DLIST_POP): what the head becomes when the front node d is
\* popped; the node itself goes by dlist_remove.
dlist_pop_head(l, d) ==
  IF l.next[d] = d THEN NULL ELSE l.next[d]

\* Mutant of dlist_remove_from_head: the head is not advanced.
dlist_remove_from_head_stale(l, head, d) == head

\* dlist_remove_from (DLIST_REMOVE_FROM): what the head becomes when d goes.
dlist_remove_from_head(l, head, d) ==
  IF head = d THEN dlist_pop_head(l, d) ELSE head

=============================================================================
