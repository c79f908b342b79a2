----------------------------- MODULE ListIterator -----------------------------
(***************************************************************************)
(* The loop DLIST_ITERATOR_BEGIN ... DLIST_ITERATOR_END of list.h, with    *)
(* bodies that change the list they walk over, as that of test/list.c,     *)
(* which removes the element it is at.                                     *)
(*                                                                         *)
(* The loop saves the last and the next node before a body runs.  A body   *)
(* may remove any other node, and push one that is in no list to the       *)
(* front; removing a saved node is outside of what the macro can do.       *)
(***************************************************************************)
EXTENDS DList, Integers, Sequences

CONSTANT Size  \* the nodes are 1 .. Size

VARIABLES
  links,      \* the pointers of all nodes, as DList has them
  head,       \* the head of the list
  last_, iter_, next_,  \* the variables of the loop
  looping,    \* the loop has not been left
  listed,     \* history: the nodes in the list
  order,      \* history: the list when the loop began
  visited,    \* history: the nodes bodies ran for
  missed      \* history: the nodes removed before their turn came

loop == <<last_, iter_, next_, looping, order, visited>>
iteration == <<links, head, listed, missed, loop>>

Node == 1 .. Size

\* The list 1, ..., k; all other nodes are as dlist_init leaves them.
ring(k) ==
  [next |-> [d \in Node |-> IF d < k THEN d + 1 ELSE IF d = k THEN 1 ELSE d],
   prev |-> [d \in Node |-> IF d = 1 THEN k ELSE IF d <= k THEN d - 1 ELSE d]]

\* Mutant of following: the loop ends before the node it began with.
following_first(l, i, last) == IF l.next[i] = order[1] THEN NULL ELSE l.next[i]

\* What the loop saves at the node i: NULL at the last one.
following(l, i, last) == IF i = last THEN NULL ELSE l.next[i]

\* DLIST_ITERATOR_BEGIN, with the first node.
Init ==
  /\ \E k \in Node :
       /\ links = ring(k)
       /\ listed = 1 .. k
       /\ order = [i \in 1 .. k |-> i]
  /\ head = 1
  /\ last_ = links.prev[head]
  /\ iter_ = head
  /\ next_ = following(links, head, last_)
  /\ looping = TRUE
  /\ visited = <<head>>
  /\ missed = {}

\* A body removes d.
remove(d) ==
  /\ looping /\ d \in listed
  /\ d = iter_ \/ d \notin {last_, next_}
  /\ links' = dlist_remove(links, d)
  /\ head' = dlist_remove_from_head(links, head, d)
  /\ listed' = listed \ {d}
  /\ missed' = missed \cup ({d} \ {visited[i] : i \in DOMAIN visited})
  /\ UNCHANGED loop

\* A body pushes d.
push(d) ==
  /\ looping /\ d \notin listed
  /\ links' = dlist_push(links, head, d)
  /\ head' = d
  /\ listed' = listed \cup {d}
  /\ UNCHANGED <<missed, loop>>

\* The body is through: the loop goes on to the node saved.
again ==
  /\ looping /\ next_ # NULL
  /\ iter_' = next_
  /\ next_' = following(links, next_, last_)
  /\ visited' = Append(visited, next_)
  /\ UNCHANGED <<links, head, listed, missed, last_, looping, order>>

\* There is none: the loop ends.
leave ==
  /\ looping /\ next_ = NULL
  /\ looping' = FALSE
  /\ UNCHANGED <<links, head, listed, missed, last_, iter_, next_, order, visited>>

turn == again \/ leave

Next == turn \/ \E d \in Node : remove(d) \/ push(d)

-----------------------------------------------------------------------------

\* The nodes met from the head on along the pointers p, once around.
walked(p) == Reached(IF head = NULL THEN {} ELSE {head}, p, Size)

\* The body runs once for each node that was in the list when the loop
\* began, in its order, but for those that were removed before their turn;
\* nodes that come to the list meanwhile, and those that come back, are left
\* out.
EachOnce ==
  /\ ~looping => {visited[i] : i \in DOMAIN visited}
                    = {order[i] : i \in DOMAIN order} \ missed
  /\ \A i, j \in DOMAIN visited :
       i < j => \E m, n \in DOMAIN order :
                  m < n /\ visited[i] = order[m] /\ visited[j] = order[n]

\* Whatever bodies remove and push, the list consists of what they left in
\* it, in both directions, and a node that is not in it is in no list.
ListSound ==
  /\ walked(links.next) = listed /\ walked(links.prev) = listed
  /\ \A d \in Node : /\ links.prev[links.next[d]] = d
                     /\ d \notin listed => links.next[d] = d

=============================================================================
