-------------------------------- MODULE Walks --------------------------------
(***************************************************************************)
(* Walks along pointers, functions on nodes: what the properties of lists  *)
(* are stated with.                                                        *)
(***************************************************************************)
EXTENDS Integers

\* The nodes met from those of start on in up to n steps along p.
Reached(start, p, n) ==
  LET met[i \in 0 .. n] ==
        IF i = 0 THEN start ELSE met[i - 1] \cup {p[d] : d \in met[i - 1]}
  IN  met[n]

=============================================================================
