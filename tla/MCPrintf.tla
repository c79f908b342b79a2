------------------------------ MODULE MCPrintf ------------------------------
(***************************************************************************)
(* Printf on a string that does not fit its buffer, and on an unknown      *)
(* placeholder with another one directly behind it.                        *)
(***************************************************************************)
EXTENDS Printf

S == [type |-> "s", precision |-> NULL]
D == [type |-> "d", flags |-> {}, width |-> NULL, precision |-> NULL, length |-> 1]

Q == [type |-> "?", char |-> "q"]

MCChars == {"a", "b", "d", "h", "q", "s", "5"}

MCFull == {<<"snprintf", <<S>>, << <<"a", "b">> >>, n, n>> : n \in {1, 2}}

\* "%q%hhd" and "%q%s".
MCUnknown ==
  {<<"snprintf", <<Q, D>>, <<5>>, 12, 12>>,
   <<"snprintf", <<Q, S>>, << <<"a", "b">> >>, 12, 12>>}

=============================================================================
