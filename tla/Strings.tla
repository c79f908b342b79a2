------------------------------- MODULE Strings -------------------------------
(***************************************************************************)
(* string.c: the functions on memory and strings, one turn of a loop a     *)
(* step, over a short memory.  Pointers are addresses in it, and a char is *)
(* unsigned, as on ARM.                                                    *)
(*                                                                         *)
(* A call is a record of the function and its arguments: dest and src, the *)
(* two pointers (s1 and s2 of the comparisons, s and c of memset), and n.  *)
(***************************************************************************)
EXTENDS Integers

CONSTANTS
  Calls,     \* the <<call, memory>> to be looked at
  CHARS      \* the number of values of a char

VARIABLES
  call,      \* the call
  before,    \* the memory before it
  cells,
  d, s,      \* the two running pointers (p, and q or src, in some functions)
  left,      \* the turns that n still allows
  value,     \* what the function is going to return, 0 where that is dest
  stage      \* "find" while strcat looks for the end of dest, "loop", "done"

strings == <<call, before, cells, d, s, left, value, stage>>

\* Mutant of forward: memory is always moved from its start on.
forward_always(c) == TRUE

\* memmove may start at the front.
forward(c) == c.dest < c.src \/ c.dest - c.src >= c.n

backward(c) == c.fun = "memmove" /\ ~forward(c)

\* Mutant of back: the write comes before the step.
back_late == 0

\* A loop that goes backward steps before it reads and writes.
back == IF backward(call) THEN 1 ELSE 0
step == IF backward(call) THEN -1 ELSE 1
there == cells[s - back]

\* The conditions of the loops.
goes_on ==
  CASE call.fun \in {"memmove", "memcpy", "memset"} -> left > 0
    [] call.fun = "memcmp" -> value = 0 /\ left > 0
    [] call.fun = "strcmp" -> value # 0 /\ cells[d] # 0
    [] call.fun \in {"strcat", "strcpy", "strlen"} -> there # 0

Init ==
  \E c \in Calls :
    /\ call = c[1]
    /\ before = c[2]
    /\ cells = c[2]
    /\ d = IF backward(c[1]) THEN c[1].dest + c[1].n ELSE c[1].dest
    /\ s = IF backward(c[1]) THEN c[1].src + c[1].n ELSE c[1].src
    /\ left = c[1].n
    /\ value = 0
    /\ stage = IF c[1].fun = "strcat" THEN "find" ELSE "loop"

\* strcat goes to the end of dest, and past it.
find_end ==
  /\ stage = "find"
  /\ d' = d + 1
  /\ stage' = IF cells[d] # 0 THEN "find" ELSE "loop"
  /\ UNCHANGED <<call, before, cells, s, left, value>>

\* A turn of the loops that copy.
copy ==
  /\ stage = "loop" /\ goes_on
  /\ call.fun \in {"memmove", "memcpy", "strcat", "strcpy"}
  /\ cells' = [cells EXCEPT ![d - back] = there]
  /\ d' = d + step
  /\ s' = s + step
  /\ left' = left - 1
  /\ UNCHANGED <<call, before, value, stage>>

\* An int in a char.
stored_char(c) == c % CHARS

\* A turn of memset; its c is src.
fill ==
  /\ stage = "loop" /\ goes_on /\ call.fun = "memset"
  /\ cells' = [cells EXCEPT ![d] = stored_char(call.src)]
  /\ d' = d + 1
  /\ left' = left - 1
  /\ UNCHANGED <<call, before, s, value, stage>>

\* A turn of memcmp (strcmp has none: value is 0 when its loop begins).
compare ==
  /\ stage = "loop" /\ goes_on /\ call.fun \in {"memcmp", "strcmp"}
  /\ value' = cells[d] - cells[s]
  /\ d' = d + 1
  /\ s' = s + 1
  /\ left' = left - 1
  /\ UNCHANGED <<call, before, cells, stage>>

\* A turn of strlen.
count ==
  /\ stage = "loop" /\ goes_on /\ call.fun = "strlen"
  /\ value' = value + 1
  /\ s' = s + 1
  /\ UNCHANGED <<call, before, cells, d, left, stage>>

return ==
  /\ stage = "loop" /\ ~goes_on
  /\ stage' = "done"
  /\ UNCHANGED <<call, before, cells, d, s, left, value>>

Next == find_end \/ copy \/ fill \/ compare \/ count \/ return

-----------------------------------------------------------------------------
(* What the functions are to do.                                           *)

\* The length of the string at p in the memory m.
Length(m, p) ==
  CHOOSE k \in {a - p : a \in {a \in DOMAIN m : a >= p /\ m[a] = 0}} :
    \A j \in 0 .. k - 1 : m[p + j] # 0

\* There is a string at p.
Terminated(m, p) == p \in DOMAIN m /\ \E a \in DOMAIN m : a >= p /\ m[a] = 0

\* A memory, and the calls that C allows in it.
Memory(m) ==
  /\ m = [a \in DOMAIN m |-> m[a]] /\ DOMAIN m \subseteq Int
  /\ \A a, b \in DOMAIN m : a .. b \subseteq DOMAIN m
  /\ \A a \in DOMAIN m : m[a] \in 0 .. CHARS - 1

Legal(c, m) ==
  LET area(p, n) == p .. p + n - 1
      string(p) == p .. p + Length(m, p)
      end == c.dest + Length(m, c.dest)
  IN  /\ c.dest \in Int /\ c.src \in Int /\ c.n \in Nat
      /\ c.fun \in {"memmove", "memcpy", "memset", "memcmp",
                   "strlen", "strcmp", "strcpy", "strcat"}
      /\ c.fun \in {"memmove", "memcpy", "memset", "memcmp"} =>
           area(c.dest, c.n) \subseteq DOMAIN m
      /\ c.fun \in {"memmove", "memcpy", "memcmp"} => area(c.src, c.n) \subseteq DOMAIN m
      /\ c.fun = "memcpy" => area(c.dest, c.n) \cap area(c.src, c.n) = {}
      /\ c.fun \in {"strlen", "strcpy", "strcat"} => Terminated(m, c.src)
      /\ c.fun = "strcpy" => /\ c.dest .. c.dest + Length(m, c.src) \subseteq DOMAIN m
                            /\ c.dest .. c.dest + Length(m, c.src) \cap string(c.src) = {}
      /\ c.fun = "strcat" => /\ Terminated(m, c.dest)
                            /\ end .. end + Length(m, c.src) \subseteq DOMAIN m
                            /\ end .. end + Length(m, c.src) \cap string(c.src) = {}

\* The addresses a call may write, those the C standard has it write.
Destination(c) ==
  CASE c.fun \in {"memmove", "memcpy", "memset"} -> c.dest .. c.dest + c.n - 1
    [] c.fun = "strcpy" -> c.dest .. c.dest + Length(before, c.src)
    [] c.fun = "strcat" ->
         LET end == c.dest + Length(before, c.dest)
         IN  end .. end + Length(before, c.src)
    [] OTHER -> {}

\* No function writes outside of what it is to write, in any of its steps,
\* also those that leave out the NUL.
WritesInside ==
  \A a \in DOMAIN cells : cells[a] # before[a] => a \in Destination(call)

\* The place of the first difference of two areas, n if there is none.
Difference(m, p, q, n) ==
  CHOOSE k \in 0 .. n : (k = n \/ m[p + k] # m[q + k])
                        /\ \A j \in 0 .. k - 1 : m[p + j] = m[q + j]

\* memmove moves its area as it was, however source and destination overlap,
\* memcpy where they do not; memcmp orders areas by their first difference,
\* as unsigned chars; memset fills with a char, strlen finds the NUL, strcpy
\* brings over the characters.  (It brings no NUL; of strcat and strcmp there
\* is nothing of the kind to say.)
StringsRight ==
  stage = "done" =>
    LET c == call
        k == Difference(before, c.dest, c.src, c.n)
    IN  CASE c.fun \in {"memmove", "memcpy"} ->
               \A i \in 0 .. c.n - 1 : cells[c.dest + i] = before[c.src + i]
          [] c.fun = "memset" ->
               \A i \in 0 .. c.n - 1 : cells[c.dest + i] = c.src % CHARS
          [] c.fun = "memcmp" ->
               IF k = c.n THEN value = 0
               ELSE value # 0 /\ (value < 0 <=> before[c.dest + k] < before[c.src + k])
          [] c.fun = "strlen" -> value = Length(before, c.src)
          [] c.fun = "strcpy" ->
               \A i \in 0 .. Length(before, c.src) - 1 : cells[c.dest + i] = before[c.src + i]
          [] OTHER -> TRUE

=============================================================================
