------------------------------ MODULE MCRoutines ------------------------------
(***************************************************************************)
(* Routines with the real regions of memory and images whose bss starts at *)
(* any word; a long of 8 bits and all strings of up to four characters for *)
(* strtol; every combination of flags, types, widths and precisions for a  *)
(* few numbers, and pairs of directives in buffers that end before, in and *)
(* after them; areas of up to four cells that overlap in every way, and    *)
(* strings of up to three characters; lists of up to four nodes.           *)
(***************************************************************************)
EXTENDS Routines

\* The operators of the parts, without their inputs, to define these by.
PrintfOf == INSTANCE Printf WITH Cases <- {}, Chars <- {}
StringsOf == INSTANCE Strings WITH Calls <- {}

MCImages == {<<i, 8>> : i \in 0 .. 7}

Strings(chars, n) == UNION {[1 .. k -> chars] : k \in 0 .. n}

MCChars ==
  {PrintfOf!LOWER[i] : i \in 1 .. 16} \cup {PrintfOf!UPPER[i] : i \in 1 .. 16}
    \cup {"x", "-", "+", " ", "%", "k", "q"}

MCInputs ==
  (Strings({"0", "1", "2", "8", "x", "-", " "}, 4) \X {0, 8, 10, 16})
    \cup ({<<"+", "1">>, <<"1", "2", "7", "9">>} \X {-1, 0, 1, 2, 36, 37})

Flag == {"plus", "left", "alternate", "space", "zeropad"}

Char == [type |-> "char", char |-> "k"]
Percent == [type |-> "%"]
Unknown == [type |-> "?", char |-> "q"]
C == [type |-> "c"]
Str(precision) == [type |-> "s", precision |-> precision]
Num(type, flags, w, p) ==
  [type |-> type, flags |-> flags, width |-> w, precision |-> p, length |-> 1]

Arg(dir) == CASE dir.type = "c" -> "A"
              [] dir.type = "s" -> <<"a", "b">>
              [] dir.type \in PrintfOf!Numbers -> -12
              [] OTHER -> NULL
Args(f) == SelectSeq([i \in DOMAIN f |-> Arg(f[i])], LAMBDA a : a # NULL)

\* Every number, in a buffer large enough.
MCNumbers ==
  {<<"snprintf", <<Num(type, flags, w, p)>>, <<n>>, 12, 12>> :
     type \in PrintfOf!Numbers, flags \in SUBSET Flag, w \in {NULL, -1, 6},
     p \in {NULL, 3}, n \in {0, 9, 300, -3}}

\* Directives that end well in any buffer, and others that need room.
Short == {Char, Percent, Str(1), Str(2), Str(-1)}
Long == Short \cup {C, Str(NULL), Str(3), Unknown, Num("d", {"left"}, 5, NULL),
                    Num("x", {"alternate"}, NULL, NULL)}

MCPairs(fun, dirs) ==
  LET all == {f \in dirs \X dirs : PrintfOf!Separate(f)}
      length(f) == Len(PrintfOf!written(f, Args(f)))
  IN  UNION {{<<fun, f, Args(f), n, n>> :
                n \in (IF f[1] \in Short /\ f[2] \in Short THEN 0 .. 4 ELSE {})
                        \cup {length(f), length(f) + 2}} :
               f \in all}

MCCases == MCNumbers \cup MCPairs("snprintf", Long) \cup MCPairs("printf", Short)
             \cup MCPairs("fprintf", {Char, Str(2)}) \cup MCPairs("sprintf", {Char, Str(2)})

\* A memory of eight cells; calls keep to the inner ones.
Inner == 1 .. 6
Distinct == [a \in 0 .. 7 |-> a]
Call(fun, dest, src, n) == [fun |-> fun, dest |-> dest, src |-> src, n |-> n]

Areas == {<<i, j, n>> \in Inner \X Inner \X (0 .. 4) : i + n <= 7 /\ j + n <= 7}
Apart(a) == a[1] + a[3] <= a[2] \/ a[2] + a[3] <= a[1]

MCMoves ==
  {<<Call("memmove", a[1], a[2], a[3]), Distinct>> : a \in Areas}
    \cup {<<Call("memcpy", a[1], a[2], a[3]), Distinct>> : a \in {a \in Areas : Apart(a)}}
    \cup {<<Call("memset", i, c, n), Distinct>> : i \in 1 .. 3, c \in {-1, 9}, n \in 0 .. 4}

\* Strings from 1 and from 4 on.
Texts == {[a \in 0 .. 7 |-> IF a \in Inner THEN t[a] ELSE 0] : t \in [Inner -> 0 .. 2]}
First(m) == StringsOf!Length(m, 1)
Second(m) == StringsOf!Length(m, 4)

MCStrings ==
  {<<Call(fun, 1, 4, 0), m>> : fun \in {"strlen", "strcmp"}, m \in Texts}
    \cup {<<Call("memcmp", 1, 4, n), m>> : n \in {0, 3}, m \in Texts}
    \cup {<<Call("strcpy", 1, 4, 0), m>> : m \in {m \in Texts : Second(m) < 3}}
    \cup {<<Call("strcat", 1, 4, 0), m>> : m \in {m \in Texts : First(m) + Second(m) < 3}}

MCCalls == MCMoves \cup MCStrings

=============================================================================
