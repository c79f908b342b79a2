-------------------------------- MODULE Strtol --------------------------------
(***************************************************************************)
(* strtol of main.c, and what it is to return.  The number is gathered as  *)
(* a negative one, LONG_MIN having no positive counterpart, in one step of *)
(* the model for each digit.                                               *)
(***************************************************************************)
EXTENDS Integers, Sequences, FiniteSets

CONSTANTS
  Inputs,    \* the <<nptr, base>> strtol is called with, nptr not NULL
  LONG_MAX   \* 2^31 - 1

VARIABLES nptr, asked, \* the call: the string and the base
          base,        \* the base in use
          ptr,         \* index of the next digit, or what *endptr will be
          sign, res, errno,
          pc           \* "begin", "digits", "out" or "done"

vars == <<nptr, asked, base, ptr, sign, res, errno, pc>>

LONG_MIN == -LONG_MAX - 1
NUL == "NUL"

\* The character of s at index i, NUL at its end.
char(s, i) == IF i <= Len(s) THEN s[i] ELSE NUL

DIGITS == <<"0", "1", "2", "3", "4", "5", "6", "7", "8", "9">>
ALPHABET == <<"a", "b", "c", "d", "e", "f", "g", "h", "i", "j", "k", "l", "m",
              "n", "o", "p", "q", "r", "s", "t", "u", "v", "w", "x", "y", "z">>
CAPITALS == <<"A", "B", "C", "D", "E", "F", "G", "H", "I", "J", "K", "L", "M",
              "N", "O", "P", "Q", "R", "S", "T", "U", "V", "W", "X", "Y", "Z">>
Index(table, c) == {i \in DOMAIN table : table[i] = c}

\* digit: letters start at 16.
digit(c) ==
  LET value == {i - 1 : i \in Index(DIGITS, c)}
                 \cup {i + 15 : i \in Index(ALPHABET, c) \cup Index(CAPITALS, c)}
  IN  IF value = {} THEN 256 ELSE CHOOSE v \in value : TRUE

isspace(c) == c = " "

\* The first index from i on where p does not hold.
first_not(p(_), s, i) ==
  CHOOSE k \in i .. Len(s) + 1 :
    /\ k = Len(s) + 1 \/ ~p(s[k])
    /\ \A j \in i .. k - 1 : p(s[j])

after_space == first_not(isspace, nptr, 1)
after_plus == IF char(nptr, after_space) = "+" THEN after_space + 1 ELSE after_space
minus == char(nptr, after_plus) = "-"
after_sign == IF minus THEN after_plus + 1 ELSE after_plus

\* "0x" and a hexadecimal digit stand at p.
prefixed(s, p, xs) ==
  char(s, p) = "0" /\ char(s, p + 1) \in xs /\ digit(char(s, p + 2)) < 16

\* The base when it is to be detected.
detected(s, p, b) ==
  IF b # 0 THEN b
  ELSE IF prefixed(s, p, {"x"}) THEN 16
  ELSE IF char(s, p) = "0" THEN 8 ELSE 10

\* Where the digits start, or 1 when nothing at p is a number.
start(s, p, b) ==
  IF b = 16 THEN IF prefixed(s, p, {"x", "X"}) THEN p + 2
                 ELSE IF digit(char(s, p)) <= 16 THEN p ELSE 1
  ELSE IF digit(char(s, p)) < b THEN p ELSE 1

Init ==
  /\ \E c \in Inputs : nptr = c[1] /\ asked = c[2] /\ base = c[2]
  /\ ptr = 1 /\ sign = 1 /\ res = 0 /\ errno = "0" /\ pc = "begin"

\* The sanity check, the space, the sign, and nothing after them.
reject ==
  /\ pc = "begin" /\ (base < 0 \/ base = 1 \/ base > 36)
  /\ errno' = "EINVAL" /\ pc' = "out"
  /\ UNCHANGED <<nptr, asked, base, ptr, sign, res>>

begin ==
  /\ pc = "begin" /\ ~(base < 0 \/ base = 1 \/ base > 36)
  /\ sign' = IF minus THEN -1 ELSE 1
  /\ IF char(nptr, after_sign) = NUL
     THEN pc' = "out" /\ UNCHANGED <<base, ptr>>
     ELSE /\ pc' = "digits"
          /\ base' = detected(nptr, after_sign, base)
          /\ ptr' = start(nptr, after_sign, base')
  /\ UNCHANGED <<nptr, asked, res, errno>>

\* LONG_MIN / base, rounded towards 0 as in C.
min == -((LONG_MAX + 1) \div base)

\* Mutant of fits: the digit is not counted.
fits_nearly(d) == res >= min

fits(d) == res >= min /\ res * base >= LONG_MIN + d

more ==
  /\ pc = "digits"
  /\ LET d == digit(char(nptr, ptr))
     IN  /\ d < base
         /\ IF fits(d) THEN res' = res * base - d /\ UNCHANGED errno
                       ELSE res' = LONG_MIN /\ errno' = "ERANGE"
  /\ ptr' = ptr + 1
  /\ UNCHANGED <<nptr, asked, base, sign, pc>>

end ==
  /\ pc = "digits" /\ digit(char(nptr, ptr)) >= base
  /\ pc' = "out"
  /\ UNCHANGED <<nptr, asked, base, ptr, sign, res, errno>>

\* The value returned is left in res.
out ==
  /\ pc = "out"
  /\ LET none == IF ptr = 1 THEN "EINVAL" ELSE errno
     IN  IF sign = 1 /\ res = LONG_MIN
         THEN res' = LONG_MAX /\ errno' = "ERANGE"
         ELSE res' = -(sign * res) /\ errno' = none
  /\ pc' = "done"
  /\ UNCHANGED <<nptr, asked, base, ptr, sign>>

done == pc = "done" /\ UNCHANGED vars

Next == reject \/ begin \/ more \/ end \/ out \/ done

Spec == Init /\ [][Next]_vars /\ WF_vars(Next)

-----------------------------------------------------------------------------
(* What strtol is to return.                                               *)

\* The value of a digit of a base up to 36.
Digit(c) ==
  LET value == {i - 1 : i \in Index(DIGITS, c)}
                 \cup {i + 9 : i \in Index(ALPHABET, c) \cup Index(CAPITALS, c)}
  IN  IF value = {} THEN 36 ELSE CHOOSE v \in value : TRUE

\* The number s starts with in base b, its digits taken from index i on.
Number(s, i, b) ==
  LET stop == first_not(LAMBDA c : Digit(c) < b, s, i)
      upto[k \in i - 1 .. stop - 1] ==
        IF k < i THEN 0 ELSE upto[k - 1] * b + Digit(s[k])
  IN  [value |-> upto[stop - 1], stop |-> stop]

\* Space, at most one sign, "0x" of a hexadecimal number, digits: the value
\* is that of the digits, or the nearest long there is.
Expected(s, b) ==
  LET i == first_not(isspace, s, 1)
      negative == char(s, i) = "-"
      j == IF char(s, i) \in {"+", "-"} THEN i + 1 ELSE i
      hex == char(s, j) = "0" /\ char(s, j + 1) \in {"x", "X"}
               /\ Digit(char(s, j + 2)) < 16
      real == IF b # 0 THEN b ELSE IF hex THEN 16
              ELSE IF char(s, j) = "0" THEN 8 ELSE 10
      k == IF hex /\ real = 16 THEN j + 2 ELSE j
      n == Number(s, k, real)
      value == IF negative THEN -n.value ELSE n.value
  IN  IF b < 0 \/ b = 1 \/ b > 36 \/ n.stop = k
      THEN <<0, 1, "EINVAL">>
      ELSE IF value < LONG_MIN THEN <<LONG_MIN, n.stop, "ERANGE">>
      ELSE IF value > LONG_MAX THEN <<LONG_MAX, n.stop, "ERANGE">>
      ELSE <<value, n.stop, "0">>

\* strtol returns the number its argument starts with in the base asked for
\* or detected, where that ends, and whether there was one and it fitted: at
\* both ends of the range, in the digits that make it overflow, and for
\* prefixes that no digit follows.
Right == pc = "done" => <<res, ptr, errno>> = Expected(nptr, asked)

=============================================================================
