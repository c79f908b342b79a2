-------------------------------- MODULE Printf --------------------------------
(***************************************************************************)
(* printf.c: vsnprintf and its helper sprint_int, and the functions on top *)
(* of it: printf and snprintf there, fprintf and sprintf of main.c.        *)
(*                                                                         *)
(* A format is the sequence of its directives, parsed: an ordinary         *)
(* character, or a conversion with its flags, width, precision and length. *)
(* Each directive is a few loops, one after the other, and a turn of a     *)
(* loop is one buf_add: it advances buf, and stores a character if buf has *)
(* not reached end.  buf_add is a macro whose argument is only evaluated   *)
(* when there is room, so that a loop that advances in the argument stands *)
(* still once the buffer is full.                                          *)
(***************************************************************************)
EXTENDS Integers, Sequences, FiniteSets

CONSTANTS
  Cases,    \* the calls: <<caller, format, args, size, space>>
  Chars,    \* the characters there are, but for the NUL
  NULL,
  BUF_CAP   \* bound: how far beyond end buf is followed

VARIABLES
  caller,   \* the function that calls vsnprintf
  format,   \* the directives still to come
  args,     \* the arguments not taken yet
  loops,    \* the loops still to run of the present one
  buf,      \* the characters counted so far
  memory,   \* the cells from just before the buffer on
  size,     \* what vsnprintf is told of the buffer...
  space,    \* ... and the cells there are
  result,   \* what vsnprintf returns, NULL before
  outcome,  \* what the caller does with it: puts, panic or return, NULL before
  text      \* what the whole format stands for

vars == <<caller, format, args, loops, buf, memory, size, space, result, outcome,
          text>>

\* How it was called.
entry == <<caller, size, space>>

NUL == "NUL"

-----------------------------------------------------------------------------
(* The loops of a directive.                                               *)

\* A loop over chars.  kind "plain" advances with each turn; "once" only
\* when there is room; "bounded" has at most left turns, and takes its next
\* character only when there is room.
loop(kind, chars) == [kind |-> kind, chars |-> chars, left |-> Len(chars)]

times(n, c) == [i \in 1 .. n |-> c]
largest(m, n) == IF m < n THEN n ELSE m

\* (intN_t) and (uintN_t) of an argument: its last bytes.
truncated(n, bytes, sign) ==
  LET all == (2 ^ (4 * bytes)) * (2 ^ (4 * bytes))
      m == n % all
  IN  IF sign /\ m >= all \div 2 THEN m - all ELSE m

LOWER == <<"0", "1", "2", "3", "4", "5", "6", "7",
           "8", "9", "a", "b", "c", "d", "e", "f">>
UPPER == <<"0", "1", "2", "3", "4", "5", "6", "7",
           "8", "9", "A", "B", "C", "D", "E", "F">>

digits(num, base, upper) ==
  LET d[n \in 0 .. num] ==
        IF n = 0 THEN <<>>
        ELSE Append(d[n \div base], (IF upper THEN UPPER ELSE LOWER)[1 + (n % base)])
  IN  IF num = 0 THEN <<"0">> ELSE d[num]

\* Mutant of padding: the sign is not taken off the width.
padding_wide(width, prefix, precision) == largest(width - precision, 0)

\* The number of characters that fill the field up to width.
padding(width, prefix, precision) ==
  largest(width - Len(prefix) - precision, 0)

\* sprint_int: sign and prefix, padding on the left, the digits up to
\* precision, padding on the right.  The code counts the width down instead,
\* at each place that adds to the number.
sprint_int(num, base, width, precision, flags) ==
  LET negative == "sign" \in flags /\ num < 0
      number == digits(IF negative THEN -num ELSE num, base, "upper" \in flags)
      zero == IF "zeropad" \in flags THEN "0" ELSE " "
      sign == IF negative THEN <<"-">>
              ELSE IF "plus" \in flags
              THEN <<IF "space" \in flags THEN " " ELSE "+">>
              ELSE <<>>
      prefix == sign \o (IF "alternate" \in flags THEN <<"0", "x">> ELSE <<>>)
      wanted == largest(precision, Len(number))
      fill == padding(width, prefix, wanted)
      before == IF "left" \in flags THEN 0 ELSE fill
  IN  << loop("plain", prefix \o times(before + wanted - Len(number), zero)),
         loop("once", number),
         loop("plain", times(fill - before, " ")) >>

\* Width and precision: NULL when not given, and not negative when taken
\* from an argument by '*'.
width(d) == IF d.width = NULL \/ d.width < 0 THEN 0 ELSE d.width
given(d, default) ==
  IF d.precision = NULL THEN default ELSE largest(d.precision, 0)

hex(flags) == (flags \ {"space"}) \cup {"zeropad"}

\* The flags, base and default precision of each type of number.
number(d) ==
  CASE d.type = "d" -> <<10, d.flags \cup {"sign"}, 0>>
    [] d.type = "u" -> <<10, d.flags, 0>>
    [] d.type = "x" -> <<16, hex(d.flags), 0>>
    [] d.type = "X" -> <<16, hex(d.flags) \cup {"upper"}, 0>>
    [] d.type = "p" -> <<16, hex(d.flags) \cup {"upper", "alternate"}, 8>>

Numbers == {"d", "u", "x", "X", "p"}

\* The directive d with its argument.  An unknown placeholder is rewound to
\* its '%', which is copied, and its character is then an ordinary one, unless
\* it is cut short by another (begin).
directive(d, arg) ==
  CASE d.type = "char" -> <<loop("plain", <<d.char>>)>>
    [] d.type \in Numbers ->
         sprint_int(truncated(arg, d.length, d.type = "d"), number(d)[1],
                    width(d), given(d, number(d)[3]), number(d)[2])
    [] d.type = "c" -> <<loop("plain", <<arg>>)>>
    [] d.type = "s" -> IF d.precision = NULL THEN <<loop("once", arg)>>
                       ELSE <<[loop("bounded", arg) EXCEPT !.left = given(d, 0)]>>
    [] d.type = "%" -> <<loop("plain", <<"%">>)>>
    [] d.type = "?" -> <<loop("once", <<"%">>), loop("plain", <<d.char>>)>>

takes(d) == d.type \in Numbers \cup {"c", "s"}

\* What is written behind the '%' of a placeholder; what is not positive is
\* taken for a '*'.
spelled(d) ==
  LET mark(flag, c) == IF flag \in d.flags THEN <<c>> ELSE <<>>
      decimal(n) == IF n > 0 THEN digits(n, 10, FALSE) ELSE <<"*">>
      precision == IF d.precision = NULL THEN <<>> ELSE <<".">> \o decimal(d.precision)
  IN  CASE d.type = "?" -> <<d.char>>
        [] d.type = "c" -> <<"c">>
        [] d.type = "s" -> precision \o <<"s">>
        [] d.type \in Numbers ->
             mark("plus", "+") \o mark("left", "-") \o mark("alternate", "#")
               \o mark("space", " ") \o mark("zeropad", "0")
               \o (IF d.width = NULL THEN <<>> ELSE decimal(d.width)) \o precision
               \o (CASE d.length = 1 -> <<"h", "h">> [] d.length = 2 -> <<"h">>
                     [] d.length = 4 -> <<>> [] d.length = 8 -> <<"l", "l">>)
               \o <<d.type>>

\* The rewinding starts one past the unknown character: when another
\* placeholder follows at once that is its '%', and there is no rewinding.
cut_short(f) == Len(f) > 1 /\ f[1].type = "?" /\ f[2].type # "char"

-----------------------------------------------------------------------------
(* vsnprintf                                                               *)

\* The characters a directive and a format stand for: an unknown placeholder
\* for itself, "copy '%' verbatim".
joined(seqs) ==
  LET upto[i \in 0 .. Len(seqs)] ==
        IF i = 0 THEN <<>> ELSE upto[i - 1] \o seqs[i]
  IN  upto[Len(seqs)]
meant(l) == SubSeq(l.chars, 1, IF l.left < Len(l.chars) THEN l.left ELSE Len(l.chars))
stands_for(d, arg) ==
  joined([i \in DOMAIN directive(d, arg) |-> meant(directive(d, arg)[i])])

\* The argument of the i-th directive of f is the next one in as.
argument(f, as, i) ==
  IF takes(f[i]) THEN as[Cardinality({j \in 1 .. i : takes(f[j])})] ELSE NULL
written(f, as) == joined([i \in DOMAIN f |-> stands_for(f[i], argument(f, as, i))])

\* The characters that have a meaning behind a '%'.
Known == {"+", "-", "#", " ", "0", "1", "2", "3", "4", "5", "6", "7", "8", "9", "*", ".",
          "h", "l", "z", "t", "d", "i", "u", "x", "X", "p", "c", "s", "%"}

\* What a format is made of.  An unknown placeholder is a '%' with another
\* character directly behind it: at the end of the format the code reads past
\* its NUL.
Flags == {"plus", "left", "alternate", "space", "zeropad"}
Directives ==
  [type : {"char"}, char : Chars \ {"%"}]
    \cup [type : Numbers, flags : SUBSET Flags, width : Int \cup {NULL},
          precision : Int \cup {NULL}, length : {1, 2, 4, 8}]
    \cup [type : {"c", "%"}]
    \cup [type : {"s"}, precision : Int \cup {NULL}]
    \cup [type : {"?"}, char : Chars \ Known]

\* Each directive of f that takes an argument has one that it can print.
supplied(f, as) ==
  /\ Len(as) \in Nat /\ as = [i \in 1 .. Len(as) |-> as[i]]
  /\ \A i \in DOMAIN f : takes(f[i]) =>
       /\ Cardinality({j \in 1 .. i : takes(f[j])}) <= Len(as)
       /\ argument(f, as, i) \in CASE f[i].type = "c" -> Chars
                                  [] f[i].type = "s" -> Seq(Chars)
                                  [] OTHER -> Int

\* A call of vsnprintf as C allows it, but for unknown placeholders, which C
\* leaves open.  The code would join the second '%' of a "%%" that cuts one
\* short to what follows: there is no such format here.
Legal(c) ==
  /\ c[2] \in Seq(Directives) /\ supplied(c[2], c[3])
  /\ c[4] \in Nat /\ c[5] \in Int
  /\ \A i \in 1 .. Len(c[2]) - 1 : c[2][i].type = "?" => c[2][i + 1].type # "%"

\* No unknown placeholder of f is cut short.
Separate(f) ==
  \A i \in 1 .. Len(f) - 1 : f[i].type = "?" => f[i + 1].type = "char"

Init ==
  \E c \in Cases :
    /\ caller = c[1]
    /\ format = c[2]
    /\ args = c[3]
    /\ loops = <<>>
    /\ buf = 0
    /\ size = c[4]
    /\ space = c[5]
    /\ memory = [i \in -1 .. c[4] |-> NULL]
    /\ result = NULL
    /\ outcome = NULL
    /\ text = written(c[2], c[3])

\* buf_add: beyond BUF_CAP buf is no longer counted.
room == buf < size
stored(c) == IF room THEN [memory EXCEPT ![buf] = c] ELSE memory
advanced == IF buf < size + BUF_CAP THEN buf + 1 ELSE buf

\* An unknown placeholder that is cut short is lost.  buf_add copies the '%'
\* of the next one, of which the rest is then ordinary; without room for the
\* '%' format stays where it is, and the next one is as any other.
lose ==
  /\ loops' = <<loop("bounded", <<"%">>)>>
  /\ format' = IF room
               THEN [i \in DOMAIN spelled(format[2]) |->
                       [type |-> "char", char |-> spelled(format[2])[i]]]
                      \o Tail(Tail(format))
               ELSE Tail(format)
  /\ args' = args

\* The next directive.  "%c" takes its argument inside buf_add.
begin ==
  /\ loops = <<>> /\ format # <<>>
  /\ IF cut_short(format) THEN lose
     ELSE LET d == Head(format)
              arg == IF takes(d) THEN Head(args) ELSE NULL
          IN  /\ loops' = directive(d, arg)
              /\ args' = IF takes(d) /\ (d.type = "c" => room) THEN Tail(args) ELSE args
              /\ format' = Tail(format)
  /\ UNCHANGED <<buf, memory, entry, result, outcome, text>>

\* Mutant of turned: the precision is counted with the characters stored.
turned_stored(l) ==
  [l EXCEPT !.chars = IF l.kind = "plain" \/ room THEN Tail(@) ELSE @,
            !.left = IF l.kind = "plain" \/ room THEN @ - 1 ELSE @]

\* What is left of the loop l after a turn.
turned(l) ==
  [l EXCEPT !.chars = IF l.kind = "plain" \/ room THEN Tail(@) ELSE @,
            !.left = IF l.kind = "once" /\ ~room THEN @ ELSE @ - 1]

goes_on(l) == l.chars # <<>> /\ l.left > 0

turn ==
  /\ loops # <<>> /\ goes_on(Head(loops))
  /\ memory' = stored(Head(Head(loops).chars))
  /\ buf' = advanced
  /\ loops' = <<turned(Head(loops))>> \o Tail(loops)
  /\ UNCHANGED <<format, args, entry, result, outcome, text>>

leave ==
  /\ loops # <<>> /\ ~goes_on(Head(loops))
  /\ loops' = Tail(loops)
  /\ UNCHANGED <<format, args, buf, memory, entry, result, outcome, text>>

\* Mutants of terminated: end[-1] is left as it is, or set without a buffer.
terminated_open(m) == m
terminated_always(m) == [m EXCEPT ![size - 1] = NUL]

\* The buffer m with end[-1], if there is any, set to NUL.
terminated(m) == IF size > 0 THEN [m EXCEPT ![size - 1] = NUL] ELSE m

finish ==
  /\ loops = <<>> /\ format = <<>> /\ result = NULL
  /\ memory' = terminated(stored(NUL))
  /\ buf' = buf + 1
  /\ result' = buf' - 1
  /\ UNCHANGED <<format, args, loops, entry, outcome, text>>

\* Mutant of fits: the result is not looked at.
fits_always == TRUE

\* A result of size does not fit with its NUL, but is taken as one that does.
fits == result <= size

\* printf prints what fits its buffer of BUF_SIZE characters, here size.
\* The same in fprintf.
prints(function) ==
  /\ caller = function /\ result # NULL /\ outcome = NULL
  /\ outcome' = IF fits THEN "puts" ELSE "panic"
  /\ UNCHANGED <<format, args, loops, buf, memory, entry, result, text>>

\* The others return the result.
returns(function) ==
  /\ caller = function /\ result # NULL /\ outcome = NULL
  /\ outcome' = "return"
  /\ UNCHANGED <<format, args, loops, buf, memory, entry, result, text>>

printf == prints("printf")
fprintf == prints("fprintf")
snprintf == returns("snprintf")

\* sprintf has told vsnprintf that there are BUF_SIZE characters, where its
\* caller may just have room for the text.
sprintf == returns("sprintf")

done == outcome # NULL /\ UNCHANGED vars

Next == begin \/ turn \/ leave \/ finish \/ printf \/ fprintf \/ snprintf \/ sprintf
        \/ done

Spec == Init /\ [][Next]_vars /\ WF_vars(Next)

-----------------------------------------------------------------------------
(* Properties.                                                             *)

\* "Returns the number of characters which would be generated for the given
\* input", and leaves in the buffer as many of them as there is room for,
\* terminated, wherever in a directive the buffer ends.
Formatted ==
  result # NULL =>
    /\ result = Len(text)
    /\ \A i \in 0 .. size - 2 :
         memory[i] = IF i < Len(text) THEN text[i + 1] ELSE
                     IF i = Len(text) THEN NUL ELSE NULL
    /\ size > 0 => memory[size - 1] = NUL

\* Nothing is written outside the buffer there is ("Size of buffer including
\* trailing '\0'"), also when there is none.
InBounds == \A i \in DOMAIN memory : memory[i] # NULL => i \in 0 .. space - 1

\* The number a reader of s finds in it.
digit_value(c) ==
  LET k == {i \in 1 .. 16 : c \in {LOWER[i], UPPER[i]}}
  IN  IF k = {} THEN -1 ELSE (CHOOSE i \in k : TRUE) - 1
read_back(s, base) ==
  LET upto[i \in 0 .. Len(s)] ==
        IF i = 0 THEN 0
        ELSE IF digit_value(s[i]) = -1 THEN upto[i - 1]
        ELSE upto[i - 1] * base + digit_value(s[i])
      minus == \E i \in DOMAIN s : s[i] = "-"
  IN  IF minus THEN -upto[Len(s)] ELSE upto[Len(s)]

\* A number takes as many characters as the width asks for and no more than
\* it needs beyond that, and reads back as the value its length leaves of
\* the argument, with every combination of flags.
NumbersRight ==
  \A i \in DOMAIN format :
    format[i].type \in Numbers =>
      LET d == format[i]
          arg == argument(format, args, i)
          s == stands_for(d, arg)
          bare == stands_for([d EXCEPT !.width = NULL], arg)
      IN  /\ Len(s) = largest(width(d), Len(bare))
          /\ read_back(s, number(d)[1]) = truncated(arg, d.length, d.type = "d")

\* What puts finds in the buffer: the characters up to the first NUL.
shown ==
  LET nul == CHOOSE i \in 0 .. size - 1 :
               memory[i] = NUL /\ \A j \in 0 .. i - 1 : memory[j] # NUL
  IN  [i \in 1 .. nul |-> memory[i - 1]]

\* printf prints its text whole or panics, but for a text as long as the
\* buffer, which loses its last character.
PutsWhole ==
  outcome = "puts" /\ size > 0 =>
    shown = IF Len(text) = size THEN SubSeq(text, 1, size - 1) ELSE text

\* vsnprintf returns, however small the buffer.
Terminates == <>(outcome # NULL)

=============================================================================
