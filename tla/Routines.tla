------------------------------- MODULE Routines -------------------------------
(***************************************************************************)
(* The routines whose work a switch of threads or an interrupt does not    *)
(* disturb, as they keep all they work on to themselves: the loops of      *)
(* boot.S, strtol, vsnprintf, the functions of string.c and the loop of    *)
(* list.h.  A behaviour is one call of one of them; the variables of the   *)
(* others are NULL.                                                        *)
(***************************************************************************)
EXTENDS Integers, Sequences

CONSTANTS
  NULL,
  Images,            \* of Boot
  Chars,             \* the characters of strings, but for the NUL
  Inputs, LONG_MAX,  \* of Strtol
  Cases, BUF_CAP,    \* of Printf
  Calls, CHARS,      \* of Strings
  Size               \* of ListIterator

VARIABLES
  part,      \* the routine that runs
  table, r5, r6, r8, bss, r4, cleared,
  nptr, asked, base, ptr, sign, res, errno, pc,
  caller, format, args, loops, buf, memory, size, space, result, outcome, text,
  call, before, cells, d, s, left, value, stage,
  links, head, last_, iter_, next_, looping, listed, order, visited, missed

B == INSTANCE Boot
N == INSTANCE Strtol
P == INSTANCE Printf
S == INSTANCE Strings
L == INSTANCE ListIterator

\* NULL is nothing else.  The image has a bss, the characters are those of
\* numbers and others, and a call of a routine is as C allows it.
ASSUME NullAssumption == NULL \notin Int /\ NULL # "puts" /\ NULL \notin B!Sections
ASSUME ImagesAssumption == \A i \in Images : i \in Int \X Int /\ i[1] < i[2]
ASSUME SizeAssumption == Size \in Nat
ASSUME CharsAssumption ==
  /\ "NUL" \notin Chars
  /\ \A i \in 1 .. 16 : P!LOWER[i] \in Chars /\ P!UPPER[i] \in Chars
  /\ {"x", "-", "+", " ", "%"} \subseteq Chars
ASSUME InputsAssumption ==
  LONG_MAX \in Nat /\ \A c \in Inputs : c \in Seq(Chars) \X Int
ASSUME CasesAssumption == BUF_CAP \in Nat \ {0} /\ \A c \in Cases : P!Legal(c)
ASSUME CallsAssumption ==
  /\ CHARS \in Nat
  /\ \A c \in Calls : S!Memory(c[2]) /\ S!Legal(c[1], c[2])

boot == <<table, r5, r6, r8, bss, r4, cleared>>
strtol == <<nptr, asked, base, ptr, sign, res, errno, pc>>
printf == <<caller, format, args, loops, buf, memory, size, space, result, outcome,
            text>>
strings == <<call, before, cells, d, s, left, value, stage>>
list == <<links, head, last_, iter_, next_, looping, listed, order, visited, missed>>
vars == <<part, boot, strtol, printf, strings, list>>

NoBoot ==
  /\ table = NULL /\ r5 = NULL /\ r6 = NULL /\ r8 = NULL
  /\ bss = NULL /\ r4 = NULL /\ cleared = NULL
NoStrtol ==
  /\ nptr = NULL /\ asked = NULL /\ base = NULL /\ ptr = NULL /\ sign = NULL
  /\ res = NULL /\ errno = NULL /\ pc = NULL
NoPrintf ==
  /\ caller = NULL /\ format = NULL /\ args = NULL /\ loops = NULL /\ buf = NULL
  /\ memory = NULL /\ size = NULL /\ space = NULL /\ result = NULL
  /\ outcome = NULL /\ text = NULL
NoString ==
  /\ call = NULL /\ before = NULL /\ cells = NULL /\ d = NULL /\ s = NULL
  /\ left = NULL /\ value = NULL /\ stage = NULL
NoList ==
  /\ links = NULL /\ head = NULL /\ last_ = NULL /\ iter_ = NULL /\ next_ = NULL
  /\ looping = NULL /\ listed = NULL /\ order = NULL /\ visited = NULL
  /\ missed = NULL

Init ==
  \/ part = "boot" /\ B!Init /\ NoStrtol /\ NoPrintf /\ NoString /\ NoList
  \/ part = "strtol" /\ N!Init /\ NoBoot /\ NoPrintf /\ NoString /\ NoList
  \/ part = "printf" /\ P!Init /\ NoBoot /\ NoStrtol /\ NoString /\ NoList
  \/ part = "string" /\ S!Init /\ NoBoot /\ NoStrtol /\ NoPrintf /\ NoList
  \/ part = "list" /\ L!Init /\ NoBoot /\ NoStrtol /\ NoPrintf /\ NoString

booting ==
  part = "boot" /\ B!Next /\ UNCHANGED <<part, strtol, printf, strings, list>>
converting ==
  part = "strtol" /\ N!Next /\ UNCHANGED <<part, boot, printf, strings, list>>
printing ==
  part = "printf" /\ P!Next /\ UNCHANGED <<part, boot, strtol, strings, list>>
copying ==
  part = "string" /\ S!Next /\ UNCHANGED <<part, boot, strtol, printf, list>>
iterating(Step) ==
  part = "list" /\ Step /\ UNCHANGED <<part, boot, strtol, printf, strings>>

Finished ==
  CASE part = "boot" -> B!Booted
    [] part = "strtol" -> pc = "done"
    [] part = "printf" -> outcome # NULL
    [] part = "string" -> stage = "done"
    [] part = "list" -> ~looping

finished == Finished /\ UNCHANGED vars

Next ==
  \/ booting \/ converting \/ printing \/ copying \/ iterating(L!Next)
  \/ finished

\* The processor goes on; with the loop of list.h only: its bodies come to an
\* end.
progress == booting \/ converting \/ printing \/ copying \/ iterating(L!turn)

Fairness == WF_vars(progress)

Spec == Init /\ [][Next]_vars /\ Fairness

-----------------------------------------------------------------------------
(* The properties of the parts, as they state them.                        *)

\* The page table maps the kernel twice, memory and peripherals once, and
\* ends where the kernel starts.
Mapped == part = "boot" => B!Mapped

\* All of bss is cleared, and not more than three words beyond it.
BssCleared == part = "boot" => B!BssCleared

\* strtol returns the number there is, its end, and its error.
Right == part = "strtol" => N!Right

\* A number takes the room it is to take, and reads back as what it is.
NumbersRight == part = "printf" => P!NumbersRight

\* vsnprintf counts and stores the text, wherever the buffer ends.
Formatted == part = "printf" => P!Formatted

\* It stores nothing outside the buffer.
InBounds == part = "printf" => P!InBounds

\* printf prints its text whole, panics, or loses the one character that the
\* NUL takes.
PutsWhole == part = "printf" => P!PutsWhole

\* The functions of string.c do what they are to, for areas that overlap too.
StringsRight == part = "string" => S!StringsRight

\* They write nowhere else.
WritesInside == part = "string" => S!WritesInside

\* The loop of list.h visits each node once, whatever its bodies remove.
EachOnce == part = "list" => L!EachOnce

\* The list stays a list while they do.
ListSound == part = "list" => L!ListSound

\* Each routine comes to its end.
Returns == <>Finished

=============================================================================
