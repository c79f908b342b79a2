----------------------------- MODULE Framebuffer -----------------------------
(***************************************************************************)
(* Framebuffer_stubs.c: ocaml_rpi__fb_init asks the GPU for a framebuffer  *)
(* in three requests.  Each is written to a buffer in memory, its address  *)
(* sent through a mailbox, and the answer is in the same buffer when the   *)
(* GPU has sent the mail back.                                             *)
(*                                                                         *)
(* The processor sees the buffer through a write-back cache, the GPU does  *)
(* not.  GPU, mailbox and cache are external: the mailbox carries mail of  *)
(* several channels, in order; the GPU may refuse what it likes; a line of *)
(* the cache may be evicted at any time.  Values are small numbers: bit 31 *)
(* of a word is RESPONSE, and addresses have 4 bits.                       *)
(***************************************************************************)
EXTENDS Integers, Sequences

CONSTANTS
  FBCHAN, ANOTHER,    \* the channel of the framebuffer, and another one
  BUFFER_ADDRESS,
  CAP,              \* how much mail to the GPU the mailbox holds
  NULL

ASSUME MailboxAssumption == FBCHAN # ANOTHER /\ CAP \in Nat \ {0}

VARIABLES
  ram,       \* the words of the buffer in memory
  cache,     \* the same in the cache, NULL when not cached
  dirty,     \* whether the cache was written to
  outbox, inbox,     \* the mail to and from the GPU
  busy,      \* the mail the GPU is at, or NULL
  answers,   \* what the GPU has answered to each request, NULL before
  step, pc,  \* the request the driver is at, and where in it
  fb,
  error,     \* the member of enum Error found, NULL before
  result     \* the value returned to OCaml

buffer == <<ram, cache, dirty>>
gpu == <<busy, answers>>
driver == <<step, pc, fb, error, result>>
vars == <<buffer, outbox, inbox, gpu, driver>>

RESPONSE == 1048576        \* 0x80000000
SIZE == 262147             \* 0x40003
PHYSICAL == 294915         \* 0x48003
VIRTUAL == 294916          \* 0x48004
DEPTH == 294917            \* 0x48005
ALLOCATE == 262145         \* 0x40001
PITCH == 262152            \* 0x40008

Words == 0 .. 26

-----------------------------------------------------------------------------
(* The requests, their answers, and what the driver makes of them.         *)

\* The words fb_init writes for each request, from mailbuffer[0] on.
request(s) ==
  CASE s = "size"  -> <<8 * 4, 0, SIZE, 8, 0, 0, 0, 0>>
    [] s = "setup" -> <<22 * 4, 0, PHYSICAL, 8, 8, fb.width, fb.height,
                        VIRTUAL, 8, 8, fb.width, fb.height, DEPTH, 4, 4, 32,
                        ALLOCATE, 8, 4, 16, 0, 0>>
    [] s = "pitch" -> <<7 * 4, 0, PITCH, 4, 0, 0, 0>>

written(words, s) ==
  [i \in Words |-> IF i < Len(request(s)) THEN request(s)[i + 1] ELSE words[i]]

\* An answer: whether the GPU took the request and granted what the tag asks
\* for, the values it gives, and the size of its first tag, which may lead the
\* scan to the word after the message or beyond it.
Answers == [ok : BOOLEAN, granted : BOOLEAN, values : {<<3, 5>>, <<0, 5>>, <<3, 0>>},
            size : {8, 68, 80}]

\* The buffer with an answer in it, as the GPU leaves it.
answered(words, s, a) ==
  LET tag == IF s = "setup" THEN 16 ELSE 2
      grant == RESPONSE + (IF s = "pitch" THEN 4 ELSE 8)
      values == IF s = "pitch" THEN 1 ELSE 2
      answer(i) ==
        IF i = 1 THEN IF a.ok THEN RESPONSE ELSE RESPONSE + 1
        ELSE IF i = 3 /\ s = "setup" THEN a.size
        ELSE IF i = tag + 2 /\ a.granted THEN grant
        ELSE IF i \in tag + 3 .. tag + 2 + values THEN a.values[i - tag - 2]
        ELSE words[i]
  IN  [i \in Words |-> answer(i)]

\* The scan for the allocate response ends at the tag itself, at the end
\* tag, or beyond the c words of the message.
scan(words, c) ==
  LET from[i \in Nat] ==
        IF i > c \/ words[i] \in {0, ALLOCATE} THEN i
        ELSE from[i + 3 + (words[i + 1] \div 4)]
  IN  from[2]

\* What fb_init finds wrong with the answer in the buffer, if anything.
check_size(words) ==
  IF words[1] # RESPONSE THEN "FAIL_GET_RESOLUTION"
  ELSE IF words[5] = 0 \/ words[6] = 0 THEN "FAIL_GOT_INVALID_RESOLUTION"
  ELSE NULL

check_setup(words) ==
  LET i == scan(words, 22)
  IN  IF words[1] # RESPONSE THEN "FAIL_SETUP_FRAMEBUFFER"
      ELSE IF i > 22 THEN "FAIL_INVALID_TAGS"
      ELSE IF words[i + 2] # RESPONSE + 8 THEN "FAIL_INVALID_TAG_RESPONSE"
      ELSE IF words[i + 3] = 0 \/ words[i + 4] = 0 THEN "FAIL_INVALID_TAG_DATA"
      ELSE NULL

check_pitch(words) ==
  IF words[4] # RESPONSE + 4 THEN "FAIL_INVALID_PITCH_RESPONSE"
  ELSE IF words[5] = 0 THEN "FAIL_INVALID_PITCH_DATA"
  ELSE "SUCCESS"

check(words) ==
  CASE step = "size"  -> check_size(words)
    [] step = "setup" -> check_setup(words)
    [] step = "pitch" -> check_pitch(words)

\* A physical address in the kernel's mapping: += 0xC0000000.
to_virtual(base) == (base + 12) % 16

\* fb once the words of an answer are stored in it, before they are looked at
\* for zeros; e is what is then found wrong.
stored(words, e) ==
  LET i == scan(words, 22)
  IN  CASE e \in {"FAIL_GET_RESOLUTION", "FAIL_SETUP_FRAMEBUFFER", "FAIL_INVALID_TAGS",
                  "FAIL_INVALID_TAG_RESPONSE", "FAIL_INVALID_PITCH_RESPONSE"} -> fb
        [] e = "FAIL_GOT_INVALID_RESOLUTION" \/ (e = NULL /\ step = "size") ->
             [fb EXCEPT !.width = words[5], !.height = words[6]]
        [] e = "FAIL_INVALID_TAG_DATA" ->
             [fb EXCEPT !.base = words[i + 3], !.size = words[i + 4]]
        [] e = NULL /\ step = "setup" ->
             [fb EXCEPT !.base = to_virtual(words[i + 3]), !.size = words[i + 4]]
        [] e \in {"FAIL_INVALID_PITCH_DATA", "SUCCESS"} -> [fb EXCEPT !.pitch = words[5]]

following(s) == IF s = "size" THEN "setup" ELSE "pitch"

\* enum Error, and Int_val of caml/mlvalues.h, which takes OCaml's number for
\* C's; fb_init has it the other way round.
Error == <<"SUCCESS", "FAIL_GET_RESOLUTION", "FAIL_GOT_INVALID_RESOLUTION",
           "FAIL_SETUP_FRAMEBUFFER", "FAIL_INVALID_TAGS",
           "FAIL_INVALID_TAG_RESPONSE", "FAIL_INVALID_TAG_DATA",
           "FAIL_INVALID_PITCH_RESPONSE", "FAIL_INVALID_PITCH_DATA">>
code(e) == (CHOOSE i \in DOMAIN Error : Error[i] = e) - 1
Int_val(v) == v \div 2

Mail == {[channel |-> FBCHAN, address |-> BUFFER_ADDRESS], [channel |-> ANOTHER, address |-> 0]}

\* NULL is no value that stands where it may stand.
ASSUME NullAssumption ==
  /\ NULL \notin Answers /\ NULL \notin Mail /\ NULL \notin [Words -> Nat]
  /\ NULL \notin {Error[i] : i \in DOMAIN Error}

-----------------------------------------------------------------------------
(* The cache and the mailbox.                                              *)

\* Mutant of flushed: the lines are invalidated without being written back.
flushed_dropped == ram

\* The memory after flush_cache: written lines are written back.
flushed == IF dirty THEN cache ELSE ram

\* Mutant of flush_cache: cleans the cache and does not invalidate it.
flush_cache_clean == ram' = flushed /\ cache' = cache /\ dirty' = FALSE

flush_cache == ram' = flushed /\ cache' = NULL /\ dirty' = FALSE

mailbuffer == IF cache = NULL THEN ram ELSE cache

evict == cache # NULL /\ flush_cache /\ UNCHANGED <<outbox, inbox, gpu, driver>>

\* Mutant of envelope: the channel is not put into the low bits.
envelope_bare(chan, address) == [channel |-> ANOTHER, address |-> address]

envelope(chan, address) == [channel |-> chan, address |-> address]

addressed(e, chan) == e.channel = chan

mail_full == Len(outbox) >= CAP
mail_empty == inbox = <<>>

-----------------------------------------------------------------------------
(* The driver.                                                             *)

fill ==
  /\ pc = "fill"
  /\ cache' = written(mailbuffer, step) /\ dirty' = TRUE
  /\ pc' = "write"
  /\ UNCHANGED <<ram, outbox, inbox, gpu, step, fb, error, result>>

\* A turn of a waiting loop, which flushes the cache as well.
wait ==
  /\ \/ pc = "write" /\ mail_full
     \/ pc = "read" /\ mail_empty
  /\ flush_cache
  /\ UNCHANGED <<outbox, inbox, gpu, driver>>

\* Mutant of mail_write: the cache is not flushed before the mail is sent.
mail_write_unflushed ==
  /\ pc = "write" /\ ~mail_full
  /\ outbox' = Append(outbox, envelope(FBCHAN, BUFFER_ADDRESS))
  /\ pc' = "read"
  /\ UNCHANGED <<buffer, inbox, gpu, step, fb, error, result>>

\* The last turn of mail_write, when the mailbox is not full.
mail_write ==
  /\ pc = "write" /\ ~mail_full
  /\ flush_cache
  /\ outbox' = Append(outbox, envelope(FBCHAN, BUFFER_ADDRESS))
  /\ pc' = "read"
  /\ UNCHANGED <<inbox, gpu, step, fb, error, result>>

\* A turn of mail_read: mail of other channels is thrown away.
mail_read ==
  /\ pc = "read" /\ ~mail_empty
  /\ flush_cache
  /\ inbox' = Tail(inbox)
  /\ pc' = IF addressed(Head(inbox), FBCHAN) THEN "check" ELSE "read"
  /\ UNCHANGED <<outbox, gpu, step, fb, error, result>>

\* The answer is looked at, which brings it into the cache.
look ==
  /\ pc = "check"
  /\ cache' = mailbuffer
  /\ error' = check(mailbuffer)
  /\ fb' = stored(mailbuffer, error')
  /\ IF error' = NULL THEN pc' = "fill" /\ step' = following(step)
                      ELSE pc' = "return" /\ UNCHANGED step
  /\ UNCHANGED <<ram, dirty, outbox, inbox, gpu, result>>

return ==
  /\ pc = "return"
  /\ result' = Int_val(code(error))
  /\ pc' = "done"
  /\ UNCHANGED <<buffer, outbox, inbox, gpu, step, fb, error>>

-----------------------------------------------------------------------------
(* The GPU.                                                                *)

gpu_take ==
  /\ busy = NULL /\ outbox # <<>>
  /\ busy' = Head(outbox)
  /\ outbox' = Tail(outbox)
  /\ UNCHANGED <<buffer, inbox, answers, driver>>

asked == busy # NULL /\ busy = [channel |-> FBCHAN, address |-> BUFFER_ADDRESS]

gpu_answer ==
  /\ asked /\ answers[step] = NULL
  /\ \E a \in Answers :
       /\ answers' = [answers EXCEPT ![step] = a]
       /\ ram' = answered(ram, step, a)
  /\ UNCHANGED <<cache, dirty, outbox, inbox, busy, driver>>

gpu_post ==
  /\ busy # NULL /\ (asked => answers[step] # NULL)
  /\ inbox' = Append(inbox, busy)
  /\ busy' = NULL
  /\ UNCHANGED <<buffer, outbox, answers, driver>>

-----------------------------------------------------------------------------

\* The buffer holds rubbish, and mail of another channel may be on its way.
Init ==
  /\ ram \in {[i \in Words |-> 0], [i \in Words |-> 7]} /\ cache = NULL /\ dirty = FALSE
  /\ outbox \in {<<>>, <<[channel |-> ANOTHER, address |-> 0]>>}
  /\ inbox \in {<<>>, <<[channel |-> ANOTHER, address |-> 0]>>}
  /\ busy = NULL
  /\ answers = [s \in {"size", "setup", "pitch"} |-> NULL]
  /\ step = "size" /\ pc = "fill"
  /\ fb = [width |-> 0, height |-> 0, base |-> 0, size |-> 0, pitch |-> 0]
  /\ error = NULL /\ result = NULL

done == pc = "done" /\ UNCHANGED vars

Next ==
  \/ fill \/ wait \/ mail_write \/ mail_read \/ look \/ return \/ done
  \/ evict \/ gpu_take \/ gpu_answer \/ gpu_post

\* The processor goes on, and the GPU answers what it is sent.
Fairness ==
  /\ WF_vars(fill) /\ WF_vars(mail_write) /\ WF_vars(mail_read)
  /\ WF_vars(look) /\ WF_vars(return)
  /\ WF_vars(gpu_take) /\ WF_vars(gpu_answer) /\ WF_vars(gpu_post)

Spec == Init /\ [][Next]_vars /\ Fairness

-----------------------------------------------------------------------------
(* Properties.                                                             *)

\* The type invariant of the driver: the cache is dirty only while the
\* driver writes, so that nothing is written back over an answer.
TypeOK ==
  /\ pc \in {"fill", "write", "read", "check", "return", "done"}
  /\ dirty => pc = "write" /\ cache # NULL
  /\ error \in {NULL} \cup {Error[i] : i \in DOMAIN Error}

\* The GPU acts on a request that is whole in memory, though the driver wrote
\* it to the cache, and only while the driver waits for the answer.
RequestIntact ==
  [][answers' # answers =>
       /\ pc = "read"
       /\ \A i \in DOMAIN request(step) : ram[i - 1] = request(step)[i]]_vars

\* What the GPU's answers amount to: the first thing it refused, SUCCESS, or
\* NULL when it has not been asked for all.  A first tag of another size than
\* the request's leads to the one error or the other.
Verdict ==
  LET size == answers["size"]
      setup == answers["setup"]
      pitch == answers["pitch"]
      none(a) == a.values[1] = 0 \/ a.values[2] = 0
  IN  IF ~size.ok THEN {"FAIL_GET_RESOLUTION"}
      ELSE IF none(size) THEN {"FAIL_GOT_INVALID_RESOLUTION"}
      ELSE IF setup = NULL THEN {NULL}
      ELSE IF ~setup.ok THEN {"FAIL_SETUP_FRAMEBUFFER"}
      ELSE IF setup.size # 8 THEN {"FAIL_INVALID_TAGS", "FAIL_INVALID_TAG_RESPONSE"}
      ELSE IF ~setup.granted THEN {"FAIL_INVALID_TAG_RESPONSE"}
      ELSE IF none(setup) THEN {"FAIL_INVALID_TAG_DATA"}
      ELSE IF pitch = NULL THEN {NULL}
      ELSE IF ~pitch.granted THEN {"FAIL_INVALID_PITCH_RESPONSE"}
      ELSE IF pitch.values[1] = 0 THEN {"FAIL_INVALID_PITCH_DATA"}
      ELSE {"SUCCESS"}

\* The member of its enum Error that fb_init settles on, which it has still to
\* convert for OCaml, is what the GPU answered to its own three requests, and
\* fb holds the values given: no answer is read before it is there, from the
\* cache, from an earlier request, or because of another channel's mail.
ErrorHonest ==
  pc \in {"return", "done"} =>
    /\ answers["size"] # NULL
    /\ error \in Verdict
    /\ error = "SUCCESS" =>
         /\ <<fb.width, fb.height>> = answers["size"].values
         /\ <<fb.base, fb.size>> = <<to_virtual(answers["setup"].values[1]),
                                     answers["setup"].values[2]>>
         /\ fb.pitch = answers["pitch"].values[1]

\* A number as OCaml has it, and so the n-th constructor of a type.
Val_int(n) == 2 * n + 1

\* What OCaml reads is what the GPU answered: the value returned is a
\* constructor of the type result of Framebuffer.ml, which names the members
\* of enum Error in their order ("external init : unit -> result").
ResultHonest == pc = "done" => result \in {Val_int(code(e)) : e \in Verdict}

\* fb_init returns, however much mail of other channels comes first.
Returns == <>(pc = "done")

=============================================================================
