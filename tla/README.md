# A verification of the ocaml-rpi kernel

ocaml-rpi is a kernel of a few thousand lines of C and ARM assembler that runs
an OCaml program on a Raspberry Pi without an operating system. It gives the
OCaml runtime what it expects of a C library (a heap, `printf`, `strtol`) and the
program its threads, a clock and a framebuffer. This directory holds TLA+ models
of its parts, the TLC runs that check them on small instances, and proofs, checked
by TLAPS for every instance, of every invariant the runs check; liveness is only checked.

Contents: [Inventory](#inventory) - [Modules](#modules) - [Runs](#runs) -
[Proofs](#proofs) - [Findings](#findings) - [Not modelled](#not-modelled) - [Plan](#plan)

## Inventory

| part | source | state | operations | who uses it |
|---|---|---|---|---|
| heap | `memory.c` | `free_chunk[32]`, the chunk headers in the arena, `mem_free`, `mem_used`, `mem_meta`, `first`, `last` | `memory_init`, `malloc`, `calloc`, `realloc`, `free` | the OCaml runtime, `caml_thread_create` |
| lists | `list.h` | `next` and `prev` in each node | init, insert, remove, push, pop, iterate | the heap |
| threads | `Thread_stubs.c`, `boot.S:264-281` | `curr_thread`, the ring of descriptors, the eight runtime globals saved and loaded, `last_channel_locked`, `chan->mutex` | `ocaml_thread_init`, `caml_thread_create`, `caml_thread_signal`, `schedule`, `starter`, the lock hooks, `caml_thread_scan_roots` | the program through `Thread.ml`, the runtime through hooks |
| console | `uart.c` | the FIFO and flags of the UART | `putchar`, `puts`, `getc`, `panic` | `printf`, interrupt handlers |
| interrupts | `entry.S`, `main.c:887-914` | the stack of each mode | the eight exception entries | the timer |
| printf | `printf.c`, `main.c:759-799` | a buffer of `BUF_SIZE` on the stack | `printf`, `snprintf`, `vsnprintf`, `sprint_int`, `sprintf`, `fprintf` | everything |
| clock | `Time_stubs.c` | the registers CLO, CHI, C1, CS of the timer | `caml_time_init`, `caml_time_time`, `time_irq_timer1` | `Time.ml`, the interrupt |
| strtol | `main.c:555-708` | none | `isspace`, `digit`, `strtol` | the runtime |
| framebuffer | `Framebuffer_stubs.c` | `fb`, the mailbox and its buffer | `mail_read`, `mail_write`, `ocaml_rpi__fb_init` | `Framebuffer.ml` |
| strings | `string.c` | none | `memcpy`, `memmove`, `strcat`, `strcmp`, ... | the runtime |
| boot | `boot.S` | page table, stacks, bss | once | - |
| libc stubs | `main.c` | none | constants and panics | the runtime |

**How they interact.** `kernel_main` (`main.c:86-128`) starts the console and the
heap, enables interrupts, and starts the OCaml program, which never returns. The
program initialises the clock and the threads, sets `handler` (`foo.ml:7`) for
signal 0 and starts two threads. Each second the timer interrupts; the handler in
C prints a line, sets the next match and records signal 0. When the running thread
next allocates, the runtime calls `handler`, which yields: that is the preemption
of this kernel. Threads print through an OCaml channel, whose lock spins on
`schedule()`.

**What is hard.** The heap: chunks are split and merged by any sequence of calls,
list nodes share memory with client data, and sizes decide on boundaries. The
threads: a switch takes place in two halves on two stacks, from OCaml code, from a
lock, from creation and from within the handler, and a collection or an exception
can come after any of them. The console and the clock: they share hardware with an
interrupt that comes between any two steps, and a fatal exception can come between any two
of that. printf: every loop can meet the end of the buffer. The routines that nothing
disturbs, as `strtol`, the string functions, the loop of `list.h` and those of `boot.S`: their
boundaries, and a body that changes the list it is called from. Nothing persists, so there is no crash recovery; there is one processor
and no message is lost but those a full FIFO drops.

**What makes each part correct.** The heap hands out disjoint blocks that stay,
loses no memory and merges what is freed. A thread runs on its own stack and
context, in its turn, every collection sees all other stacks, and a channel has one
writer. What interrupts print comes out whole and what they cost others is bounded.
`vsnprintf` returns, writes in bounds and counts right. Every tock is signalled
once. `strtol` returns the number there is, or the nearest. `memmove` and its like read nothing
they have overwritten. The loop of `list.h` visits each node once. The page table maps the
kernel where it is loaded and where it is linked.

`PROJECT.json` lists each hazard at its line with the properties that watch it.

## Modules

Actions have the names of the functions they model, and take one call as one step
unless something can happen in between; where it can, the call is cut at those
places. Operators `x_y` that follow a "Mutant of x" comment are wrong versions of
`x`: with one in the place of `x`, the property named in `PROJECT.json` fails.

**`Walks`**: the nodes met from some of them on along a pointer (`Reached`), which the properties of
all lists are stated with.

**`DList`**: the list operations of `list.h` on functions `next` and `prev`. An
operation on a head returns the new head, NULL for the empty list, as the macros do.

**`ListIterator`**: the loop between `DLIST_ITERATOR_BEGIN` and `DLIST_ITERATOR_END` on top of
`DList`. The loop saves its last node once and its next node before each body (`again`); in
between a body may remove nodes and push others (`remove`, `push`), its own node among them, which
is what `test/list.c` does. A body does not remove the two saved nodes: the macro has no
answer to that, and nothing in the repository does it.

**`Memory`**: `memory.c`. The arena is the aligned addresses between the sentinels
and a chunk is known by its address; its size is not stored but follows from the
next chunk, as in `memory_chunk_size`. One record `heap` holds the globals and all
headers, so that the helpers (`remove_free`, `push_free`, `merge_next`...) are
operators from heap to heap, applied in the order the code calls them. `block` is
the clients' book, address to size asked for, as `slot` and `slot_size` of
`test/memory.c`. A client overwrites the list node of its chunk with `Data`. All
`size_t` arithmetic is modulo `SIZE_MOD`; `SIZE_MOD` is `2 ^ NUM_SIZES`, as there is a list for each bit of a
size. A call is one step: nothing in `memory.c`
switches threads and no interrupt handler allocates. A realloc that finds no memory
loses the block, as the code does. `wild` notes a write through NULL.

**`Heap`**: the promise of `memory.h` in terms of `block` alone: `malloc` finds a
place in the arena apart from all blocks, no call touches the blocks of others.
`Memory!HeapPromise` is `Heap!Spec` under the mapping `Lo <- first, Hi <- last`.

**`Threads`**: `Thread_stubs.c`, `switch_thread`, and what `foo.ml` and the runtime
do with them. `schedule` is the half up to the `mov sp` of `switch_thread`; `resume`
and `starter` are the other half, in a thread that has run before or in a new one.
The eight globals are one value, a *context*: whose call into C they describe, made
from its own code (`Entered`) or from within the handler (`Nested`). `at` is the
place a thread is at, or returns to after `schedule()`: its own code, the loop of
`caml_io_mutex_lock` (`wait`) or an operation on a channel (`locked`). `handled`, the
return of the handler, restores the context as the runtime does; this and the moments
at which signals and exceptions can come are external. A collection can come whenever
a thread runs; as it changes nothing it is no action but `caml_thread_scan_roots`,
the set of contexts it would scan. `caml_thread_signal` records a signal as the timer does.
A creation for which there is no memory changes nothing; the 0 it returns, which is no OCaml value, is left out.

**`Scheduler`**: the promise of the threads: a queue whose head runs; a turn moves the
head to the end, a thread created goes first and its creator last.
`Threads!SchedulerPromise` maps the ring, read from the running thread along `next`,
to the queue.

**`Uart`**: `putchar` in its steps, the turns of its waiting loop (`putchar_spin`), the test that ends
it (`putchar_wait`) and the write, for three callers: the kernel, the interrupt handler, and the handler of a
fatal exception. `running` is the stack of those who wait for each other, the one with the processor
first: interrupts are off in both handlers, but a fatal exception can hit anything except its own
handler (one there would run the same code again). `panic` prints from the kernel and leaves interrupts on; after it, and after the dump
of a fatal exception, there is only `abort`, which is `idle`. Characters are from the set `Chars`. The UART is external: it transmits at any time and drops
what is written to a full FIFO.

**`Printf`**: `vsnprintf` turn by turn. A directive becomes up to three loops of
`buf_add`; `kind` says whether the loop advances outside of the macro's argument or in
it. `memory` includes the cells before and after the buffer. `text` is what the format
stands for without a buffer: `Formatted` compares the two. The characters are TLC
strings, and the format is parsed: the parser only moves forward through the format and
its result is the directive. A format without an end of its last directive, flags that
repeat, and the `%p` of a null format are not distinguished. An unknown placeholder is a `%` with one unknown character
directly behind it, and stands for itself, as the comment at `printf.c:332` says. The code rewinds to its `%` from one past that character; where this is
already the `%` of another placeholder (`cut_short`: `"%q%d"`) it loses the first one and takes the rest of the other (`spelled`) for ordinary
characters, which is `lose`. `Separate` formats have no such pair. `Directives` are all there are, over the characters `Chars`; what C asks of
the arguments of a call is `Legal`, which leaves out `"%q%%"`, where the second `%` would go on with what follows. `sprint_int` has the padding
as a closed form, where the code counts the width down. `caller` is the function on top: `printf` and
`fprintf` put the buffer or panic, `snprintf` and `sprintf` return. `size` is what `vsnprintf` is told of the
buffer and `space` what there is, which only differ in `sprintf`; the runs call it with room for both.

**`Clock`**: one access to the timer is one step of `caml_time_time` and
`time_irq_timer1`, and ticks of the counter fall in between. The reads of CHI and CLO
have no order (they are not volatile).

**`Strtol`**: `strtol` digit by digit, with a `long` of any width, and `Expected`,
what the C standard has it return for strings with at most one sign.

**`Strings`**: `string.c`, a turn of a loop a step, over a short memory. A call is a record and the memory before it;
what the C library has each function do is in `StringsRight`, where it may write in `WritesInside`. `strcat`, `strcpy` and
`strcmp` are modelled as they are, not as they are meant.

**`Boot`**: two loops of `boot.S`: the page table, a supersection (16 entries) a step, over the regions of `memory_regions`,
and the clearing of bss, four words a step. Registers keep their names. The tables are those of the source, not scaled down.

**`Routines`**: `Boot`, `Strtol`, `Printf`, `Strings` and `ListIterator` together. None of them shares state with another
or with an interrupt, so that a behaviour is a call of one of them: `part` says of which, the variables of the others are
NULL. Its properties are theirs, each for its part.

**`Framebuffer`**: the three requests of `ocaml_rpi__fb_init`. `error` is the C code it finds, `result` what it makes of it for OCaml (`return`). `ram` and `cache` are the buffer as the
GPU and as the processor see it. `fill` is the writing of a request, `mail_write` and `mail_read` the last
turns of their loops, `wait` the others, `look` the tests of an answer and what they store in `fb`.
The GPU takes mail in order, answers each request once and posts its mail back; what it answers is
in `answers`, which no code reads. Lines of the cache are evicted at any time, all at once;
the cache does not fetch by itself. Words are kept as they are, but bit 31 is the number
`RESPONSE`, and an address has 4 bits. The barriers order what the model orders anyway.

The `MC*` modules give the constants their values.

## Runs

| run | states | question | bounds |
|---|---|---|---|
| `memory` | 42 000 | all invariants of the heap, `OthersUntouched`, `HeapPromise` | 44 bytes: up to five chunks at once, between the sentinels |
| `memory_wild` | - | `NoWildWrite` fails | as `memory` |
| `threads` | 6 800 | contexts, scan, lock, order of turns; every thread runs, the lock is released | 3 threads, 1 channel |
| `threads_raise` | - | `LockExclusive` fails | exceptions in any C code |
| `routines` | 85 000 | page table and bss; `strtol`; numbers, counts and bounds of printf; string functions; the list loop; each returns | see below |
| `printf_full` | - | `Terminates` fails | two calls |
| `printf_unknown` | - | `Formatted` fails | `"%q%hhd"` and `"%q%s"` |
| `uart` | 99 000 | lines whole, last words, loss bounded, all printed | FIFO of 2, two interrupts, a panic, a fatal exception |
| `uart_loss` | - | `NothingLost` fails | as `uart` |
| `clock` | 316 000 | `OnTime`, `ReadingClose` | CLO of 3 bits, 20 ticks |
| `framebuffer` | 6 900 | requests whole, the error code found is what was answered, `fb_init` returns | one mail fills the mailbox, one foreign mail each way |
| `framebuffer_result` | - | `ResultHonest` fails | as `framebuffer` |

Why the bounds are enough:

- **memory**. Headers, nodes and alignment are those of the 32-bit build scaled down
  (12, 8, 4 to 4, 2, 2). The region starts and ends unaligned. It holds the sentinels and
  up to five chunks between them: a chunk with a free chunk on either side, a used one, or
  the sentinel, in every combination, is all `free` looks at. The sizes 1 and 6 and the product
  3 give splits with exact room, without room, and with a rest; two slots are in use. `SIZE_MOD`
  is 64, so the counters wrap in both directions. The run compares states under
  `LiveState`, which leaves out the header of an address that is no chunk and the list node of
  a used chunk. Nothing reads these before it writes them: `split` initialises the header of
  the chunk it makes, `release` the node. Without the view the run has seven times as many
  states and says the same. Deadlock cannot occur: `free(NULL)` is always possible.
- **threads**. Three threads are those of `foo.ml`; with three a wrong link shows, as with two
  the ring has no order. One thread may return, which stops the machine (`abort`). One
  channel is enough for the lock to be contended by all; with a second one `LockExclusive` fails for the reason
  `threads_raise` shows.
- **routines**, printf. `MCNumbers` takes every set of flags with every type, two widths and
  precisions, a negative width from `*`, and numbers that need the truncation of `%hhd`;
  `MCPairs` makes all pairs of directives, but for those in which an unknown placeholder is directly before another one
  (`printf_unknown`), with buffers that end at the text or two cells later,
  and those that advance without room with buffers that end anywhere. The others loop for ever there,
  which is `printf_full`. The callers that panic get the buffers that end in the text, at it and after it. `BUF_CAP`
  is how far beyond its end `buf` is counted; no text of the run is longer.
- **routines**, strtol. With `LONG_MAX` 127 four characters reach both ends of the range with and
  without sign and prefix in the bases 8, 10, 16 and detected; the other bases are only checked
  for the limits of the base.
- **routines**, strings. Areas of up to four cells in a memory of eight overlap at every offset, in both orders;
  the two cells at the ends belong to no call. Strings have up to three
  characters, of two kinds besides NUL. `memcpy` is only called on areas apart, as C requires.
- **routines**, boot. All five regions of the source, 4096 entries. The bss starts at any word of
  eight, so that its length leaves every remainder by four words and is less than four in some images.
- **routines**, lists. Lists of one to four nodes: with four there are a first, a last, the node at hand and another.
  Bodies push and remove any number of times.
- **uart**. The text is longer than the FIFO, one line fits it exactly, and the other line, the message of `panic` and
  the dump do not fit. Panic and the fatal exception come anywhere, in and after the interrupts.
- **clock**. A tock is no divisor of WORD, so that matches fall anywhere in the rollover, which
  happens twice within `HORIZON`. `LATENCY` is the greatest that is less than a tock: the handler
  prints one line, far less than the second of a tock.
- **framebuffer**. A mailbox of one mail is full while a foreign mail is in it, so that both waiting loops
  run. The answers have every word the driver tests right and wrong, and first tags whose size leads the
  scan to its tag, to the word after the message, and beyond. That word holds 0 or rubbish before.

**Fairness.** `Threads!Fairness`: weak for the processor (`resume`, `starter`, a turn of the
waiting loop, the return of the handler) and for the timer; strong for `handler`, because every
loop of `foo.ml` allocates and so looks for signals in each of its turns, and for
`caml_io_mutex_unlock`, because a tick of a second lasts longer than a write. Without the
handler a thread that never yields would keep the processor. `Uart`: weak for the processor and
for the UART; nothing for interrupts, which `AllPrinted` survives because they are finitely many
here (the kernel could starve under a flood of them), and nothing for panic and fatal exceptions. `Framebuffer`: weak for the processor and the GPU, which
answers what it is sent. `Routines` (and `Printf` in its own runs): weak for the
next step of the routine; of the list loop, for the end of a body, not for what a body does.

## Proofs

A module `XProofs` proves about `X`, for every value of its constants that the assumptions allow; `ConversionProofs` is about
`Printf` and `Strtol` in `Routines`, `RoutinesProofs` about the rest of it. Each has an
inductive invariant `IInv`, or one for each part or property, and a lemma for each action that keeps it. `Lemmas` has what
several of them rest on: induction, walks along a pointer, rings, and sequences one after the other.

| module | theorem | statement |
|---|---|---|
| `MemoryProofs` | `TypeCorrect` | `Spec => []TypeOK` |
| | `InOrder` | `Spec => []AllListInOrder` |
| | `CoalescedAlways` | `Spec => []Coalesced` |
| | `FreeListsExactAlways` | `Spec => []FreeListsExact` |
| | `CountersMatchAlways` | `Spec => []CountersMatch` |
| | `Untouched` | `Spec => OthersUntouched` |
| | `Agreement` | `NoWrap => (Spec => []OwnersAgree)` |
| | `Implements` | `NoWrap => (Spec => HeapPromise)` |
| | `Disjointness` | `NoWrap => (Spec => []Promise!Disjoint)` |
| `ThreadsProofs` | `TypeCorrect` | `Spec => []TypeOK` |
| | `OwnContextAlways` | `Spec => []OwnContext` |
| | `ScanExactAlways` | `Spec => []ScanExact` |
| | `LockExclusiveAlways` | `SingleChannel /\ RaiseAnywhere = FALSE => (Spec => []LockExclusive)` |
| | `SchedulerImplemented` | `Spec => SchedulerPromise` |
| `ClockProofs` | `OnTimeAlways` | `Spec => []OnTime` |
| | `ReadingCloseAlways` | `Spec => []ReadingClose` |
| `UartProofs` | `IrqLinesWholeAlways` | `Spec => []IrqLinesWhole` |
| | `LastWordsAlways` | `Spec => []LastWords` |
| | `LossBoundedAlways` | `Distinct => (Spec => []LossBounded)` |
| `FramebufferProofs` | `TypeCorrect` | `Spec => []TypeOK` |
| | `ErrorHonestAlways` | `Spec => []ErrorHonest` |
| | `RequestIntactAlways` | `Spec => RequestIntact` |
| `ConversionProofs` | `PutsWholeAlways` | `Separated => (Spec => []PutsWhole)` |
| | `NumbersRightAlways` | `CharsFit /\ Separated => (Spec => []NumbersRight)` |
| | `FormattedAlways` | `Regular /\ Separated => (Spec => []Formatted)` |
| | `RightAlways` | `Readable => (Spec => []Right)` |
| `RoutinesProofs` | `MappedAlways` | `Spec => []Mapped` |
| | `WritesInsideAlways` | `Spec => []WritesInside` |
| | `StringsRightAlways` | `Spec => []StringsRight` |
| | `BssClearedAlways` | `Spec => []BssCleared` |
| | `InBoundsAlways` | `Roomy => (Spec => []InBounds)` |
| | `ListSoundAlways` | `Spec => []ListSound` |
| | `EachOnceAlways` | `Spec => []EachOnce` |

**Assumptions.** They are next to the constants, and TLC evaluates each in a run. Of the heap: sizes are multiples of the
alignment, the region has room for its two sentinels and a chunk and does not wrap around, requests are of `size_t`. Of the threads: there
are finitely many, and the first one never returns. Of the clock: a tock is shorter than a rollover of CLO, and the handler is
never later than a tock. Of the console: texts are of characters, and the FIFO has room for one. Of the framebuffer: its
channel is not that of others, and the mailbox has room for a mail. Of the routines: bss is not empty; the
characters include those of numbers, and NUL is none of them; `vsnprintf` gets directives as `Legal` has them, with the arguments they take; and the string functions are called as C
allows. Bases, `LONG_MAX` and the sizes of buffers are any. `NULL` is never anything else. `HORIZON` is any natural number, so that it bounds nothing in the proofs.

**Hypotheses.** Some properties need more, and the runs check them under the same:

- `NoWrap`: no request is within `ALIGN - 1` of `SIZE_MOD`. Such a request is rounded up to 0 and served with a block
  of the least size.
- `SingleChannel` and no exceptions elsewhere: the code is wrong without them. `threads_raise` shows the one, and
  two channels go wrong the same way. The threads of `foo.ml` write to one channel.
- `Distinct`: no character appears twice in the text of the kernel, nor in what handlers print. `LossBounded` tells
  by the characters in the output which of them are the kernel's.
- `Roomy`: the buffer has the size `vsnprintf` is told of. `sprintf` tells it 4096 whatever there is (`main.c:766`), and the last of these is set
  to NUL.
- `Separated`: no unknown placeholder is directly before another one. `printf_unknown` shows what becomes of such a pair; `InBounds` holds
  with them too.
- `CharsFit`: a text with a `%c` fits its buffer. `%c` does not take its argument in a full one (`printf.c:313`), and the numbers after it
  get the wrong ones.
- `Regular`: a text fits its buffer, or is of directives whose count is right beyond it: no `%c`, and no `%.ns` with an `n` beyond the
  end of its string (`printf.c:324`), and it is not longer than `BUF_CAP` beyond it. It admits the texts that `printf_full` loops
  on: `Formatted` is about what is returned.
- `Readable`: in a given base from 2 to 36, or base 0, `digit` takes every character of the string for what it is (it
  does not for letters, `main.c:577`), `"+-"` does not occur, nor does `"0X"` when the base is to be detected.

**Heap.** None of the properties is inductive by itself: that a merge keeps the order of
the list needs the used bits of both neighbours, that used bits and neighbours agree needs the
list, and that `pop` returns a free chunk of a size in its slot needs what is on the free lists.
`IInv` joins `HeapInv(heap)` and the agreement of `block` with the used chunks. `HeapInv` has three
parts: `RingOf`, the doubly linked list through a set of chunks in address order; `ListsOf`, the
free lists as a whole: each head is a free chunk of its slot, the neighbours of a free node are
free nodes of the same slot, and the free chunks of a slot are one cycle (`OneRing`); and the local form of coalescing, that
the chunk after a free one is used. The argument follows the code. `RingInsert`, `RingRemove`, `ListsPush` and `ListsRemove` are what
the list operations do to these parts. `RemoveFree`, `PushFree`, `MergeNext`, `MergeToPrev`, `Release` and
`Freed` build `free` out of them; `Pop`, `Split`, `HandOut` and `Take` build `malloc`. Each lemma states
the chunks, their sizes and used bits afterwards. In between a call the heap is not coalesced and a
chunk may be on no list, so that the lemmas are about parts of `HeapInv`. `TakeStep`,
`FreeStep`, `ResizeStep` and `MoveStep` add `block`, and `NextIInv` has a case for each call. `SlotMonotonic`
is the reason the chunk found is large enough; `Layout`, that chunks in order do not overlap,
is what turns `IInv` into the steps of `Heap` (`PromiseStep`).

The counters have an invariant of their own, `Balanced(h, due)`: modulo `SIZE_MOD`, `mem_meta` is the headers there are, and
`mem_free - mem_used` is what the free chunks weigh less what those in use do (`Weight`), and a header, plus `due`. `due` is what the code
has still to count at that point of a call; it is 0 between calls. The lemmas `...Balance` go through the nine places that change a counter.
The sums in it are folds over finite sets, about which a section at the start of the module has what is needed:
a member can be taken out, added or changed, and a sum over disjoint sets is two sums.

**Lists.** `OneRing` says of a cycle that it is a single one without walking along it: no proper part of its nodes is
closed under the pointer. `Lemmas` proves that insertion and removal keep it, and that a walk as long as the ring then meets all
of it (`ReachedRing`), which is how `FreeListsExact` and `ListSound` state it. For the loop of `list.h`
`LoopInv` adds `ComingInv`: from the saved next node to the saved last one the list leads through the nodes still to come, in
their order, whatever a body has removed or pushed; and `VisitedInv`: the nodes up to the present one were visited but for those removed before their turn.

**Threads.** `IInv` has the ring of descriptors as a sequence `q` of all threads from `curr_thread` on along `next`
(`Ring`). `Stacks`: a thread off the processor is on its own stack with its own context in its descriptor, and one that has not run yet
has the processor. `Halves`: between the halves of a switch the processor is with the successor of `curr_thread`; afterwards it
is with `curr_thread`, and the globals are its context while it is in C. `ScanExact` needs that the walk along `next` is the ring
(`RingFollows`). The queue of `Scheduler` is that ring, turned by one between the halves (`RingIsQueue`), so that
`schedule` is `Yield`, `caml_thread_create` is `Create`, and the second half of a switch is a stutter. `LInv` says that a channel is locked exactly when
`last_channel_locked` names it, and by one thread.

**Clock.** `Due` is the time of the next match, counted from `began` by the tocks recorded. `Ahead`: it is less than a tock away
and `C1` has its low half; `Late`: it has come less than `LATENCY` ago, and where the handler is says which of match bit, `C1`
and count have been done. As a tock is shorter than a rollover, `CLO = C1` means that `Due` has come and not a round before. For the
reads of CHI and CLO `ReaderInv` has for each a time between the call and now of which it is the half.

**Console.** `HandlerInv`: what a handler has printed of its text is the end of the output (`Saying`), because whoever it interrupted waits,
and a line that is complete stays. `ReadyInv`: room, once seen, stays until someone else writes, which for the kernel is an interrupt; so that the
characters lost are no more than the interrupts. `KernelInv` adds that the output, without what handlers print, is
the text up to some place without what was lost. `Only` (what of a sequence is in a set, as a recursive function) stands in
the place of `SelectSeq`, about which nothing could be proved.

**Framebuffer.** `MailInv`: while the driver waits its mail is in exactly one of the outbox, the GPU and the inbox.
`CacheInv`: what was written to the cache is in memory when the mail goes out, and nothing is cached while the GPU may
write. `BufferInv`: the buffer has the request until it is answered, and the answer from then on. `HistoryInv`: what was stored in `fb` is what
the answers to the earlier requests say.

**Routines.** `StringInv` is the loop invariants of `string.c`: for `memmove` (`MoveInv`), in each direction, that what was passed has been copied and
what is still to be read has not been overwritten. `BootInv` is that of the clearing of bss, `PrintInv` that of `buf_add`: cells outside of the buffer are as they were.
`TableInv` is that of the page table: what is written is the beginning of the table the regions stand for (`Entry`), and `r6` is the entry that follows.

**printf.** Nothing of `vsnprintf`'s state says what it has printed but `text`, so that the invariants join both ends. `Exact`: what is in the buffer, what the
loops still stand for, and what the rest of the format stands for with the arguments that are left, are `text`, one after
the other; with it goes that `buf` counts what was printed. A turn of a loop moves one character from the second to the first,
`begin` one directive from the third to the second. Within the buffer this is inductive (`WholeInv`); when it is full the loops that
advance in `buf_add` stand still and `%c` shifts the arguments, so that all that is left there is that `buf` is beyond the end
(`Beyond`): a result that fits was never there. `FormattedAlways` needs the count beyond the end too, so that `RegularInv` keeps `Exact` there, but for a loop that stands still
for ever (`Stuck`). `NumbersInv` has the arguments left to the format instead, and `NumberRight` is about a single number: sign, prefix, fill,
precision and digits in every combination of flags are as long as the width asks for, and read back as the argument. It rests on `digits` and `read_back`
being inverse in base 10 and 16.

**strtol.** `StrtolInv` has the value of the digits so far (`Gathered`), with the sign in front, in `res`, while it is in range; that
`strtol` stops before the multiplication that leaves the range, on either side of 0, and not before, is `FitsIs`. Where `Expected` looks ahead for the prefix,
for the first digit and for the end of the digits, `strtol` is somewhere in between; `Ready` and `SoFar` say where.

**Induction.** The library states induction for operators as parameters, which the provers do not instantiate. `Lemmas`
derives it for sets from the well-foundedness of the natural numbers (`NatSetInduction`, `IntervalInduction`): the set of numbers
that satisfy the claim is all of them. The lemmas about walks, `Only`, lengths of strings, numbers, texts and sums rest on it.

**Only model-checked.** Liveness, which the prover does not treat: `EveryThreadRuns`, `LockReleased`, `AllPrinted` and the two `Returns`.
What the other runs find violated is shown by their counterexamples. That the hypotheses above hold of the instances of the runs
has been evaluated by TLC, with cases on either side of the end of the buffer.

## Findings

Disagreements of the code with its own comments and tests, each with a run that shows it:

- `memory_wild`: `calloc` and `realloc` write through NULL when memory is out; `realloc` then frees the
  block it failed to move (`memory.c:179`, `:194`).
- `threads_raise`: an exception unlocks whatever channel was locked last (`Thread_stubs.c:199`).
- `printf_full`: a loop that advances inside `buf_add` never ends once the buffer is full (`printf.c:319`).
- `uart_loss`: a character lost between test and write (`uart.c:133`).
- `printf_unknown`: an unknown placeholder directly before another one is lost, and the other is printed as text; its argument goes to
  the next (`printf.c:333`).
- `framebuffer_result`: `ocaml_rpi__fb_init` returns `Int_val` of its code where `Framebuffer.ml:46` takes a constructor: OCaml reads no result
  as it was meant, and two failures as SUCCESS (`Framebuffer_stubs.c:189` to `:358`).

Seen in reading and not run: `malloc` rounds a request within `ALIGN - 1` of `SIZE_MAX` to 0 (`memory.c:100`), and the product
of `calloc` wraps too (`:177`); `sprintf` says its buffer has 4096 characters, and `vsnprintf`
sets the last of them to NUL whatever the text, far behind a buffer that has just the room for it (`main.c:766`, `printf.c:338`); `digit` gives the letters
the values from 16 on, so that `strtol` stops at the hexadecimal digits `a` to `f`, which `sprint_int` writes (`main.c:577`);
`caml_thread_create` returns 0, which is no OCaml value, when there is no memory (`Thread_stubs.c:224`); `mem_free` and `mem_used` drift by a header for each chunk handed out
uncut (`CountersMatch` states by how much they are off together); `strtol` takes `"+-5"`, and does not
detect `"0X10"` as hexadecimal (`main.c:610`); `%c` does not take its argument in a full
buffer (`printf.c:313`); `__sprintf_chk` passes on the size of an object the compiler does not know, `SIZE_MAX`, with the same
effect as in `sprintf` (`main.c:747`); `fwrite` returns bytes where C has it return items (`main.c:314`); `strcat` starts behind the NUL of `dest`, it and `strcpy` write no NUL, and `strcmp` never enters its
loop, so that all strings are equal (`string.c:74-95`); a body that removes the saved next node leaves the loop of `list.h` in a ring of
its own (`list.h:153`); the clearing of bss writes up to three words too many, into the far end of the stack (`boot.S:154`); `%.3s` of a shorter string counts too much in a full buffer (`printf.c:324`); printf takes
a result of exactly `BUF_SIZE` as one that fits, and prints it without its last character (`printf.c:37`, which `PutsWhole` allows for); the flag `' '` alone has no effect (`printf.c:142`); with
two channels an exception in an operation on one can unlock the other (`Thread_stubs.c:199`).

## Not modelled

- The C library stubs of `main.c`: constants and panics.
- The drawing in `ocaml_rpi__fb_init`, the register writes of `uart_init`, the switch to the higher half in
  `boot.S` and the saving of registers in `entry.S`: sequences without conditions, onto hardware.
- The OCaml runtime, which is not in the repository, beyond what `Threads` says of it.
- `getc`, which nothing calls.
- Strings in `string.c` and bodies of the list loop outside of their contracts (overlapping `memcpy`, removing a saved node).
- Interrupts inside `memory.c`, `printf.c`, `string.c` and `Thread_stubs.c`: the handler shares no
  state with them but the console and the recorded signal.

## Plan

Done: 1. `DList`, `Heap`, `Memory`, `MemoryProofs`. 2. `Scheduler`, `Threads`. 3. `Printf`. 4. `Uart`, with `panic` and fatal
exceptions. 5. `Clock`. 6. `Strtol`. 7. `Framebuffer`. 8. `ListIterator`. 9. `Strings`. 10. `Boot`. 11. `Routines`, which composes 3, 6, 8, 9 and 10.
12. `ThreadsProofs`, `ClockProofs`, `UartProofs`, `FramebufferProofs`, `RoutinesProofs`, and the free lists and counters in
`MemoryProofs`. 13. `ConversionProofs`, and the page table in `RoutinesProofs`.

Next:

14. `ocaml_thread_init` called again, and what it leaves in `local_roots`; the program never does it.
15. The arguments of `vsnprintf` after a `%c` that met the end of the buffer: a property that states what is printed then.
