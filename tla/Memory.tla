------------------------------- MODULE Memory -------------------------------
(***************************************************************************)
(* memory.c: the kernel's malloc, calloc, realloc and free.                *)
(*                                                                         *)
(* The arena is cut into chunks, each a header followed by its data, up to *)
(* the next chunk.  All chunks, in address order and closed into a ring by *)
(* the two sentinels first and last, are on the list `all`; the chunks     *)
(* that are not used are on the lists free_chunk[n], by the logarithm of   *)
(* their size.  A free chunk keeps its free-list pointers where the data   *)
(* of a used chunk is, so a client overwrites them (Data).                 *)
(*                                                                         *)
(* A chunk is known by its address.  The functions of memory.c work on the *)
(* globals and headers gathered in one record, heap; `block` is the book   *)
(* the clients keep, as test/memory.c does in slot and slot_size: each     *)
(* address they were handed and have not freed, with the size they asked.  *)
(* No call is interrupted by another: schedule() is not reached from       *)
(* memory.c and the interrupt handler does not allocate.                   *)
(***************************************************************************)
EXTENDS Integers, FiniteSets, FiniteSetsExt, DList

CONSTANTS
  mem, mem_size,   \* the region handed to memory_init
  ALIGN,        \* alignment of a Chunk
  HEADER_SIZE,  \* offset of the data in a Chunk
  MIN_SIZE,     \* size of a DList, the least data a chunk has
  NUM_SIZES,    \* number of free lists, and of bits of a size_t
  SIZE_MOD,     \* 2^NUM_SIZES: size_t arithmetic is modulo this
  Data,         \* what a client's bytes look like read as a pointer
  Sizes,        \* the sizes clients ask malloc and realloc for
  Arrays        \* the <<nmemb, size>> clients ask calloc for

SIZEOF_CHUNK == HEADER_SIZE + MIN_SIZE

\* x rounded down to a multiple of ALIGN: x & ~(ALIGN - 1).
AlignDown(x) == (x \div ALIGN) * ALIGN

\* The two sentinels memory_init sets at the ends of the region.
first == AlignDown(mem + ALIGN - 1)
last == AlignDown(mem + mem_size) - SIZEOF_CHUNK
second == first + SIZEOF_CHUNK

Addr == {k * ALIGN : k \in (first \div ALIGN) .. (last \div ALIGN)}
Slots == 0 .. NUM_SIZES - 1

ASSUME SizesAssumption ==
  /\ ALIGN \in Nat \ {0}
  /\ HEADER_SIZE \in Nat /\ \E k \in 1 .. HEADER_SIZE : HEADER_SIZE = k * ALIGN
  /\ MIN_SIZE \in Nat /\ \E k \in 1 .. MIN_SIZE : MIN_SIZE = k * ALIGN
  /\ NUM_SIZES \in Nat \ {0}
  /\ SIZE_MOD \in Nat \ {0}
  /\ SIZE_MOD = 2 ^ NUM_SIZES

\* The region is an object of the 32-bit address space with room for the
\* sentinels and one chunk between them.
ASSUME RegionAssumption ==
  /\ mem \in Nat
  /\ mem_size \in Nat
  /\ mem + mem_size < SIZE_MOD
  /\ second + SIZEOF_CHUNK <= last

ASSUME ClientAssumption ==
  /\ Sizes \subseteq 0 .. SIZE_MOD - 1
  /\ Arrays \subseteq (0 .. SIZE_MOD - 1) \X (0 .. SIZE_MOD - 1)

ASSUME NullAssumption == NULL \notin Int /\ Data \notin Int

VARIABLES
  heap,   \* all, used, free, free_chunk, mem_free, mem_used, mem_meta
  block,  \* what the clients hold: address -> size asked for
  wild    \* calloc or realloc has written through the NULL malloc gave it

vars == <<heap, block, wild>>

-----------------------------------------------------------------------------
(* The helpers of memory.c.                                                *)

\* The bytes of data of chunk c: up to the header of the next chunk.
memory_chunk_size(h, c) == h.all.next[c] - c - HEADER_SIZE

\* The loop halves size until nothing is left: halving k is made when
\* 2^k <= size, and the result is the number of halvings, less one.
memory_chunk_slot(size) ==
  Cardinality({k \in 0 .. NUM_SIZES - 1 : 2 ^ k <= size}) - 1

\* remove_free: c leaves the list of its size.
remove_free(h, c) ==
  LET len == memory_chunk_size(h, c)
      n == memory_chunk_slot(len)
  IN  [h EXCEPT !.free = dlist_remove(h.free, c),
                !.free_chunk[n] = dlist_remove_from_head(h.free, @, c),
                !.mem_free = (@ - (len - HEADER_SIZE)) % SIZE_MOD]

\* Mutant of push_free: all of len is counted as free, the header it keeps
\* for the day it is split too.
push_free_whole(h, c) ==
  LET len == memory_chunk_size(h, c)
      n == memory_chunk_slot(len)
  IN  [h EXCEPT !.free = dlist_push(h.free, h.free_chunk[n], c),
                !.free_chunk[n] = c,
                !.mem_free = (@ + len) % SIZE_MOD]

\* push_free: c goes to the front of the list of its size.
push_free(h, c) ==
  LET len == memory_chunk_size(h, c)
      n == memory_chunk_slot(len)
  IN  [h EXCEPT !.free = dlist_push(h.free, h.free_chunk[n], c),
                !.free_chunk[n] = c,
                !.mem_free = (@ + len - HEADER_SIZE) % SIZE_MOD]

-----------------------------------------------------------------------------
(* malloc                                                                  *)

\* Mutant of rounded: the size is rounded down.
rounded_down(size) ==
  IF AlignDown(size) < MIN_SIZE THEN MIN_SIZE ELSE AlignDown(size)

\* The size malloc works with, in size_t arithmetic: aligned, and at least
\* MIN_SIZE.
rounded(size) ==
  LET aligned == AlignDown((size + ALIGN - 1) % SIZE_MOD)
  IN  IF aligned < MIN_SIZE THEN MIN_SIZE ELSE aligned

\* Mutant of candidates: the search starts at the list of size itself, which
\* also holds chunks smaller than size.
candidates_early(h, size) ==
  {n \in Slots : /\ n >= memory_chunk_slot(rounded(size))
                 /\ h.free_chunk[n] # NULL}

\* The lists malloc may serve size from: those whose chunks are all large
\* enough, the empty ones passed over.
candidates(h, size) ==
  {n \in Slots : /\ n >= memory_chunk_slot(rounded(size) - 1) + 1
                 /\ h.free_chunk[n] # NULL}

\* Slot n is where the search ends.
finds(h, size, n) ==
  /\ n \in candidates(h, size)
  /\ \A m \in candidates(h, size) : n <= m

\* A chunk of size2 bytes is cut when the rest of it makes a chunk.
cuts(size, size2) == rounded(size) + SIZEOF_CHUNK <= size2

\* Mutant of split: the second chunk starts without room for the first's header.
split_early(h, chunk, size) ==
  LET chunk2 == chunk + size
      linked == [h EXCEPT
                   !.all = dlist_insert_after(dlist_init(@, chunk2), chunk, chunk2),
                   !.used[chunk2] = 0,
                   !.free = dlist_init(@, chunk2)]
  IN  [push_free(linked, chunk2) EXCEPT
         !.mem_meta = (@ + HEADER_SIZE) % SIZE_MOD]

\* chunk, of size2 bytes, is cut in two, and what follows its first size
\* bytes becomes a free chunk of its own.
split(h, chunk, size) ==
  LET chunk2 == chunk + HEADER_SIZE + size
      linked == [h EXCEPT
                   !.all = dlist_insert_after(dlist_init(@, chunk2), chunk, chunk2),
                   !.used[chunk2] = 0,
                   !.free = dlist_init(@, chunk2)]
  IN  [push_free(linked, chunk2) EXCEPT
         !.mem_meta = (@ + HEADER_SIZE) % SIZE_MOD]

\* The client of chunk c writes to its data, where the free-list pointers were.
overwritten(l, c) == [next |-> [l.next EXCEPT ![c] = Data],
                      prev |-> [l.prev EXCEPT ![c] = Data]]

\* Mutant of hand_out: the chunk is not marked used.
hand_out_unmarked(h, chunk, size2, len) ==
  [h EXCEPT !.mem_free = (@ - size2) % SIZE_MOD,
            !.mem_used = (@ + size2 - len - HEADER_SIZE) % SIZE_MOD,
            !.free = overwritten(@, chunk)]

\* chunk, of size2 bytes of which the last len were cut off, goes to a client.
hand_out(h, chunk, size2, len) ==
  [h EXCEPT !.used[chunk] = 1,
            !.mem_free = (@ - size2) % SIZE_MOD,
            !.mem_used = (@ + size2 - len - HEADER_SIZE) % SIZE_MOD,
            !.free = overwritten(@, chunk)]

\* The chunk taken from slot n, and the heap malloc leaves behind.
taken(h, n) == h.free_chunk[n]

take(h, n, size) ==
  LET chunk == taken(h, n)
      size2 == memory_chunk_size(h, chunk)
      popped == [h EXCEPT !.free = dlist_remove(@, chunk),
                          !.free_chunk[n] = dlist_pop_head(h.free, chunk)]
  IN  IF cuts(size, size2)
      THEN hand_out(split(popped, chunk, rounded(size)), chunk, size2,
                    size2 - rounded(size) - HEADER_SIZE)
      ELSE hand_out(popped, chunk, size2, 0)

-----------------------------------------------------------------------------
(* free                                                                    *)

\* next, a free chunk, becomes part of the chunk before it.
merge_next(h, next) ==
  LET unlisted == remove_free(h, next)
  IN  [unlisted EXCEPT !.all = dlist_remove(@, next),
                       !.mem_meta = (@ - HEADER_SIZE) % SIZE_MOD,
                       !.mem_free = (@ + HEADER_SIZE) % SIZE_MOD]

\* chunk becomes part of prev, the free chunk before it.
merge_to_prev(h, prev, chunk) ==
  LET unlinked == [remove_free(h, prev) EXCEPT !.all = dlist_remove(@, chunk)]
  IN  [push_free(unlinked, prev) EXCEPT
         !.mem_meta = (@ - HEADER_SIZE) % SIZE_MOD,
         !.mem_free = (@ + HEADER_SIZE) % SIZE_MOD]

\* chunk becomes a free chunk of its own.
release(h, chunk) ==
  push_free([h EXCEPT !.used[chunk] = 0,
                      !.free = dlist_init(@, chunk)], chunk)

\* Mutant of freed: the chunk before the freed one is not looked at.
freed_forward(h, chunk) ==
  LET next == h.all.next[chunk]
      h1 == [h EXCEPT !.mem_used = (@ - memory_chunk_size(h, chunk)) % SIZE_MOD]
      h2 == IF h.used[next] = 0 THEN merge_next(h1, next) ELSE h1
  IN  release(h2, chunk)

freed(h, chunk) ==
  LET next == h.all.next[chunk]
      prev == h.all.prev[chunk]
      h1 == [h EXCEPT !.mem_used = (@ - memory_chunk_size(h, chunk)) % SIZE_MOD]
      h2 == IF h.used[next] = 0 THEN merge_next(h1, next) ELSE h1
  IN  IF h.used[prev] = 0 THEN merge_to_prev(h2, prev, chunk)
                          ELSE release(h2, chunk)

-----------------------------------------------------------------------------
(* The calls clients make.                                                 *)

chunk_of(p) == p - HEADER_SIZE
data_of(c) == c + HEADER_SIZE

Held(b, p, size) == [q \in DOMAIN b \cup {p} |-> IF q = p THEN size ELSE b[q]]
Dropped(b, p) == [q \in DOMAIN b \ {p} |-> b[q]]

malloc(size) ==
  \/ /\ candidates(heap, size) = {}
     /\ UNCHANGED vars
  \/ \E n \in Slots :
       /\ finds(heap, size, n)
       /\ heap' = take(heap, n, size)
       /\ block' = Held(block, data_of(taken(heap, n)), size)
       /\ UNCHANGED wild

free(p) ==
  \/ /\ p = NULL
     /\ UNCHANGED vars
  \/ /\ p # NULL
     /\ heap' = freed(heap, chunk_of(p))
     /\ block' = Dropped(block, p)
     /\ UNCHANGED wild

\* calloc clears the memory malloc found, or that at NULL when it found none.
calloc(nmemb, size) ==
  LET product == (nmemb * size) % SIZE_MOD
  IN  \/ /\ candidates(heap, product) = {}
         /\ wild' = (wild \/ product > 0)
         /\ UNCHANGED <<heap, block>>
      \/ \E n \in Slots :
           /\ finds(heap, product, n)
           /\ heap' = take(heap, n, product)
           /\ block' = Held(block, data_of(taken(heap, n)), nmemb * size)
           /\ UNCHANGED wild

\* realloc never shrinks a chunk; to grow, it takes a second one, copies to
\* it, or to NULL when there is none, and frees the first in both cases.
realloc(p, size) ==
  \/ /\ memory_chunk_size(heap, chunk_of(p)) >= size
     /\ block' = Held(block, p, size)
     /\ UNCHANGED <<heap, wild>>
  \/ /\ memory_chunk_size(heap, chunk_of(p)) < size
     /\ \/ /\ candidates(heap, size) = {}
           /\ heap' = freed(heap, chunk_of(p))
           /\ block' = Dropped(block, p)
           /\ wild' = TRUE
        \/ \E n \in Slots :
             /\ finds(heap, size, n)
             /\ heap' = freed(take(heap, n, size), chunk_of(p))
             /\ block' = Dropped(Held(block, data_of(taken(heap, n)), size), p)
             /\ UNCHANGED wild

-----------------------------------------------------------------------------

\* memory_init: the sentinels, marked used so that nothing is merged with
\* them, and one free chunk between them.
Ring ==
  LET alone == [next |-> [a \in Addr |-> a], prev |-> [a \in Addr |-> a]]
  IN  dlist_insert_after(dlist_insert_after(alone, first, second), second, last)

memory_init ==
  LET blank == [all        |-> Ring,
                used       |-> [a \in Addr |-> IF a \in {first, last} THEN 1 ELSE 0],
                free       |-> [next |-> [a \in Addr |-> a],
                                prev |-> [a \in Addr |-> a]],
                free_chunk |-> [n \in Slots |-> NULL],
                mem_free   |-> 0,
                mem_used   |-> 0,
                mem_meta   |-> (2 * SIZEOF_CHUNK + HEADER_SIZE) % SIZE_MOD]
  IN  push_free(blank, second)

Init ==
  /\ heap = memory_init
  /\ block = [p \in {} |-> 0]
  /\ wild = FALSE

Next ==
  \/ \E size \in Sizes : malloc(size)
  \/ \E a \in Arrays : calloc(a[1], a[2])
  \/ \E p \in DOMAIN block \cup {NULL} : free(p)
  \/ \E p \in DOMAIN block, size \in Sizes : realloc(p, size)

Spec == Init /\ [][Next]_vars

-----------------------------------------------------------------------------
(* What a heap consists of.                                                *)

\* The chunks: the addresses linked into the list `all`, which never has
\* fewer than three of them (an address outside it is linked to itself).
Chunks(h) == {c \in Addr : h.all.next[c] # c}
Inner(h) == Chunks(h) \ {first, last}
FreeChunks(h) == {c \in Chunks(h) : h.used[c] = 0}
UsedChunks(h) == {c \in Inner(h) : h.used[c] = 1}

\* The free chunks of the sizes that belong in slot n.
InSlot(h, n) ==
  {c \in FreeChunks(h) : memory_chunk_slot(memory_chunk_size(h, c)) = n}

\* The nodes met on a walk along list n, as long as the arena allows.
OnList(h, n) ==
  Reached({h.free_chunk[n]} \ {NULL}, h.free.next, Cardinality(FreeChunks(h)))

\* The bytes of data in the chunks of S.
Total(h, S) == SumFunctionOnSet([c \in Addr |-> memory_chunk_size(h, c)], S)

-----------------------------------------------------------------------------
(* Invariants.                                                             *)

Pointers == [next : [Addr -> Addr], prev : [Addr -> Addr]]
FreePointers == [next : [Addr -> Addr \cup {Data}],
                 prev : [Addr -> Addr \cup {Data}]]
SizeT == 0 .. SIZE_MOD - 1

HeapType == [all        : Pointers,
             used       : [Addr -> {0, 1}],
             free       : FreePointers,
             free_chunk : [Slots -> Addr \cup {NULL}],
             mem_free   : SizeT,
             mem_used   : SizeT,
             mem_meta   : SizeT]

\* The type invariant: pointers point at headers or are client data where
\* only client data may be, counters are size_t.
TypeOK ==
  /\ heap \in HeapType
  /\ DOMAIN block \subseteq {data_of(c) : c \in Addr}
  /\ \A p \in DOMAIN block : block[p] \in Nat
  /\ wild \in BOOLEAN

\* The list `all` stays a doubly linked ring through every chunk in address
\* order, from sentinel to sentinel, and every chunk has room for the free
\* list pointers it needs when it is freed: what check() of test/memory.c
\* walks the list for.
AllListInOrder ==
  /\ {first, last} \subseteq Chunks(heap)
  /\ heap.used[first] = 1 /\ heap.used[last] = 1
  /\ heap.all.next[last] = first
  /\ \A c \in Chunks(heap) :
       /\ heap.all.next[c] \in Chunks(heap)
       /\ heap.all.prev[heap.all.next[c]] = c
       /\ c # last => /\ memory_chunk_size(heap, c) >= MIN_SIZE
                      /\ \A d \in Chunks(heap) : d > c => d >= heap.all.next[c]

\* Every free chunk is on the one list malloc looks for it on, the list of
\* its present size, and the lists hold nothing else: no chunk is lost, none
\* is handed out twice, and no list runs into the data of a client.
FreeListsExact ==
  \A n \in Slots :
    /\ OnList(heap, n) = InSlot(heap, n)
    /\ \A c \in InSlot(heap, n) : heap.free.prev[heap.free.next[c]] = c

\* free merges a chunk with its neighbours on both sides: two free chunks
\* are never adjacent, whatever was freed in whatever order, so a heap with
\* nothing in use is one chunk again.
Coalesced ==
  /\ \A c \in FreeChunks(heap) : heap.used[heap.all.next[c]] = 1
  /\ DOMAIN block = {} => Inner(heap) = {second}

\* Each client may write to as many bytes as it asked for, as fill_block of
\* test/memory.c does.
RoomForAll ==
  \A p \in DOMAIN block : block[p] <= memory_chunk_size(heap, chunk_of(p))

\* The allocator and its clients agree on what is in use: the used chunks
\* are the blocks clients hold, and each has the room its owner asked for.
OwnersAgree ==
  /\ DOMAIN block = {data_of(c) : c \in UsedChunks(heap)}
  /\ RoomForAll

\* calloc and realloc write to memory malloc gave them, as its callers do
\* who look at what it returned.
NoWildWrite == ~wild

\* The accounting: mem_meta is exact.  mem_free and mem_used are not, they
\* drift by HEADER_SIZE with each chunk malloc hands out uncut, but both by
\* the same amount: their difference is that of the free and used bytes.
CountersMatch ==
  /\ mem_meta_exact::
       heap.mem_meta =
         (2 * SIZEOF_CHUNK + HEADER_SIZE * Cardinality(Inner(heap))) % SIZE_MOD
  /\ drift_equal::
       (heap.mem_free - heap.mem_used) % SIZE_MOD =
         (Total(heap, FreeChunks(heap)) - Total(heap, UsedChunks(heap))
            - HEADER_SIZE * (Cardinality(Inner(heap)) - 1
                               + Cardinality(FreeChunks(heap)))) % SIZE_MOD

-----------------------------------------------------------------------------
(* Properties of steps and behaviours.                                     *)

\* Whatever one client calls, the chunks of the others keep their place and
\* their size, and are still marked used.
OthersUntouched ==
  [][\A p \in DOMAIN block \cap DOMAIN block' :
       /\ memory_chunk_size(heap, chunk_of(p)) = memory_chunk_size(heap', chunk_of(p))
       /\ heap'.used[chunk_of(p)] = 1]_vars

Requests == Sizes \cup {a[1] * a[2] : a \in Arrays}

\* memory.c implements the promise of memory.h.
Promise == INSTANCE Heap WITH Lo <- first, Hi <- last, Sizes <- Requests
HeapPromise == Promise!Spec

=============================================================================
