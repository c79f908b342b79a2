------------------------------ MODULE MCMemory ------------------------------
(***************************************************************************)
(* Memory on the sizes of the 32-bit build (headers of 12 bytes, list      *)
(* nodes of 8, alignment 4), scaled down, with a size_t of few bits, so  *)
(* that the counters wrap around and every drift is reached.               *)
(***************************************************************************)
EXTENDS Memory

MCSizes == {1, 6}
MCArrays == {<<3, 1>>}

\* The view of a state under which TLC compares it with others: the header of
\* an address that is no chunk is not part of it (split initialises a header
\* before anything reads it), nor are the bytes of a used chunk's list node.
LiveState ==
  <<{<<c, heap.all.next[c], heap.all.prev[c], heap.used[c]>> : c \in Chunks(heap)},
    {<<c, heap.free.next[c], heap.free.prev[c]>> : c \in FreeChunks(heap)},
    heap.free_chunk, heap.mem_free, heap.mem_used, heap.mem_meta, block, wild>>

=============================================================================
