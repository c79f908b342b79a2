--------------------------------- MODULE Boot ---------------------------------
(***************************************************************************)
(* The loops of boot.S: the page table, a supersection a step, and the     *)
(* clearing of bss, four words a step.  Registers have their names.        *)
(*                                                                         *)
(* The table has an entry for each MB of virtual memory; an entry is the   *)
(* address of physical memory, in MB, with the attributes of the memory,   *)
(* or NULL.  Supersections, of 16 MB, stand 16 times.                      *)
(***************************************************************************)
EXTENDS Integers, Sequences

CONSTANTS
  NULL,
  Images     \* the <<_bss_start, _bss_end>> of the images linked, in words

VARIABLES
  table,     \* the page table, as far as it is filled
  r5, r6, r8,  \* the regions left, the entry, the entries left of the region
  bss,       \* _bss_start and _bss_end, NULL while the table is filled
  r4,        \* the next word to clear, NULL before
  cleared    \* the words that are 0

boot == <<table, r5, r6, r8, bss, r4, cleared>>

section(megabyte, attributes) == [phys |-> megabyte, attributes |-> attributes]

\* All there may be.
Sections == [phys : Int, attributes : {"write-back", "write-through", "device"}]

\* Mutant of memory_regions: the second region is a supersection too long.
memory_regions_long ==
  << <<section(0, "write-back"), 16, 16>>, <<NULL, 0, 177>>,
     <<section(0, "write-back"), 16, 16>>, <<section(256, "write-through"), 16, 16>>,
     <<section(512, "device"), 16, 32>> >>

\* The regions of memory: first entry, increment and count.
memory_regions ==
  << <<section(0, "write-back"), 16, 16>>, <<NULL, 0, 176>>,
     <<section(0, "write-back"), 16, 16>>, <<section(256, "write-through"), 16, 16>>,
     <<section(512, "device"), 16, 32>> >>

Region(n) == memory_regions[Len(memory_regions) + 1 - n]

Init ==
  /\ table = <<>>
  /\ r5 = Len(memory_regions)
  /\ r6 = Region(r5)[1]
  /\ r8 = Region(r5)[3]
  /\ bss = NULL
  /\ r4 = NULL
  /\ cleared = {}

\* val += incr
added(val, incr) == IF val = NULL THEN NULL ELSE [val EXCEPT !.phys = @ + incr]

\* A turn of .L2: the entry is stored 16 times (.L3), then it goes on to the
\* next one of the region, or, with .L1, to the next region.
store_entry ==
  /\ r5 > 0
  /\ table' = table \o [i \in 1 .. 16 |-> r6]
  /\ \/ /\ r8 > 1
        /\ r8' = r8 - 1
        /\ r6' = added(r6, Region(r5)[2])
        /\ UNCHANGED r5
     \/ /\ r8 = 1
        /\ r5' = r5 - 1
        /\ IF r5' > 0
           THEN r8' = Region(r5')[3] /\ r6' = Region(r5')[1]
           ELSE r8' = 0 /\ r6' = added(r6, Region(r5)[2])
  /\ UNCHANGED <<bss, r4, cleared>>

\* The switch to the higher half; the image matters from here on.
higher_half ==
  /\ r5 = 0 /\ r4 = NULL
  /\ bss' \in Images
  /\ r4' = bss'[1]
  /\ UNCHANGED <<table, r5, r6, r8, cleared>>

\* Mutant of below_end: the loop ends when four words would not fit.
below_end_early == r4 + 4 <= bss[2]

below_end == r4 < bss[2]

\* Four words are cleared, at least once.
clear ==
  /\ r4 # NULL
  /\ cleared = {} \/ below_end
  /\ cleared' = cleared \cup (r4 .. r4 + 3)
  /\ r4' = r4 + 4
  /\ UNCHANGED <<table, r5, r6, r8, bss>>

Booted == r4 # NULL /\ cleared # {} /\ ~below_end

Next == store_entry \/ higher_half \/ clear

-----------------------------------------------------------------------------

\* What is at the virtual address of m MB.
At(m) == table[m + 1]

\* The table fills the 16 kB up to the kernel and no more (it starts at
\* 0x4000, the kernel at 0x8000); supersections stand 16 times; the kernel is
\* at its physical and at its virtual address, in the same way, so that it
\* runs on when paging is switched on; all physical memory up to 1 GB is at
\* PHYS_TO_VIRT, the peripherals uncached, and nothing else is mapped.
Mapped ==
  r5 = 0 =>
    /\ Len(table) = 4096
    /\ \A m \in 0 .. 4095 : At(m) = At(m - (m % 16))
    /\ \A m \in 0 .. 255 : At(m) = At(m + 3072)
    /\ \A m \in 256 .. 3071 : At(m) = NULL
    /\ \A m \in 3072 .. 4095 :
         /\ At(m).phys = (m - 3072) - (m % 16)
         /\ At(m).attributes = "device" <=> m >= 3584

\* All of bss is cleared when the kernel is called, and beyond it at most
\* three words, of the far end of the stack.
BssCleared ==
  Booted => /\ bss[1] .. bss[2] - 1 \subseteq cleared
            /\ cleared \subseteq bss[1] .. bss[2] + 2

=============================================================================
