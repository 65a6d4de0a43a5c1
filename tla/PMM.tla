-------------------------------- MODULE PMM --------------------------------
(***************************************************************************)
(* kernel/mm/pmm.c: the physical page allocator, from the Multiboot memory *)
(* map to pmm_alloc_page and pmm_free_page.                                *)
(*                                                                         *)
(* The bitmap is the set of frames whose bit is 1.  pmm_init is one action *)
(* per entry of the memory map and one for its last two steps.  Addresses  *)
(* and lengths are bytes, modulo AddrMod where the code adds them.         *)
(***************************************************************************)
EXTENDS Integers, Sequences, FiniteSets, FiniteSetsExt

CONSTANTS
  PMM_PAGE_SIZE,   \* 4096
  PMM_PAGES_MAX,   \* 65536
  WordBits,        \* 32: frames per word of the bitmap
  LowPages,        \* 256: frames below 1 MB
  AddrMod,         \* 2^32
  KernelStart,     \* kernel_start
  KernelEnd,       \* kernel_end
  Mbis             \* what the boot loader may pass: mem, has_mmap, mmap, mods

Frames == 0..(PMM_PAGES_MAX - 1)
NULL == -1

ASSUME PMMAssumption ==
  /\ PMM_PAGE_SIZE \in Nat \ {0}
  /\ PMM_PAGES_MAX \in Nat \ {0}
  /\ WordBits \in Nat \ {0}
  /\ AddrMod \in Nat
  /\ AddrMod > PMM_PAGES_MAX
  /\ \A m \in Mbis : m.mem \in Nat
  /\ KernelStart \in Nat
  /\ KernelEnd \in Nat
  /\ KernelStart <= KernelEnd
  /\ KernelEnd + PMM_PAGE_SIZE <= AddrMod

\* The bitmap has no partial word.
ASSUME WordsFill == PMM_PAGES_MAX % WordBits = 0

\* A memory map entry: 64-bit base and length, in halves.
mmap_entry == [available : BOOLEAN, base_high : Nat, base_low : 0..(AddrMod - 1),
               length_high : Nat, length_low : 0..(AddrMod - 1)]

ASSUME MapsTyped == \A m \in Mbis : m.mmap \in Seq(mmap_entry)

VARIABLES
  mbi,
  step,          \* "mmap", "reserve": pmm_init; "ready": after it
  offset,        \* entries of the memory map already walked
  bitmap,
  total_pages,
  used_pages,
  held,          \* auxiliary: frames handed out and not given back
  given_back,    \* auxiliary: frames freed since the last allocation
  ret            \* what the last call returned, as a frame; NULL otherwise

vars == <<mbi, step, offset, bitmap, total_pages, used_pages, held, given_back, ret>>

-----------------------------------------------------------------------------
(* pmm_init.                                                               *)

\* pmm_free_region's range: the end is rounded down, and so is the start.
FreeRange(base, length) ==
  {p \in Frames : /\ base \div PMM_PAGE_SIZE <= p
                  /\ p < ((base + length) % AddrMod) \div PMM_PAGE_SIZE}

\* Mutant: the end of a reserved range is rounded down.
UsedRangeDown(base, length) ==
  {p \in Frames : /\ base \div PMM_PAGE_SIZE <= p
                  /\ p < ((base + length) % AddrMod) \div PMM_PAGE_SIZE}

\* pmm_mark_region_used's range: the end is rounded up.
UsedRange(base, length) ==
  {p \in Frames : /\ base \div PMM_PAGE_SIZE <= p
                  /\ p < ((base + length + PMM_PAGE_SIZE - 1) % AddrMod) \div PMM_PAGE_SIZE}

\* Clear or set the bits of a range, counting those that change.
ClearBits(range) ==
  /\ bitmap' = bitmap \ range
  /\ used_pages' = (used_pages - Cardinality(range \cap bitmap)) % AddrMod

\* Mutant: every frame of the range is counted.
SetBitsAll(range) ==
  /\ bitmap' = bitmap \cup range
  /\ used_pages' = (used_pages + Cardinality(range)) % AddrMod

\* Mutant: the bits are counted but not stored.
SetBitsLost(range) ==
  /\ UNCHANGED bitmap
  /\ used_pages' = (used_pages + Cardinality(range \ bitmap)) % AddrMod

SetBits(range) ==
  /\ bitmap' = bitmap \cup range
  /\ used_pages' = (used_pages + Cardinality(range \ bitmap)) % AddrMod

\* Step 1: total_pages from mem_upper, capped; everything is used.
TotalPages(m) ==
  LET n == (m.mem % AddrMod) \div PMM_PAGE_SIZE
  IN IF n > PMM_PAGES_MAX THEN PMM_PAGES_MAX ELSE n

Init ==
  /\ mbi \in Mbis
  /\ step = "mmap"
  /\ offset = 0
  /\ bitmap = Frames
  /\ total_pages = TotalPages(mbi)
  /\ used_pages = TotalPages(mbi)
  /\ held = {}
  /\ given_back = {}
  /\ ret = NULL

\* Mutant: the type of an entry is not looked at.
EntryRangeAny(e) ==
  IF e.base_high = 0 /\ e.length_high = 0 THEN FreeRange(e.base_low, e.length_low)
  ELSE {}

\* What an entry of the map frees: nothing unless it is available RAM that
\* starts below 4 GB; up to 4 GB if it is longer than that.
EntryRange(e) ==
  CASE ~e.available -> {}
    [] e.available /\ e.base_high = 0 /\ e.length_high = 0 ->
         FreeRange(e.base_low, e.length_low)
    [] e.available /\ e.base_high = 0 /\ e.length_high # 0 ->
         FreeRange(e.base_low, AddrMod - e.base_low)
    [] OTHER -> {}

\* Step 2: one entry; or, without a map, everything above 1 MB.
pmm_init_entry ==
  /\ step = "mmap"
  /\ mbi.has_mmap
  /\ offset < Len(mbi.mmap)
  /\ ClearBits(EntryRange(mbi.mmap[offset + 1]))
  /\ offset' = offset + 1
  /\ UNCHANGED <<mbi, step, total_pages, held, given_back, ret>>

pmm_init_walked ==
  /\ step = "mmap"
  /\ IF mbi.has_mmap
       THEN offset = Len(mbi.mmap) /\ UNCHANGED <<bitmap, used_pages>>
       ELSE ClearBits(FreeRange(LowPages * PMM_PAGE_SIZE,
                                (total_pages - LowPages) * PMM_PAGE_SIZE))
  /\ step' = "reserve"
  /\ UNCHANGED <<mbi, offset, total_pages, held, given_back, ret>>

\* Steps 3 and 4: page 0 and the kernel image.
Reserved == {0} \cup UsedRange(KernelStart, KernelEnd - KernelStart)

pmm_init_reserve ==
  /\ step = "reserve"
  /\ SetBits(Reserved)
  /\ step' = "ready"
  /\ UNCHANGED <<mbi, offset, total_pages, held, given_back, ret>>

\* The RAM the map calls available, and the kernel, lie below total_pages: the
\* RAM has no hole above 1 MB.
MapFits(m) ==
  LET ram == 0..(TotalPages(m) - 1)
  IN /\ Reserved \subseteq ram
     /\ IF m.has_mmap
          THEN \A k \in DOMAIN m.mmap : EntryRange(m.mmap[k]) \subseteq ram
          ELSE FreeRange(LowPages * PMM_PAGE_SIZE,
                         (TotalPages(m) - LowPages) * PMM_PAGE_SIZE) \subseteq ram

-----------------------------------------------------------------------------
(* Allocation: the first word that is not full, then its bits in order up  *)
(* to the end of the RAM.                                                  *)

Words == 0..((PMM_PAGES_MAX \div WordBits) - 1)
FramesOf(w) == (w * WordBits)..(w * WordBits + WordBits - 1)

\* Mutant: the end of the RAM is not looked at.
ScanPastEnd(b, total) ==
  LET open == {w \in Words : ~(FramesOf(w) \subseteq b)}
  IN IF open = {} THEN NULL ELSE Min({p \in FramesOf(Min(open)) : p \notin b})

Scan(b, total) ==
  LET open == {w \in Words : ~(FramesOf(w) \subseteq b)}
  IN IF open = {} THEN NULL
     ELSE LET p == Min({f \in FramesOf(Min(open)) : f >= total \/ f \notin b})
          IN IF p >= total THEN NULL ELSE p

pmm_alloc_page ==
  /\ step = "ready"
  /\ LET page == Scan(bitmap, total_pages)
     IN IF page = NULL
          THEN UNCHANGED <<bitmap, used_pages, held, given_back>> /\ ret' = NULL
          ELSE /\ SetBits({page})
               /\ held' = held \cup {page}
               /\ given_back' = {}
               /\ ret' = page
  /\ UNCHANGED <<mbi, step, offset, total_pages>>

Freed(frame) ==
  IF frame < total_pages /\ frame \in bitmap
    THEN ClearBits({frame})
    ELSE UNCHANGED <<bitmap, used_pages>>

\* Callers free what they hold or, by mistake, what they have just freed.
pmm_free_page(frame) ==
  /\ step = "ready"
  /\ frame \in held \cup given_back
  /\ Freed(frame)
  /\ held' = held \ {frame}
  /\ given_back' = given_back \cup {frame}
  /\ ret' = NULL
  /\ UNCHANGED <<mbi, step, offset, total_pages>>

Next ==
  \/ pmm_init_entry
  \/ pmm_init_walked
  \/ pmm_init_reserve
  \/ pmm_alloc_page
  \/ \E frame \in Frames : pmm_free_page(frame)

Spec == Init /\ [][Next]_vars

-----------------------------------------------------------------------------
(* Properties.                                                             *)

\* Every variable keeps its type: total_pages is within the bitmap, and
\* used_pages is a 32-bit count.
TypeOK ==
  /\ mbi \in Mbis
  /\ step \in {"mmap", "reserve", "ready"}
  /\ offset \in Nat
  /\ bitmap \subseteq Frames
  /\ total_pages \in 0..PMM_PAGES_MAX
  /\ used_pages \in 0..(AddrMod - 1)
  /\ held \subseteq Frames
  /\ given_back \subseteq Frames
  /\ ret \in Frames \cup {NULL}

\* The frames that hold a byte of the kernel image.
KernelFrames == {a \div PMM_PAGE_SIZE : a \in KernelStart..(KernelEnd - 1)}

\* What is held is marked used and within the RAM, and is never page 0 or a frame
\* with a byte of the kernel in it, whatever the memory map says and in whatever
\* order frames are freed, even twice.
HandedOutSafe ==
  /\ held \subseteq bitmap \cap 0..(total_pages - 1)
  /\ held \cap ({0} \cup KernelFrames) = {}

\* pmm_alloc_page never returns a frame that somebody still holds.
FreshFrame == [][ pmm_alloc_page /\ ret' # NULL => ret' \notin held ]_vars

Counted == used_pages = Cardinality(bitmap \cap 0..(total_pages - 1))

\* Unless the RAM has a hole, used_pages counts the used frames of the RAM, so
\* pmm_get_free_pages is what pmm_alloc_page can still hand out, also after
\* double frees and overlapping entries of the map.
UsedCount == MapFits(mbi) => Counted

\* pmm_alloc_page gives up only when no frame of the RAM is free: the scan by
\* words misses none, and takes the lowest.
ScanComplete ==
  LET free == 0..(total_pages - 1) \ bitmap
  IN Scan(bitmap, total_pages) = IF free = {} THEN NULL ELSE Min(free)

Available(p) ==
  ~mbi.has_mmap \/
    \E k \in DOMAIN mbi.mmap :
      LET e == mbi.mmap[k]
      IN /\ e.available
         /\ e.base_high * AddrMod + e.base_low <= p * PMM_PAGE_SIZE
         /\ (p + 1) * PMM_PAGE_SIZE <= (e.base_high + e.length_high) * AddrMod
                                         + e.base_low + e.length_low

StartsAligned(m) ==
  m.has_mmap => \A k \in DOMAIN m.mmap : m.mmap[k].available =>
                  m.mmap[k].base_low % PMM_PAGE_SIZE = 0

\* Only RAM the map calls available is ever handed out, wherever its regions end;
\* pmm_free_region also rounds their starts down, so those must be page aligned.
OnlyAvailable == StartsAligned(mbi) => \A p \in held : Available(p)
=============================================================================
