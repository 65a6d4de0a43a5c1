------------------------------- MODULE Memory -------------------------------
(***************************************************************************)
(* What the rest of the system does with the two memory managers: where    *)
(* kmain puts the kernel heap, and the figures that meminfo shows.         *)
(***************************************************************************)
EXTENDS VMM, Text

CONSTANT HeapPages     \* 512: kmain gives the heap 2 MB

\* The heap starts at the first page after the kernel and every boot module.
heap_base(m) ==
  LET safe_end == Max({KernelEnd} \cup {m.mods[i] : i \in DOMAIN m.mods})
  IN (safe_end + PMM_PAGE_SIZE - 1) \div PMM_PAGE_SIZE

HeapFrames == heap_base(mbi)..(heap_base(mbi) + HeapPages - 1)

pmm_get_free_pages == (total_pages - used_pages) % AddrMod

sys_meminfo ==
  [total_pages |-> total_pages, free_pages |-> pmm_get_free_pages, used_pages |-> used_pages]

\* cmd_meminfo's figures, in KB of 4 to the page.
KB(pages) == utoa((pages * 4) % UIntMod, 10)

cmd_meminfo ==
  [total |-> KB(sys_meminfo.total_pages), used |-> KB(sys_meminfo.used_pages),
   free |-> KB(sys_meminfo.free_pages)]

\* Unless the RAM has a hole, what meminfo shows as free is what can still be
\* allocated, and the used and free figures add up to the total, at every moment
\* of every sequence of allocations, double frees and page tables.
MeminfoTrue ==
  MapFits(mbi) =>
    LET free == Cardinality(0..(total_pages - 1) \ bitmap)
    IN /\ Denotes(cmd_meminfo.free, 10, 4 * free)
       /\ ValueOf(cmd_meminfo.used, 10) + 4 * free = ValueOf(cmd_meminfo.total, 10)

\* utoa, itoa and kprintf print exactly, in every base and sign, whatever the boot
\* log may hold (any word: 0, the largest, the smallest signed one) and, from then
\* on, the page allocator's figures, those that wrapped below zero included.
FiguresPrinted ==
  \A n \in IF step = "ready" THEN {total_pages, used_pages, pmm_get_free_pages} ELSE Words32 :
    ConvertsExactly(n)

\* The frames handed out lie outside the kernel heap.
HeapApart == held \cap HeapFrames = {}
=============================================================================
