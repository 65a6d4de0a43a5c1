-------------------------------- MODULE VMM --------------------------------
(***************************************************************************)
(* kernel/mm/vmm.c on top of pmm.c: two-level page tables in frames of the *)
(* page allocator, the directories that share the kernel's tables, CR3 and *)
(* the CPU's cache of translations (TLB).                                  *)
(*                                                                         *)
(* A virtual address is its page number, a physical one its frame number.  *)
(* The kernel reaches a frame through the virtual page of the same number, *)
(* so every store below goes where the CPU translates it, and faults when  *)
(* that page is not mapped; isr_handler then halts.                        *)
(***************************************************************************)
EXTENDS PMM

CONSTANTS
  Entries,        \* 1024: entries of a directory and of a table
  kernel_dir,     \* frames of the three static tables of vmm.c
  identity_pt0,
  identity_pt1,
  Junk,           \* what the RAM holds at power-up
  UserPages,      \* virtual pages that callers map
  UserFlags,      \* flags that callers pass
  Touched,        \* pages whose translation the CPU may cache
  PagedMaps,      \* bound: memory maps on which paging is explored too
  MaxDirs,        \* bound on the user directories
  GoOn            \* bound: is what follows a mapping over the RAM explored too?

Idx == 0..(Entries - 1)
Pages == 0..(Entries * Entries - 1)
Low == 0..(2 * Entries - 1)       \* the first 8 MB, as pages and as frames
Static == {kernel_dir, identity_pt0, identity_pt1}
Flags == {"PRESENT", "WRITE", "USER"}
Entry == [base : Frames, flags : SUBSET Flags]
Absent == [base |-> 0, flags |-> {}]
Present(e) == "PRESENT" \in e.flags

ASSUME VMMAssumption ==
  /\ Entries \in Nat
  /\ Entries >= 2
  /\ 2 * Entries <= PMM_PAGES_MAX
  /\ PMM_PAGES_MAX <= Entries * Entries
  /\ Static \subseteq KernelFrames \cap Frames \cap Low
  /\ kernel_dir # identity_pt0 /\ kernel_dir # identity_pt1 /\ identity_pt0 # identity_pt1
  /\ Junk \in [Frames -> [Idx -> Entry]]
  /\ UserPages \cup Touched \subseteq Pages
  /\ UserPages \cap KernelFrames = {}    \* nobody maps over the kernel itself
  /\ UserFlags \subseteq SUBSET Flags
  /\ GoOn \in BOOLEAN

VARIABLES
  mem,       \* mem[f][i]: entry i of frame f read as a directory or table
  paging,    \* bit 31 of CR0
  cr3,
  tlb,       \* page -> cached translation
  dirs,      \* what vmm_create_user_directory has returned
  tables,    \* auxiliary: frames that vmm_map_page has made page tables
  halted,    \* isr_handler has stopped the machine
  intact     \* auxiliary: no caller has mapped or unmapped a page whose number is a frame's

vmm_state == <<mem, paging, cr3, tlb, dirs, tables, halted>>
vmm_vars == <<vars, vmm_state, intact>>

-----------------------------------------------------------------------------
(* The CPU.                                                                *)

VMM_DIR_IDX(page) == page \div Entries
VMM_TBL_IDX(page) == page % Entries

\* The walk: both levels must be present, and a right needs its bit in both.
Walk(m, dir, page) ==
  LET pde == m[dir][VMM_DIR_IDX(page)]
      pte == m[pde.base][VMM_TBL_IDX(page)]
  IN IF Present(pde) /\ Present(pte)
       THEN [base |-> pte.base, flags |-> pde.flags \cap pte.flags]
       ELSE Absent

Translate(page) == IF page \in DOMAIN tlb THEN tlb[page] ELSE Walk(mem, cr3, page)

\* Where a pointer to a frame really points, and whether it points anywhere.
Phys(frame) == Translate(frame).base
Reachable(frame) == Present(Translate(frame))

NoTlb == [page \in {} |-> Absent]

\* Mutant: the instruction is left out.
invlpg_none(page) == UNCHANGED tlb

invlpg(page) == tlb' = [p \in DOMAIN tlb \ {page} |-> tlb[p]]

\* ISR 14: the handler prints CR2 and halts.
page_fault == halted' = TRUE /\ UNCHANGED <<mem, tlb, dirs, tables>>

Running == paging /\ ~halted

\* A program touches a page of the current directory.
cpu_access(page) ==
  /\ Running
  /\ page \notin DOMAIN tlb
  /\ Present(Walk(mem, cr3, page))
  /\ tlb' = [p \in DOMAIN tlb \cup {page} |-> Translate(p)]
  /\ UNCHANGED <<vars, mem, paging, cr3, dirs, tables, halted>>

-----------------------------------------------------------------------------
(* vmm.c.                                                                  *)

VMMInit ==
  /\ Init
  /\ mem = Junk
  /\ paging = FALSE
  /\ cr3 = kernel_dir
  /\ tlb = NoTlb
  /\ dirs = {}
  /\ tables = {}
  /\ halted = FALSE
  /\ intact = TRUE

RW == {"PRESENT", "WRITE"}
\* Mutant: the second table repeats the first 4 MB.
Identity_same(first) == [i \in Idx |-> [base |-> i, flags |-> RW]]

Identity(first) == [i \in Idx |-> [base |-> first + i, flags |-> RW]]

KernelDirectory ==
  [i \in Idx |-> CASE i = 0 -> [base |-> identity_pt0, flags |-> RW]
                   [] i = 1 -> [base |-> identity_pt1, flags |-> RW]
                   [] OTHER -> Absent]

vmm_init ==
  /\ step = "ready"
  /\ mbi \in PagedMaps
  /\ ~paging
  /\ mem' = [mem EXCEPT ![identity_pt0] = Identity(0),
                        ![identity_pt1] = Identity(Entries),
                        ![kernel_dir] = KernelDirectory]
  /\ cr3' = kernel_dir
  /\ tlb' = NoTlb
  /\ paging' = TRUE
  /\ UNCHANGED <<vars, dirs, tables, halted>>

\* A load of CR3 empties the TLB.
vmm_switch_directory(dir) ==
  /\ Running
  /\ cr3' = dir
  /\ tlb' = NoTlb
  /\ UNCHANGED <<vars, mem, paging, dirs, tables, halted>>

\* Mutant: the current directory is copied.
CopiedEntries_current == mem[Phys(cr3)]

CopiedEntries == mem[Phys(kernel_dir)]

vmm_create_user_directory ==
  /\ Running
  /\ Cardinality(dirs) < MaxDirs
  /\ pmm_alloc_page
  /\ CASE ret' = NULL -> UNCHANGED <<mem, tlb, dirs, tables, halted>>
       [] ret' # NULL /\ ~Reachable(ret') -> page_fault
       [] ret' # NULL /\ Reachable(ret') ->
            /\ mem' = [mem EXCEPT ![Phys(ret')] = CopiedEntries]
            /\ dirs' = dirs \cup {ret'}
            /\ UNCHANGED <<tlb, tables, halted>>
  /\ UNCHANGED <<paging, cr3>>

Pte(phys, flags) == [base |-> phys, flags |-> flags \cup {"PRESENT"}]
\* Mutant: the new directory entry is for ring 0 only.
Pde_kernel(pt) == [base |-> pt, flags |-> {"PRESENT", "WRITE"}]

Pde(pt) == [base |-> pt, flags |-> {"PRESENT", "WRITE", "USER"}]
ZeroTable == [i \in Idx |-> Absent]

\* Mutant: a new table keeps what the frame held.
NewTable_stale(dir, page, pt, pte) ==
  LET linked == [mem EXCEPT ![Phys(dir)][VMM_DIR_IDX(page)] = Pde(pt)]
  IN [linked EXCEPT ![Phys(pt)][VMM_TBL_IDX(page)] = pte]

\* Zero the new table, link it, store the entry, in this order.
NewTable(dir, page, pt, pte) ==
  LET zeroed == [mem EXCEPT ![Phys(pt)] = ZeroTable]
      linked == [zeroed EXCEPT ![Phys(dir)][VMM_DIR_IDX(page)] = Pde(pt)]
  IN [linked EXCEPT ![Phys(pt)][VMM_TBL_IDX(page)] = pte]

vmm_map_page(dir, page, phys, flags) ==
  LET pde == mem[Phys(dir)][VMM_DIR_IDX(page)]
  IN /\ Running
     /\ IF Present(pde)
          THEN /\ mem' = [mem EXCEPT ![Phys(pde.base)][VMM_TBL_IDX(page)] = Pte(phys, flags)]
               /\ invlpg(page)
               /\ UNCHANGED <<vars, dirs, tables, halted>>
          ELSE /\ pmm_alloc_page
               /\ CASE ret' = NULL -> UNCHANGED <<mem, tlb, dirs, tables, halted>>
                    [] ret' # NULL /\ ~Reachable(ret') -> page_fault
                    [] ret' # NULL /\ Reachable(ret') ->
                         /\ mem' = NewTable(dir, page, ret', Pte(phys, flags))
                         /\ tables' = tables \cup {ret'}
                         /\ invlpg(page)
                         /\ UNCHANGED <<dirs, halted>>
     /\ UNCHANGED <<paging, cr3>>

vmm_unmap_page(dir, page) ==
  LET pde == mem[Phys(dir)][VMM_DIR_IDX(page)]
  IN /\ Running
     /\ Present(pde)
     /\ mem' = [mem EXCEPT ![Phys(pde.base)][VMM_TBL_IDX(page)] = Absent]
     /\ invlpg(page)
     /\ UNCHANGED <<vars, paging, cr3, dirs, tables, halted>>

-----------------------------------------------------------------------------
(* The callers: they map frames they hold, and free a frame only once it   *)
(* is neither mapped nor a directory or table.                             *)

Data == held \ (dirs \cup tables)
Dirs == dirs \cup {kernel_dir}
Mapped(frame) ==
  \/ \E t \in tables, i \in Idx : Present(mem[t][i]) /\ mem[t][i].base = frame
  \/ paging /\ \E page \in Low \ {frame} : Walk(mem, kernel_dir, page).base = frame

BootStep ==
  /\ pmm_init_entry \/ pmm_init_walked \/ pmm_init_reserve
  /\ UNCHANGED vmm_state

\* kmain calls vmm_init right after pmm_init, before anybody allocates.
Up == ~halted /\ (mbi \in PagedMaps => paging)

AllocData == Up /\ pmm_alloc_page /\ UNCHANGED vmm_state

FreeData(frame) ==
  /\ Up
  /\ frame \notin dirs \cup tables
  /\ ~Mapped(frame)
  /\ pmm_free_page(frame)
  /\ UNCHANGED vmm_state

\* The kernel reaches a frame through the page of its number: a caller that takes
\* such a page for itself turns the kernel's stores elsewhere.
Redirected(page) == intact' = (intact /\ page \notin Frames)

VMMNext ==
  /\ intact \/ GoOn
  /\ \/ BootStep /\ UNCHANGED intact
     \/ vmm_init /\ UNCHANGED intact
     \/ AllocData /\ UNCHANGED intact
     \/ \E frame \in Frames : FreeData(frame) /\ UNCHANGED intact
     \/ vmm_create_user_directory /\ UNCHANGED intact
     \/ \E dir \in Dirs : vmm_switch_directory(dir) /\ UNCHANGED intact
     \/ \E dir \in Dirs, page \in UserPages, phys \in Data, flags \in UserFlags :
          vmm_map_page(dir, page, phys, flags) /\ Redirected(page)
     \/ \E dir \in Dirs, page \in UserPages : vmm_unmap_page(dir, page) /\ Redirected(page)
     \/ \E page \in Touched : cpu_access(page) /\ UNCHANGED intact

VMMSpec == VMMInit /\ [][VMMNext]_vmm_vars

-----------------------------------------------------------------------------
(* Properties.                                                             *)

\* Every entry stays a frame and a set of flags, and cr3 one of the directories.
VMMTypeOK ==
  /\ mem \in [Frames -> [Idx -> Entry]]
  /\ paging \in BOOLEAN
  /\ halted \in BOOLEAN
  /\ cr3 \in Dirs
  /\ DOMAIN tlb \subseteq Pages
  /\ \A page \in DOMAIN tlb : tlb[page] \in Entry
  /\ dirs \subseteq Frames
  /\ tables \subseteq Frames

\* As long as no caller has mapped or unmapped a page of the RAM, the first 8 MB map
\* to themselves in every directory, for ring 0 only, whatever else is mapped,
\* unmapped, created or freed: "all existing pointers still work".  A mapping at
\* 0x400000 ends it, for that page in all directories at once.
IdentityKept ==
  paging /\ intact => \A dir \in Dirs, page \in Low :
                        Walk(mem, dir, page) = [base |-> page, flags |-> RW]

\* So long, what the CPU has cached is what the current tables say, through any
\* order of accesses, maps and unmaps (also of other directories that share the
\* table), and loads of CR3.
TLBCoherent == intact => \A page \in DOMAIN tlb : tlb[page] = Walk(mem, cr3, page)

\* So long, two directories have a page table in common only where both have the
\* kernel's, and no table serves two entries.
SharedOnlyKernel ==
  paging /\ intact => \A d, e \in Dirs, i, j \in Idx :
    /\ Present(mem[d][i]) /\ Present(mem[e][j])
    /\ mem[d][i].base = mem[e][j].base
    => i = j /\ (d = e \/ mem[d][i] = mem[kernel_dir][i])

\* So long, ring 3 never reaches a frame that is a directory, a page table or free,
\* by a walk of any directory or by a translation cached before the frame changed
\* hands.
TablesHidden ==
  intact =>
    /\ paging => \A dir \in Dirs, page \in Pages :
         "USER" \in Walk(mem, dir, page).flags => Walk(mem, dir, page).base \in Data
    /\ \A page \in DOMAIN tlb : "USER" \in tlb[page].flags => tlb[page].base \in Data

\* What a page under the identity tables is not given: vmm_map_page keeps their
\* directory entries, which are for ring 0.
Withheld(page) == IF page \in Low THEN {"USER"} ELSE {}

\* The first mapping of a page of the RAM, and every one before it, translates the
\* page to the frame with the rights that were passed, whether the page table is new
\* or was there; except that below 8 MB ring 3 gets no access, though the caller
\* passed PAGE_USER, as the example for 0x400000 in memory-management.md does.
MapsAsAsked ==
  [][ intact /\ ~halted' /\ mem' # mem =>
        \A dir \in Dirs, page \in UserPages, phys \in Data, flags \in UserFlags :
          vmm_map_page(dir, page, phys, flags) =>
            Walk(mem', dir, page) =
              [base |-> phys, flags |-> (flags \cup {"PRESENT"}) \ Withheld(page)] ]_vmm_vars

\* Address spaces are private: no step changes how two directories translate a page.
PrivateSpaces ==
  [][ paging => \A d, e \in Dirs, page \in UserPages :
        /\ Walk(mem', d, page) # Walk(mem, d, page)
        /\ Walk(mem', e, page) # Walk(mem, e, page)
        => d = e ]_vmm_vars
=============================================================================
