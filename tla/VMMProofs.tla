----------------------------- MODULE VMMProofs -----------------------------
(***************************************************************************)
(* Proofs about VMM on top of PMM, for every size of the tables and of the *)
(* RAM, every memory map and every sequence of calls.                      *)
(***************************************************************************)
EXTENDS VMM, PMMProofs

-----------------------------------------------------------------------------
(* Page numbers and their two indices.                                     *)

LEMMA LowFrames == Low \subseteq Frames /\ Low \subseteq Pages /\ Frames \subseteq Pages
<1>1. Entries * Entries \in Nat
  BY VMMAssumption
<1> QED
  BY <1>1, VMMAssumption, PMMAssumption DEF Low, Frames, Pages

LEMMA IndexTyped ==
  ASSUME NEW page \in Pages
  PROVE  /\ VMM_DIR_IDX(page) \in Idx
         /\ VMM_TBL_IDX(page) \in Idx
         /\ page = Entries * VMM_DIR_IDX(page) + VMM_TBL_IDX(page)
<1> DEFINE q == page \div Entries
           r == page % Entries
<1>1. Entries \in Nat /\ Entries >= 2 /\ page \in Nat /\ page < Entries * Entries
  <2>1. Entries * Entries \in Nat
    BY VMMAssumption
  <2> QED
    BY <2>1, VMMAssumption DEF Pages
<1>2. q \in Nat /\ r \in Nat /\ r < Entries /\ page = Entries * q + r
  BY <1>1
<1> HIDE DEF q, r
<1>3. q < Entries
  <2> SUFFICES ASSUME q >= Entries PROVE FALSE
    BY <1>1, <1>2
  <2>1. Entries * q >= Entries * Entries
    BY <1>1, <1>2
  <2> QED
    BY <1>1, <1>2, <2>1
<1> QED
  BY <1>1, <1>2, <1>3 DEF q, r, Idx, VMM_DIR_IDX, VMM_TBL_IDX

LEMMA SamePage ==
  ASSUME NEW p \in Pages, NEW q \in Pages,
         VMM_DIR_IDX(p) = VMM_DIR_IDX(q), VMM_TBL_IDX(p) = VMM_TBL_IDX(q)
  PROVE  p = q
  BY IndexTyped

LEMMA LowIndex ==
  ASSUME NEW page \in Pages
  PROVE  /\ page \in Low => \/ VMM_DIR_IDX(page) = 0 /\ VMM_TBL_IDX(page) = page
                            \/ VMM_DIR_IDX(page) = 1 /\ Entries + VMM_TBL_IDX(page) = page
         /\ page \notin Low => VMM_DIR_IDX(page) # 0 /\ VMM_DIR_IDX(page) # 1
<1> DEFINE q == VMM_DIR_IDX(page)
           r == VMM_TBL_IDX(page)
<1>1. q \in Nat /\ r \in Nat /\ r < Entries /\ page = Entries * q + r
  BY IndexTyped, VMMAssumption DEF Idx
<1>2. Entries \in Nat /\ Entries >= 2
  BY VMMAssumption
<1> HIDE DEF q, r
<1>3. q >= 2 => page >= 2 * Entries
  <2> SUFFICES ASSUME q >= 2 PROVE page >= 2 * Entries
    OBVIOUS
  <2>1. Entries * q >= Entries * 2
    BY <1>1, <1>2
  <2> QED
    BY <1>1, <1>2, <2>1
<1>4. CASE q = 0
  BY <1>1, <1>2, <1>4 DEF Low, q, r
<1>5. CASE q = 1
  BY <1>1, <1>2, <1>5 DEF Low, q, r
<1>6. CASE q >= 2
  BY <1>1, <1>2, <1>3, <1>6 DEF Low, q, r
<1> QED
  BY <1>1, <1>4, <1>5, <1>6

-----------------------------------------------------------------------------
(* The inductive invariant.                                                *)

Linked(e, T) == e = Absent \/ \E t \in T : e = Pde(t)

\* Who owns which frame: directories and tables are distinct frames below 8 MB
\* that the page allocator has handed out, the static tables are not.
Owned ==
  /\ dirs \subseteq held
  /\ tables \subseteq held
  /\ dirs \cap tables = {}
  /\ dirs \cup tables \subseteq Low
  /\ held \cap Static = {}
  /\ ~paging => dirs = {} /\ tables = {} /\ DOMAIN tlb = {} /\ ~halted

\* The shape of the tables: two identity entries in every directory, above them
\* tables of vmm_map_page that hold only frames of the callers; of the pages of the
\* RAM only those of the first 8 MB are mapped.
Shaped ==
  /\ mem[identity_pt0] = Identity(0)
  /\ mem[identity_pt1] = Identity(Entries)
  /\ \A d \in Dirs : /\ mem[d][0] = [base |-> identity_pt0, flags |-> RW]
                     /\ mem[d][1] = [base |-> identity_pt1, flags |-> RW]
                     /\ \A i \in Idx \ {0, 1} : Linked(mem[d][i], tables)
  /\ \A t \in tables, i \in Idx : Present(mem[t][i]) => mem[t][i].base \in Data
  /\ \A d \in Dirs, page \in Pages : Present(Walk(mem, d, page)) => page \in Low \/ page \notin Frames

\* TLBCoherent and SharedOnlyKernel, as they are while no page of the RAM has been
\* redirected.
Coherent == \A page \in DOMAIN tlb : tlb[page] = Walk(mem, cr3, page)

Shared ==
  paging => \A d, e \in Dirs, i, j \in Idx :
    /\ Present(mem[d][i]) /\ Present(mem[e][j])
    /\ mem[d][i].base = mem[e][j].base
    => i = j /\ (d = e \/ mem[d][i] = mem[kernel_dir][i])

Cached == Coherent /\ \A page \in DOMAIN tlb : Present(tlb[page])

VInv ==
  /\ VMMTypeOK
  /\ Owned
  /\ paging => Shaped
  /\ Shared
  /\ Cached

\* A caller that maps or unmaps a page of the RAM may turn the kernel's stores
\* elsewhere, and nothing is known from there on.
IInv == intact => VInv

LEMMA PdeFacts ==
  /\ ~Present(Absent)
  /\ \A t : Present(Pde(t)) /\ Pde(t).base = t /\ Pde(t).flags = Flags
  /\ Present([base |-> identity_pt0, flags |-> RW])
  /\ Present([base |-> identity_pt1, flags |-> RW])
  BY DEF Present, Absent, Pde, Flags, RW

LEMMA WalkPresent ==
  ASSUME NEW m, NEW d, NEW page, NEW t, NEW f,
         m[d][VMM_DIR_IDX(page)] = [base |-> t, flags |-> RW],
         m[t][VMM_TBL_IDX(page)] = [base |-> f, flags |-> RW]
  PROVE  Walk(m, d, page) = [base |-> f, flags |-> RW]
<1>1. RW \cap RW = RW /\ "PRESENT" \in RW
  BY DEF RW
<1> HIDE DEF RW
<1> QED
  BY <1>1 DEF Walk, Present

LEMMA WalkLow ==
  ASSUME Shaped, NEW dir \in Dirs, NEW page \in Low
  PROVE  Walk(mem, dir, page) = [base |-> page, flags |-> RW]
<1>1. page \in Pages /\ VMM_TBL_IDX(page) \in Idx
  BY LowFrames, IndexTyped
<1>2. CASE VMM_DIR_IDX(page) = 0 /\ VMM_TBL_IDX(page) = page
  <2>1. mem[identity_pt0][page] = [base |-> 0 + page, flags |-> RW]
    BY <1>1, <1>2 DEF Shaped, Identity
  <2>2. 0 + page = page
    BY VMMAssumption DEF Low
  <2>3. mem[dir][VMM_DIR_IDX(page)] = [base |-> identity_pt0, flags |-> RW]
    BY <1>2 DEF Shaped
  <2> QED
    BY <1>2, <2>1, <2>2, <2>3, WalkPresent
<1>3. CASE VMM_DIR_IDX(page) = 1 /\ Entries + VMM_TBL_IDX(page) = page
  <2>1. mem[identity_pt1][VMM_TBL_IDX(page)] = [base |-> page, flags |-> RW]
    BY <1>1, <1>3 DEF Shaped, Identity
  <2>2. mem[dir][VMM_DIR_IDX(page)] = [base |-> identity_pt1, flags |-> RW]
    BY <1>3 DEF Shaped
  <2> QED
    BY <2>1, <2>2, WalkPresent
<1> QED
  BY <1>1, <1>2, <1>3, LowIndex

\* A pointer into the first 8 MB points to the frame of its number.
LEMMA PhysLow ==
  ASSUME Shaped, VMMTypeOK, Coherent, NEW frame \in Low
  PROVE  Phys(frame) = frame /\ Reachable(frame)
<1>1. Translate(frame) = [base |-> frame, flags |-> RW]
  BY WalkLow DEF Translate, Coherent, VMMTypeOK
<1> QED
  BY <1>1 DEF Phys, Reachable, Present, RW

LEMMA StaticLow == Static \subseteq Low /\ kernel_dir \in Low
  BY VMMAssumption, Zenon DEF Static

LEMMA DirsLow ==
  ASSUME Owned, NEW d \in Dirs
  PROVE  d \in Low
  BY StaticLow DEF Owned, Dirs

\* A frame that the kernel can reach through its number lies in the first 8 MB.
LEMMA ReachableLow ==
  ASSUME Shaped, VMMTypeOK, Coherent, NEW frame \in Frames, Reachable(frame)
  PROVE  frame \in Low
<1>1. Translate(frame) = Walk(mem, cr3, frame)
  BY Zenon DEF Translate, Coherent
<1>2. frame \in Pages /\ cr3 \in Dirs
  BY LowFrames DEF VMMTypeOK
<1> QED
  BY <1>1, <1>2 DEF Reachable, Shaped

LEMMA AllocFresh ==
  ASSUME TypeOK, Kept, pmm_alloc_page
  PROVE  \/ ret' = NULL /\ held' = held
         \/ ret' # NULL /\ ret' \in Frames /\ ret' \notin held /\ held' = held \cup {ret'}
<1>1. CASE Scan(bitmap, total_pages) = NULL
  BY <1>1 DEF pmm_alloc_page
<1>2. CASE Scan(bitmap, total_pages) # NULL
  <2>1. Scan(bitmap, total_pages) \in Frames \ bitmap
    BY <1>2, ScanResult DEF TypeOK
  <2> QED
    BY <1>2, <2>1 DEF pmm_alloc_page, Kept
<1> QED
  BY <1>1, <1>2

-----------------------------------------------------------------------------
(* An entry of an existing page table is replaced, as vmm_map_page and     *)
(* vmm_unmap_page do.                                                      *)

LEMMA EntryReplaced ==
  ASSUME VInv, paging, NEW dir \in Dirs, NEW page \in UserPages, page \notin Frames,
         NEW t \in tables, mem[dir][VMM_DIR_IDX(page)] = Pde(t),
         NEW e \in Entry, Present(e) => e.base \in Data,
         mem' = [mem EXCEPT ![t][VMM_TBL_IDX(page)] = e],
         tlb' = [p \in DOMAIN tlb \ {page} |-> tlb[p]],
         UNCHANGED <<paging, cr3, dirs, tables, halted, held>>
  PROVE  VInv'
<1> DEFINE di == VMM_DIR_IDX(page)
           ti == VMM_TBL_IDX(page)
<1>1. page \in Pages /\ di \in Idx /\ ti \in Idx
  BY VMMAssumption, IndexTyped
<1>2. t \in Frames /\ mem \in [Frames -> [Idx -> Entry]]
  BY DEF VInv, VMMTypeOK
<1>3. \A f \in Frames, i \in Idx : mem'[f][i] = IF f = t /\ i = ti THEN e ELSE mem[f][i]
  <2> HIDE DEF ti
  <2> QED  BY <1>1, <1>2 DEF ti
<1>3a. \A f \in Frames \ {t} : mem'[f] = mem[f]
  BY <1>2
<1>4. Dirs \subseteq Frames /\ t \notin Dirs /\ t \notin Static
  BY DirsLow, LowFrames DEF VInv, Owned, Dirs, Static
<1>5. \A d \in Dirs : mem'[d] = mem[d]
  BY <1>3a, <1>4
<1>6. Shaped
  BY DEF VInv
\* Only page translates differently.
<1>7. ASSUME NEW d \in Dirs, NEW p \in Pages, p # page
      PROVE  Walk(mem', d, p) = Walk(mem, d, p)
  <2> DEFINE i == VMM_DIR_IDX(p)
             b == mem[d][i].base
  <2>1. i \in Idx /\ VMM_TBL_IDX(p) \in Idx
    BY IndexTyped
  <2>2. b \in Frames
    BY <1>2, <1>4, <2>1 DEF Entry
  <2>3. Present(mem[d][i]) /\ b = t => i = di
    BY <1>1, <2>1, PdeFacts DEF VInv, Shared
  <2>4. Present(mem[d][i]) => b # t \/ VMM_TBL_IDX(p) # ti
    BY <1>1, <1>7, <2>3, SamePage
  <2>5. Present(mem[d][i]) => mem'[b][VMM_TBL_IDX(p)] = mem[b][VMM_TBL_IDX(p)]
    BY <1>3, <2>1, <2>2, <2>4
  <2>6. mem'[d][i] = mem[d][i]
    BY <1>5
  <2>7. CASE Present(mem[d][i])
    BY <2>5, <2>6, <2>7, Zenon DEF Walk
  <2>8. CASE ~Present(mem[d][i])
    BY <2>6, <2>8, Zenon DEF Walk
  <2> QED
    BY <2>7, <2>8
<1>8. VMMTypeOK'
  <2>1. mem' \in [Frames -> [Idx -> Entry]]
    BY <1>1, <1>2
  <2> QED
    BY <2>1 DEF VInv, VMMTypeOK, Dirs
<1>9. Owned'
  BY DEF VInv, Owned
<1>10. Shaped'
  <2>1. mem'[identity_pt0] = mem[identity_pt0] /\ mem'[identity_pt1] = mem[identity_pt1]
    BY <1>3a, <1>4, VMMAssumption DEF Static
  <2>2. \A f \in tables, i \in Idx : Present(mem'[f][i]) => mem'[f][i].base \in Data
    BY <1>3, <1>6 DEF Shaped, VInv, VMMTypeOK
  <2>3. \A d \in Dirs, p \in Pages : Present(Walk(mem', d, p)) => p \in Low \/ p \notin Frames
    BY <1>6, <1>7 DEF Shaped
  <2>4. Dirs' = Dirs /\ Data' = Data
    BY DEF Dirs, Data
  <2>5. \A d \in Dirs : \A i \in Idx \ {0, 1} : Linked(mem'[d][i], tables')
    <3>1. tables' = tables
      OBVIOUS
    <3> QED
      BY <1>5, <1>6, <3>1, Zenon DEF Shaped
  <2>6. \A d \in Dirs : mem'[d][0] = [base |-> identity_pt0, flags |-> RW]
                      /\ mem'[d][1] = [base |-> identity_pt1, flags |-> RW]
    BY <1>5, <1>6 DEF Shaped
  <2> QED
    BY <1>6, <2>1, <2>2, <2>3, <2>4, <2>5, <2>6, Zenon DEF Shaped
<1>11. Shared'
  BY <1>5 DEF VInv, Shared, Dirs
<1>12. Cached'
  <2>1. \A p \in DOMAIN tlb' : p \in DOMAIN tlb /\ p # page /\ tlb'[p] = tlb[p] /\ p \in Pages
    BY DEF VInv, VMMTypeOK
  <2>2. cr3 \in Dirs
    BY DEF VInv, VMMTypeOK
  <2> QED
    BY <1>7, <2>1, <2>2, Zenon DEF VInv, Cached, Coherent
<1> QED
  BY <1>8, <1>9, <1>10, <1>11, <1>12 DEF VInv

-----------------------------------------------------------------------------
(* A new page table is linked, as vmm_map_page does.                       *)

\* What a present entry of a directory points to.
LEMMA TargetOf ==
  ASSUME Shaped, NEW d \in Dirs, NEW i \in Idx, Present(mem[d][i])
  PROVE  mem[d][i].base \in tables \cup {identity_pt0, identity_pt1}
<1>1. CASE i \in {0, 1}
  BY <1>1 DEF Shaped
<1>2. CASE i \notin {0, 1}
  <2>1. Linked(mem[d][i], tables)
    BY <1>2 DEF Shaped
  <2> QED
    BY <2>1, PdeFacts DEF Linked
<1> QED
  BY <1>1, <1>2

LEMMA TableAdded ==
  ASSUME VInv, paging, NEW dir \in Dirs, NEW page \in UserPages, page \notin Frames,
         ~Present(mem[dir][VMM_DIR_IDX(page)]),
         NEW pt \in Low, pt \notin held, held' = held \cup {pt}, held' \cap Static = {},
         tables' = tables \cup {pt},
         NEW pte \in Entry, pte.base \in Data,
         mem' = [[[mem EXCEPT ![pt] = ZeroTable]
                       EXCEPT ![dir][VMM_DIR_IDX(page)] = Pde(pt)]
                       EXCEPT ![pt][VMM_TBL_IDX(page)] = pte],
         tlb' = [p \in DOMAIN tlb \ {page} |-> tlb[p]],
         UNCHANGED <<paging, cr3, dirs, halted>>
  PROVE  VInv'
<1> DEFINE di == VMM_DIR_IDX(page)
           ti == VMM_TBL_IDX(page)
<1>1. page \in Pages /\ di \in Idx /\ ti \in Idx
  BY VMMAssumption, IndexTyped
<1>1a. di # 0 /\ di # 1
  BY <1>1, LowFrames, LowIndex
<1>2. pt \in Frames /\ mem \in [Frames -> [Idx -> Entry]]
  BY LowFrames DEF VInv, VMMTypeOK
<1>3. Dirs \subseteq Frames /\ pt \notin Dirs /\ pt \notin Static /\ pt \notin tables
  BY DirsLow, LowFrames DEF VInv, Owned, Dirs, Static
<1>4. /\ mem'[pt] = [ZeroTable EXCEPT ![ti] = pte]
      /\ mem'[dir] = [mem[dir] EXCEPT ![di] = Pde(pt)]
      /\ \A f \in Frames \ {pt, dir} : mem'[f] = mem[f]
  <2> HIDE DEF di, ti
  <2> QED  BY <1>2, <1>3 DEF di, ti
<1>5. Pde(pt) \in Entry /\ Absent \in Entry
  BY <1>2, LowFrames, VMMAssumption, PMMAssumption DEF Pde, Absent, Entry, Flags, Frames
<1>6. /\ mem'[dir][di] = Pde(pt)
      /\ \A d \in Dirs, i \in Idx : d # dir \/ i # di => mem'[d][i] = mem[d][i]
      /\ \A i \in Idx : mem'[pt][i] = IF i = ti THEN pte ELSE Absent
  <2> HIDE DEF di, ti
  <2>1. mem[dir] \in [Idx -> Entry]
    BY <1>2, <1>3
  <2>2. mem'[dir][di] = Pde(pt) /\ \A i \in Idx \ {di} : mem'[dir][i] = mem[dir][i]
    BY <1>1, <1>4, <2>1, ZenonT(40)
  <2>3. \A d \in Dirs \ {dir} : mem'[d] = mem[d]
    BY <1>3, <1>4, Zenon
  <2>4. \A i \in Idx : mem'[pt][i] = IF i = ti THEN pte ELSE Absent
    <3>1. \A i \in Idx : [ZeroTable EXCEPT ![ti] = pte][i] = IF i = ti THEN pte ELSE Absent
      BY <1>1 DEF ZeroTable
    <3> QED
      BY <1>4, <3>1, Zenon
  <2> QED
    BY <2>2, <2>3, <2>4, Zenon
<1>7. Shaped
  BY DEF VInv
<1>8. dir \notin tables /\ dir \notin {identity_pt0, identity_pt1}
  BY VMMAssumption DEF VInv, Owned, Dirs, Static
\* What was present translates as before, and only page becomes present.
<1>9. ASSUME NEW d \in Dirs, NEW p \in Pages, Present(mem[d][VMM_DIR_IDX(p)])
      PROVE  Walk(mem', d, p) = Walk(mem, d, p)
  <2> DEFINE i == VMM_DIR_IDX(p)
             b == mem[d][i].base
  <2>1. i \in Idx /\ VMM_TBL_IDX(p) \in Idx
    BY IndexTyped
  <2>2. mem'[d][i] = mem[d][i]
    BY <1>6, <1>9, <2>1, Zenon
  <2>3. b \in tables \cup {identity_pt0, identity_pt1}
    BY <1>7, <1>9, <2>1, TargetOf
  <2>4. b \in Frames /\ b # pt /\ b # dir
    BY <1>3, <1>8, <2>3, VMMAssumption DEF VInv, VMMTypeOK, Static
  <2>5. mem'[b] = mem[b]
    BY <1>4, <2>4, Zenon
  <2> QED
    BY <2>2, <2>5, Zenon DEF Walk
<1>10. ASSUME NEW d \in Dirs, NEW p \in Pages, ~Present(mem[d][VMM_DIR_IDX(p)]),
              Present(Walk(mem', d, p))
       PROVE  p = page
  <2> DEFINE i == VMM_DIR_IDX(p)
  <2>1. i \in Idx /\ VMM_TBL_IDX(p) \in Idx
    BY IndexTyped
  <2>2. Present(mem'[d][i]) /\ Present(mem'[mem'[d][i].base][VMM_TBL_IDX(p)])
    BY <1>10, PdeFacts, Zenon DEF Walk
  <2>3. d = dir /\ i = di
    BY <1>6, <1>10, <2>1, <2>2, Zenon
  <2>4. mem'[d][i].base = pt
    BY <1>6, <2>3, PdeFacts
  <2>5. VMM_TBL_IDX(p) = ti
    BY <1>6, <2>1, <2>2, <2>4, PdeFacts, ZenonT(40)
  <2> QED
    BY <1>1, <2>3, <2>5, SamePage
<1>11. VMMTypeOK'
  <2>1. mem' \in [Frames -> [Idx -> Entry]]
    <3>1. ZeroTable \in [Idx -> Entry]
      BY <1>5 DEF ZeroTable
    <3> QED
      BY <1>1, <1>2, <1>3, <1>5, <3>1
  <2> QED
    BY <1>2, <2>1 DEF VInv, VMMTypeOK, Dirs
<1>12. Owned'
  BY <1>3 DEF VInv, Owned, Dirs
<1>13. Dirs' = Dirs /\ Data' = Data
  BY <1>3, Zenon DEF Dirs, Data, VInv, Owned
<1>14. Shaped'
  <2>1. mem'[identity_pt0] = mem[identity_pt0] /\ mem'[identity_pt1] = mem[identity_pt1]
    BY <1>3, <1>4, <1>8, VMMAssumption, Zenon DEF Static
  <2>2. \A f \in tables', i \in Idx : Present(mem'[f][i]) => mem'[f][i].base \in Data
    <3>1. \A i \in Idx : Present(mem'[pt][i]) => mem'[pt][i].base \in Data
      <4> TAKE i \in Idx
      <4>1. mem'[pt][i] = pte \/ mem'[pt][i] = Absent
        BY <1>6, Zenon
      <4> QED
        BY <4>1, PdeFacts, Zenon
    <3>2. \A f \in tables : mem'[f] = mem[f]
      BY <1>3, <1>4, <1>8 DEF VInv, VMMTypeOK
    <3> QED
      BY <1>7, <3>1, <3>2, Zenon DEF Shaped
  <2>3. \A d \in Dirs, p \in Pages : Present(Walk(mem', d, p)) => p \in Low \/ p \notin Frames
    BY <1>7, <1>9, <1>10, Zenon DEF Shaped
  <2>4. \A d \in Dirs : \A i \in Idx \ {0, 1} : Linked(mem'[d][i], tables')
    <3> TAKE d \in Dirs
    <3> TAKE i \in Idx \ {0, 1}
    <3>1. CASE d = dir /\ i = di
      BY <1>6, <3>1, Zenon DEF Linked
    <3>2. CASE d # dir \/ i # di
      <4>1. Linked(mem[d][i], tables)
        BY <1>7 DEF Shaped
      <4> QED
        BY <1>6, <3>2, <4>1, Zenon DEF Linked
    <3> QED
      BY <3>1, <3>2
  <2>5. \A d \in Dirs : mem'[d][0] = [base |-> identity_pt0, flags |-> RW]
                      /\ mem'[d][1] = [base |-> identity_pt1, flags |-> RW]
    <3>1. 0 \in Idx /\ 1 \in Idx
      BY VMMAssumption DEF Idx
    <3>2. \A d \in Dirs : mem'[d][0] = mem[d][0] /\ mem'[d][1] = mem[d][1]
      BY <1>1a, <1>6, <3>1, Zenon
    <3> QED
      BY <1>7, <3>2, Zenon DEF Shaped
  <2> QED
    BY <1>7, <1>13, <2>1, <2>2, <2>3, <2>4, <2>5, Zenon DEF Shaped
<1>15. Shared'
  <2>1. \A d \in Dirs, i \in Idx : Present(mem[d][i]) => mem[d][i].base # pt
    BY <1>3, <1>7, TargetOf DEF Static
  <2>a. SUFFICES \A d, f \in Dirs, i, j \in Idx :
                   Present(mem'[d][i]) /\ Present(mem'[f][j]) /\ mem'[d][i].base = mem'[f][j].base
                   => i = j /\ (d = f \/ mem'[d][i] = mem'[kernel_dir][i])
    BY <1>13, Zenon DEF Shared
  <2> TAKE d, f \in Dirs, i, j \in Idx
  <2>2. HAVE Present(mem'[d][i]) /\ Present(mem'[f][j]) /\ mem'[d][i].base = mem'[f][j].base
  <2>3. CASE d = dir /\ i = di
    <3>1. mem'[d][i].base = pt
      BY <1>6, <2>3, PdeFacts
    <3>2. f = dir /\ j = di
      BY <1>6, <2>1, <2>2, <3>1, SMTT(30)
    <3> QED
      BY <2>3, <3>2
  <2>4. CASE d # dir \/ i # di
    <3>1. mem'[d][i] = mem[d][i] /\ Present(mem[d][i])
      BY <1>6, <2>2, <2>4, Zenon
    <3>2. f # dir \/ j # di
      <4> SUFFICES ASSUME f = dir, j = di PROVE FALSE
        OBVIOUS
      <4>1. mem'[f][j].base = pt
        BY <1>6, PdeFacts, Zenon
      <4> QED
        BY <2>1, <2>2, <3>1, <4>1, Zenon
    <3>3. mem'[f][j] = mem[f][j]
      BY <1>6, <3>2, Zenon
    <3>4. i = j /\ (d = f \/ mem[d][i] = mem[kernel_dir][i])
      BY <2>2, <3>1, <3>3, SMTT(30) DEF VInv, Shared
    <3>5. kernel_dir \in Dirs
      BY DEF Dirs
    <3>6. mem[d][i] = mem[kernel_dir][i] => mem'[kernel_dir][i] = mem[kernel_dir][i]
      BY <1>6, <3>1, <3>5, Zenon
    <3> QED
      BY <3>1, <3>4, <3>6
  <2> QED
    BY <2>3, <2>4
<1>16. Cached'
  <2>1. \A p \in DOMAIN tlb' : p \in DOMAIN tlb /\ tlb'[p] = tlb[p] /\ p \in Pages
    BY DEF VInv, VMMTypeOK
  <2>2. cr3 \in Dirs
    BY DEF VInv, VMMTypeOK
  <2>3. \A p \in DOMAIN tlb : tlb[p] = Walk(mem, cr3, p) /\ Present(tlb[p])
    BY DEF VInv, Cached, Coherent
  <2>4. \A p \in DOMAIN tlb : Present(mem[cr3][VMM_DIR_IDX(p)])
    <3> TAKE p \in DOMAIN tlb
    <3>1. Walk(mem, cr3, p) # Absent
      BY <2>3, PdeFacts, Zenon
    <3> QED
      BY <3>1, Zenon DEF Walk
  <2> QED
    BY <1>9, <2>1, <2>2, <2>3, <2>4, ZenonT(40) DEF Cached, Coherent
<1> QED
  BY <1>11, <1>12, <1>14, <1>15, <1>16 DEF VInv

-----------------------------------------------------------------------------
(* A directory is created, and paging is turned on.                        *)

LEMMA DirCreated ==
  ASSUME VInv, paging, NEW new \in Low, new \notin held, held' = held \cup {new},
         held' \cap Static = {}, dirs' = dirs \cup {new},
         mem' = [mem EXCEPT ![new] = mem[kernel_dir]],
         UNCHANGED <<paging, cr3, tlb, tables, halted>>
  PROVE  VInv'
<1>1. new \in Frames /\ mem \in [Frames -> [Idx -> Entry]]
  BY LowFrames DEF VInv, VMMTypeOK
<1>2. Dirs \subseteq Frames /\ new \notin Dirs /\ new \notin Static /\ new \notin tables
  BY DirsLow, LowFrames DEF VInv, Owned, Dirs, Static
<1>3. Shaped
  BY DEF VInv
<1>4. mem'[new] = mem[kernel_dir] /\ \A f \in Frames \ {new} : mem'[f] = mem[f]
  BY <1>1
<1>5. \A d \in Dirs : mem'[d] = mem[d]
  BY <1>2, <1>4
<1>6. kernel_dir \in Dirs /\ Dirs' = Dirs \cup {new}
  BY DEF Dirs
<1>7. Data' = Data
  BY <1>2, Zenon DEF Data, VInv, Owned
<1>8. ASSUME NEW d \in Dirs, NEW i \in Idx, Present(mem[d][i])
      PROVE  mem'[mem[d][i].base] = mem[mem[d][i].base]
  <2>1. mem[d][i].base \in tables \cup {identity_pt0, identity_pt1}
    BY <1>3, <1>8, TargetOf
  <2>2. mem[d][i].base \in Frames \ {new}
    BY <1>2, <2>1, VMMAssumption DEF VInv, VMMTypeOK, Static
  <2> QED
    BY <1>4, <2>2
<1>9. ASSUME NEW d \in Dirs, NEW p \in Pages
      PROVE  Walk(mem', d, p) = Walk(mem, d, p)
  <2>1. VMM_DIR_IDX(p) \in Idx
    BY IndexTyped
  <2>2. mem'[d] = mem[d]
    BY <1>5
  <2>3. CASE Present(mem[d][VMM_DIR_IDX(p)])
    BY <1>8, <2>1, <2>2, <2>3, Zenon DEF Walk
  <2>4. CASE ~Present(mem[d][VMM_DIR_IDX(p)])
    BY <2>2, <2>4, Zenon DEF Walk
  <2> QED
    BY <2>3, <2>4
<1>10. ASSUME NEW p \in Pages
       PROVE  Walk(mem', new, p) = Walk(mem, kernel_dir, p)
  <2>1. Walk(mem', new, p) = Walk(mem', kernel_dir, p)
    BY <1>4, <1>5, <1>6, Zenon DEF Walk
  <2> QED
    BY <1>6, <1>9, <2>1, Zenon
<1>11. VMMTypeOK'
  <2>1. mem' \in [Frames -> [Idx -> Entry]]
    BY <1>1, <1>2, <1>6
  <2> QED
    BY <1>1, <1>6, <2>1 DEF VInv, VMMTypeOK
<1>12. Owned'
  BY <1>2 DEF VInv, Owned, Dirs
<1>13. Shaped'
  <2>1. mem'[identity_pt0] = mem[identity_pt0] /\ mem'[identity_pt1] = mem[identity_pt1]
    BY <1>2, <1>4, VMMAssumption DEF Static
  <2>2. \A t \in tables, i \in Idx : Present(mem'[t][i]) => mem'[t][i].base \in Data
    <3>1. \A t \in tables : mem'[t] = mem[t]
      BY <1>2, <1>4 DEF VInv, VMMTypeOK
    <3> QED
      BY <1>3, <3>1 DEF Shaped
  <2>3. \A d \in Dirs', p \in Pages : Present(Walk(mem', d, p)) => p \in Low \/ p \notin Frames
    BY <1>3, <1>6, <1>9, <1>10, Zenon DEF Shaped
  <2>4. \A d \in Dirs' : \E k \in Dirs : mem'[d] = mem[k]
    BY <1>4, <1>5, <1>6
  <2>5. \A d \in Dirs' : /\ mem'[d][0] = [base |-> identity_pt0, flags |-> RW]
                         /\ mem'[d][1] = [base |-> identity_pt1, flags |-> RW]
                         /\ \A i \in Idx \ {0, 1} : Linked(mem'[d][i], tables)
    BY <1>3, <2>4, Zenon DEF Shaped
  <2>6. tables' = tables
    OBVIOUS
  <2> QED
    BY <1>3, <1>7, <2>1, <2>2, <2>3, <2>5, <2>6, Zenon DEF Shaped
<1>14. Shared'
  <2>1. SUFFICES \A d, f \in Dirs', i, j \in Idx :
                   Present(mem'[d][i]) /\ Present(mem'[f][j]) /\ mem'[d][i].base = mem'[f][j].base
                   => i = j /\ (d = f \/ mem'[d][i] = mem'[kernel_dir][i])
    BY DEF Shared
  <2> TAKE d, f \in Dirs', i, j \in Idx
  <2>2. HAVE Present(mem'[d][i]) /\ Present(mem'[f][j]) /\ mem'[d][i].base = mem'[f][j].base
  <2>3. PICK k \in Dirs : mem'[d] = mem[k] /\ (d # new => k = d) /\ (d = new => k = kernel_dir)
    BY <1>4, <1>5, <1>6
  <2>4. PICK l \in Dirs : mem'[f] = mem[l] /\ (f # new => l = f) /\ (f = new => l = kernel_dir)
    BY <1>4, <1>5, <1>6
  <2>5. i = j /\ (k = l \/ mem[k][i] = mem[kernel_dir][i])
    BY <2>2, <2>3, <2>4 DEF VInv, Shared
  <2>6. mem'[kernel_dir] = mem[kernel_dir]
    BY <1>5, <1>6
  <2> QED
    BY <2>3, <2>4, <2>5, <2>6
<1>15. Cached'
  <2>1. \A p \in DOMAIN tlb : p \in Pages
    BY DEF VInv, VMMTypeOK
  <2>2. cr3 \in Dirs
    BY DEF VInv, VMMTypeOK
  <2> QED
    BY <1>9, <2>1, <2>2, Zenon DEF VInv, Cached, Coherent
<1> QED
  BY <1>11, <1>12, <1>13, <1>14, <1>15 DEF VInv

LEMMA PagingOn ==
  ASSUME VInv, held' = held, vmm_init
  PROVE  VInv'
<1>1. /\ ~paging /\ paging' /\ dirs = {} /\ tables = {} /\ dirs' = {} /\ tables' = {}
      /\ cr3' = kernel_dir /\ tlb' = NoTlb /\ halted' = halted
  BY DEF VInv, Owned, vmm_init
<1>2. /\ kernel_dir \in Frames /\ identity_pt0 \in Frames /\ identity_pt1 \in Frames
      /\ kernel_dir # identity_pt0 /\ kernel_dir # identity_pt1 /\ identity_pt0 # identity_pt1
  BY VMMAssumption DEF Static
<1>3. mem \in [Frames -> [Idx -> Entry]]
  BY DEF VInv, VMMTypeOK
<1>4. /\ mem'[identity_pt0] = Identity(0)
      /\ mem'[identity_pt1] = Identity(Entries)
      /\ mem'[kernel_dir] = KernelDirectory
  BY <1>2, <1>3 DEF vmm_init
<1>5. 0 \in Idx /\ 1 \in Idx /\ Idx \subseteq Nat
  BY VMMAssumption DEF Idx
<1>6. /\ KernelDirectory[0] = [base |-> identity_pt0, flags |-> RW]
      /\ KernelDirectory[1] = [base |-> identity_pt1, flags |-> RW]
      /\ \A i \in Idx \ {0, 1} : KernelDirectory[i] = Absent
  BY <1>5 DEF KernelDirectory
<1>7. Dirs' = {kernel_dir}
  BY <1>1, Zenon DEF Dirs
<1>8. mem' \in [Frames -> [Idx -> Entry]]
  <2>1. RW \in SUBSET Flags /\ {} \in SUBSET Flags /\ 0 \in Frames
    BY PMMAssumption DEF RW, Flags, Frames
  <2>2. KernelDirectory \in [Idx -> Entry]
    BY <1>2, <2>1 DEF KernelDirectory, Entry, Absent
  <2>3. \A i \in Idx : 0 + i \in Frames /\ Entries + i \in Frames
    BY VMMAssumption, PMMAssumption DEF Idx, Frames
  <2>4. Identity(0) \in [Idx -> Entry] /\ Identity(Entries) \in [Idx -> Entry]
    BY <2>1, <2>3 DEF Identity, Entry
  <2> QED
    BY <1>2, <1>3, <2>2, <2>4 DEF vmm_init
<1>9. VMMTypeOK'
  BY <1>1, <1>7, <1>8 DEF VInv, VMMTypeOK, NoTlb
<1>10. Owned'
  BY <1>1 DEF VInv, Owned
<1>11. Shaped'
  <2>1. \A page \in Pages : Present(Walk(mem', kernel_dir, page)) => page \in Low
    <3> SUFFICES ASSUME NEW page \in Pages, page \notin Low
                 PROVE  ~Present(Walk(mem', kernel_dir, page))
      OBVIOUS
    <3>1. VMM_DIR_IDX(page) \in Idx \ {0, 1}
      BY IndexTyped, LowIndex
    <3>2. mem'[kernel_dir][VMM_DIR_IDX(page)] = Absent
      BY <1>4, <1>6, <3>1
    <3> QED
      BY <3>2, PdeFacts DEF Walk
  <2>2. \A i \in Idx \ {0, 1} : Linked(mem'[kernel_dir][i], tables')
    BY <1>4, <1>6 DEF Linked
  <2> QED
    BY <1>1, <1>4, <1>6, <1>7, <2>1, <2>2 DEF Shaped
<1>12. Shared'
  <2>1. SUFFICES \A i, j \in Idx :
                   /\ Present(mem'[kernel_dir][i]) /\ Present(mem'[kernel_dir][j])
                   /\ mem'[kernel_dir][i].base = mem'[kernel_dir][j].base
                   => i = j
    BY <1>7 DEF Shared
  <2> TAKE i, j \in Idx
  <2>2. HAVE /\ Present(mem'[kernel_dir][i]) /\ Present(mem'[kernel_dir][j])
             /\ mem'[kernel_dir][i].base = mem'[kernel_dir][j].base
  <2>3. i \in {0, 1} /\ j \in {0, 1}
    BY <1>4, <1>6, <2>2, PdeFacts
  <2> QED
    BY <1>2, <1>4, <1>6, <2>2, <2>3
<1>13. Cached'
  BY <1>1 DEF Cached, Coherent, NoTlb
<1> QED
  BY <1>9, <1>10, <1>11, <1>12, <1>13 DEF VInv

-----------------------------------------------------------------------------
(* Every step keeps the invariant.                                         *)

\* Frames change hands, the tables stay.
LEMMA HeldChanged ==
  ASSUME VInv, held' \cap Static = {}, dirs \cup tables \subseteq held',
         paging => \A t \in tables, i \in Idx : Present(mem[t][i]) => mem[t][i].base \in Data',
         halted' \in BOOLEAN, ~paging => ~halted',
         mem' = mem, paging' = paging, cr3' = cr3, tlb' = tlb, dirs' = dirs, tables' = tables
  PROVE  VInv'
<1>1. Dirs' = Dirs
  BY Zenon DEF Dirs
<1>2. VMMTypeOK'
  BY <1>1 DEF VInv, VMMTypeOK
<1>3. Owned'
  BY DEF VInv, Owned
<1>4. paging => Shaped'
  BY <1>1, Zenon DEF VInv, Shaped
<1>5. Shared'
  BY <1>1 DEF VInv, Shared
<1>6. Cached'
  BY DEF VInv, Cached, Coherent
<1> QED
  BY <1>2, <1>3, <1>4, <1>5, <1>6 DEF VInv

LEMMA Grown ==
  ASSUME VInv, held \subseteq held', held' \cap Static = {},
         halted' \in BOOLEAN, ~paging => ~halted',
         mem' = mem, paging' = paging, cr3' = cr3, tlb' = tlb, dirs' = dirs, tables' = tables
  PROVE  VInv'
<1>1. Data \subseteq Data'
  BY DEF Data
<1>2. paging => \A t \in tables, i \in Idx : Present(mem[t][i]) => mem[t][i].base \in Data'
  BY <1>1, Zenon DEF VInv, Shaped
<1> QED
  BY <1>2, HeldChanged DEF VInv, Owned

\* The directory entry a page is mapped under, with its table t: below 8 MB the one
\* of vmm_init, above it one of vmm_map_page.
EntryOver(page, t) == IF page \in Low THEN [base |-> t, flags |-> RW] ELSE Pde(t)

LEMMA MapStep ==
  ASSUME TypeOK, Kept, Kept', VInv, NEW dir \in Dirs, NEW page \in UserPages,
         NEW phys \in Data, NEW flags \in UserFlags, vmm_map_page(dir, page, phys, flags)
  PROVE  /\ page \notin Frames => VInv'
         /\ ~halted' /\ mem' # mem
            => \E t : /\ mem'[dir][VMM_DIR_IDX(page)] = EntryOver(page, t)
                      /\ mem'[t][VMM_TBL_IDX(page)] = Pte(phys, flags)
<1> DEFINE di == VMM_DIR_IDX(page)
           ti == VMM_TBL_IDX(page)
           pte == Pte(phys, flags)
           pde == mem[dir][di]
<1>1. page \in Pages /\ di \in Idx /\ ti \in Idx /\ (page \notin Frames => page \notin Low)
  BY VMMAssumption, IndexTyped, LowFrames
<1>2. page \notin Low => di # 0 /\ di # 1
  BY <1>1, LowIndex
<1>3. Running /\ paging /\ ~halted /\ UNCHANGED <<paging, cr3>>
  BY DEF vmm_map_page, Running
<1>4. Shaped /\ Coherent /\ VMMTypeOK /\ Owned
  BY <1>3 DEF VInv, Cached
<1>5. dir \in Low /\ Phys(dir) = dir
  BY <1>4, DirsLow, PhysLow
<1>6. pte \in Entry /\ pte.base \in Data
  <2>1. phys \in Frames
    BY DEF TypeOK, Data
  <2> QED
    BY <2>1, VMMAssumption DEF Pte, Entry, Flags
<1>7. held' \cap Static = {}
  BY VMMAssumption, KernelCovered, Zenon DEF Kept
<1>8. mem \in [Frames -> [Idx -> Entry]] /\ dir \in Frames /\ tables \subseteq Frames
  BY <1>4, <1>5, LowFrames DEF VMMTypeOK
<1>9. CASE page \in Low
  <2>1. PICK t \in {identity_pt0, identity_pt1} : pde = [base |-> t, flags |-> RW]
    BY <1>1, <1>4, <1>9, LowIndex DEF Shaped
  <2>2. Present(pde) /\ pde.base = t
    BY <2>1, PdeFacts
  <2>3. t \in Low /\ Phys(t) = t
    BY <1>4, PhysLow, StaticLow DEF Static
  <2>4. mem' = [mem EXCEPT ![t][ti] = pte]
    BY <1>5, <2>2, <2>3 DEF vmm_map_page
  <2>5. t # dir /\ t \in Frames
    BY <1>4, <2>3, LowFrames, VMMAssumption DEF Owned, Dirs, Static
  <2> HIDE DEF pte, ti
  <2>6. mem'[dir] = mem[dir] /\ mem'[t][ti] = pte
    BY <1>1, <1>8, <2>4, <2>5
  <2>7. mem'[dir][di] = EntryOver(page, t)
    BY <1>9, <2>1, <2>6 DEF EntryOver
  <2> QED
    BY <1>1, <1>9, <2>6, <2>7 DEF pte, ti
<1>10. CASE page \notin Low /\ Present(pde)
  <2>1. PICK t \in tables : pde = Pde(t)
    BY <1>1, <1>2, <1>4, <1>10, PdeFacts DEF Shaped, Linked
  <2>2. t \in Low /\ Phys(t) = t /\ pde.base = t
    BY <1>4, <2>1, PhysLow, PdeFacts DEF Owned
  <2>3. /\ mem' = [mem EXCEPT ![t][ti] = pte]
        /\ invlpg(page)
        /\ UNCHANGED <<vars, dirs, tables, halted>>
    BY <1>5, <1>10, <2>2 DEF vmm_map_page
  <2>4. /\ UNCHANGED <<paging, cr3, dirs, tables, halted, held>>
        /\ tlb' = [p \in DOMAIN tlb \ {page} |-> tlb[p]]
    BY <1>3, <2>3 DEF vars, invlpg
  <2> HIDE DEF pte, ti
  <2>5. page \notin Frames => VInv'
    BY <1>3, <1>6, <2>1, <2>3, <2>4, EntryReplaced, Zenon DEF ti
  <2>6. t # dir
    BY <1>4, VMMAssumption DEF Owned, Dirs, Static
  <2>7. mem'[dir] = mem[dir] /\ mem'[t][ti] = pte
    BY <1>1, <1>8, <2>3, <2>6
  <2> QED
    BY <1>10, <2>1, <2>5, <2>7 DEF pte, ti, EntryOver
<1>11. CASE page \notin Low /\ ~Present(pde)
  <2>1. pmm_alloc_page
    BY <1>5, <1>11 DEF vmm_map_page
  <2>2. \/ ret' = NULL /\ held' = held
        \/ ret' # NULL /\ ret' \in Frames /\ ret' \notin held /\ held' = held \cup {ret'}
    BY <2>1, AllocFresh
  <2>3. CASE ret' = NULL
    <3>1. mem' = mem /\ tlb' = tlb /\ dirs' = dirs /\ tables' = tables /\ halted' = halted
      BY <1>5, <1>11, <2>3 DEF vmm_map_page
    <3>2. halted' \in BOOLEAN /\ held \subseteq held' /\ paging' = paging /\ cr3' = cr3
      BY <1>3, <1>4, <2>2, <2>3, <3>1 DEF VMMTypeOK
    <3> QED
      BY <1>3, <1>7, <3>1, <3>2, Grown, Zenon
  <2>4. CASE ret' # NULL /\ ~Reachable(ret')
    <3>1. page_fault
      BY <1>5, <1>11, <2>4, Zenon DEF vmm_map_page
    <3>2. mem' = mem /\ tlb' = tlb /\ dirs' = dirs /\ tables' = tables /\ halted' = TRUE
      BY <3>1 DEF page_fault
    <3>3. held \subseteq held'
      BY <2>2
    <3> QED
      BY <1>3, <1>7, <3>2, <3>3, Grown
  <2>5. CASE ret' # NULL /\ Reachable(ret')
    <3>1. /\ mem' = NewTable(dir, page, ret', pte)
          /\ tables' = tables \cup {ret'}
          /\ invlpg(page)
          /\ UNCHANGED <<dirs, halted>>
      BY <1>5, <1>11, <2>5 DEF vmm_map_page
    <3>2. /\ dirs' = dirs /\ halted' = halted
          /\ tlb' = [p \in DOMAIN tlb \ {page} |-> tlb[p]]
      BY <3>1 DEF invlpg
    <3>3. ret' \in Low /\ ret' \notin held /\ held' = held \cup {ret'}
      BY <1>4, <2>2, <2>5, ReachableLow
    <3>4. Phys(ret') = ret'
      BY <1>4, <3>3, PhysLow
    <3>5. mem' = [[[mem EXCEPT ![ret'] = ZeroTable]
                         EXCEPT ![dir][di] = Pde(ret')]
                         EXCEPT ![ret'][ti] = pte]
      BY <1>5, <3>1, <3>4, Zenon DEF NewTable
    <3> HIDE DEF pte
    <3>6. page \notin Frames => VInv'
      BY <1>3, <1>6, <1>7, <1>11, <3>1, <3>2, <3>3, <3>5, TableAdded, Zenon
    <3> HIDE DEF di, ti
    <3>7. ret' # dir
      BY <1>4, <1>7, <3>3, VMMAssumption DEF Owned, Dirs, Static
    <3>8. mem'[dir][di] = Pde(ret') /\ mem'[ret'][ti] = pte
      BY <1>1, <1>8, <2>2, <2>5, <3>5, <3>7 DEF ZeroTable
    <3> QED
      BY <1>11, <3>6, <3>8 DEF pte, di, ti, EntryOver
  <2> QED
    BY <2>3, <2>4, <2>5
<1> QED
  BY <1>9, <1>10, <1>11

LEMMA UnmapStep ==
  ASSUME VInv, NEW dir \in Dirs, NEW page \in UserPages, page \notin Frames,
         vmm_unmap_page(dir, page)
  PROVE  VInv'
<1> DEFINE di == VMM_DIR_IDX(page)
           ti == VMM_TBL_IDX(page)
           pde == mem[dir][di]
<1>1. page \in Pages /\ page \notin Low /\ di \in Idx /\ ti \in Idx
  BY VMMAssumption, IndexTyped, LowFrames
<1>2. di # 0 /\ di # 1
  BY <1>1, LowIndex
<1>3. Running /\ paging
  BY DEF vmm_unmap_page, Running
<1>4. Shaped /\ Coherent /\ VMMTypeOK /\ Owned
  BY <1>3 DEF VInv, Cached
<1>5. dir \in Low /\ Phys(dir) = dir
  BY <1>4, DirsLow, PhysLow
<1>6. Present(pde)
  BY <1>5 DEF vmm_unmap_page
<1>7. PICK t \in tables : pde = Pde(t)
  BY <1>1, <1>2, <1>4, <1>6, PdeFacts DEF Shaped, Linked
<1>8. t \in Low /\ Phys(t) = t /\ pde.base = t
  BY <1>4, <1>7, PhysLow, PdeFacts, Zenon DEF Owned
<1>9. mem' = [mem EXCEPT ![t][ti] = Absent] /\ invlpg(page)
  BY <1>5, <1>8 DEF vmm_unmap_page
<1>10. /\ UNCHANGED <<paging, cr3, dirs, tables, halted, held>>
       /\ tlb' = [p \in DOMAIN tlb \ {page} |-> tlb[p]]
  BY <1>9 DEF vmm_unmap_page, vars, invlpg
<1>11. Absent \in Entry /\ ~Present(Absent)
  BY PdeFacts, PMMAssumption DEF Absent, Entry, Frames
<1> QED
  BY <1>3, <1>7, <1>9, <1>10, <1>11, EntryReplaced, Zenon

LEMMA CreateStep ==
  ASSUME TypeOK, Kept, Kept', VInv, vmm_create_user_directory
  PROVE  VInv'
<1>1. Running /\ paging /\ ~halted /\ pmm_alloc_page /\ UNCHANGED <<paging, cr3>>
  BY DEF vmm_create_user_directory, Running
<1>2. Shaped /\ Coherent /\ VMMTypeOK /\ Owned
  BY <1>1 DEF VInv, Cached
<1>3. held' \cap Static = {}
  BY VMMAssumption, KernelCovered, Zenon DEF Kept
<1>4. \/ ret' = NULL /\ held' = held
      \/ ret' # NULL /\ ret' \in Frames /\ ret' \notin held /\ held' = held \cup {ret'}
  BY <1>1, AllocFresh
<1>5. held \subseteq held' /\ paging' = paging /\ cr3' = cr3
  BY <1>1, <1>4
<1>6. CASE ret' = NULL
  <2>1. mem' = mem /\ tlb' = tlb /\ dirs' = dirs /\ tables' = tables /\ halted' = halted
    BY <1>6 DEF vmm_create_user_directory
  <2>2. halted' \in BOOLEAN
    BY <1>2, <2>1 DEF VMMTypeOK
  <2> QED
    BY <1>1, <1>3, <1>5, <2>1, <2>2, Grown, Zenon
<1>7. CASE ret' # NULL /\ ~Reachable(ret')
  <2>1. page_fault
    BY <1>7, Zenon DEF vmm_create_user_directory
  <2>2. mem' = mem /\ tlb' = tlb /\ dirs' = dirs /\ tables' = tables /\ halted' = TRUE
    BY <2>1 DEF page_fault
  <2> QED
    BY <1>1, <1>3, <1>5, <2>2, Grown
<1>8. CASE ret' # NULL /\ Reachable(ret')
  <2>1. /\ mem' = [mem EXCEPT ![Phys(ret')] = CopiedEntries]
        /\ dirs' = dirs \cup {ret'}
        /\ UNCHANGED <<tlb, tables, halted>>
    BY <1>8 DEF vmm_create_user_directory
  <2>2. ret' \in Low /\ ret' \notin held /\ held' = held \cup {ret'}
    BY <1>2, <1>4, <1>8, ReachableLow
  <2>3. Phys(ret') = ret' /\ Phys(kernel_dir) = kernel_dir
    BY <1>2, <2>2, PhysLow, StaticLow
  <2>4. mem' = [mem EXCEPT ![ret'] = mem[kernel_dir]]
    BY <2>1, <2>3 DEF CopiedEntries
  <2> QED
    BY <1>1, <1>3, <2>1, <2>2, <2>4, DirCreated, Zenon
<1> QED
  BY <1>6, <1>7, <1>8

\* Through all of vmm.c the page allocator only takes its own steps.
LEMMA PmmStep == [VMMNext]_vmm_vars => [Next]_vars
<1> SUFFICES ASSUME [VMMNext]_vmm_vars PROVE [Next]_vars
  OBVIOUS
<1>1. CASE BootStep
  BY <1>1 DEF BootStep, Next
<1>2. CASE vmm_init
  BY <1>2 DEF vmm_init
<1>3. CASE AllocData
  BY <1>3 DEF AllocData, Next
<1>4. ASSUME NEW frame \in Frames, FreeData(frame) PROVE Next
  BY <1>4 DEF FreeData, Next
<1>5. CASE vmm_create_user_directory
  BY <1>5 DEF vmm_create_user_directory, Next
<1>6. ASSUME NEW dir \in Dirs, vmm_switch_directory(dir) PROVE [Next]_vars
  BY <1>6 DEF vmm_switch_directory
<1>7. ASSUME NEW dir \in Dirs, NEW page \in UserPages, NEW phys \in Data, NEW flags \in UserFlags,
             vmm_map_page(dir, page, phys, flags)
      PROVE  [Next]_vars
  BY <1>7, Zenon DEF vmm_map_page, Next
<1>8. ASSUME NEW dir \in Dirs, NEW page \in UserPages, vmm_unmap_page(dir, page)
      PROVE  [Next]_vars
  BY <1>8 DEF vmm_unmap_page
<1>9. ASSUME NEW page \in Touched, cpu_access(page) PROVE [Next]_vars
  BY <1>9 DEF cpu_access
<1>10. CASE UNCHANGED vmm_vars
  BY <1>10 DEF vmm_vars
<1> QED
  BY <1>1, <1>2, <1>3, <1>4, <1>5, <1>6, <1>7, <1>8, <1>9, <1>10, Zenon DEF VMMNext

LEMMA SwitchStep ==
  ASSUME VInv, NEW dir \in Dirs, vmm_switch_directory(dir)
  PROVE  VInv'
<1>1. /\ cr3' = dir /\ tlb' = NoTlb /\ held' = held /\ mem' = mem /\ paging' = paging
      /\ dirs' = dirs /\ tables' = tables /\ halted' = halted /\ paging
  BY DEF vmm_switch_directory, vars, Running
<1>2. Dirs' = Dirs /\ Data' = Data
  BY <1>1 DEF Dirs, Data
<1>3. VMMTypeOK'
  BY <1>1, <1>2 DEF VInv, VMMTypeOK, NoTlb
<1>4. Owned'
  BY <1>1 DEF VInv, Owned
<1>5. Shaped'
  BY <1>1, <1>2, Zenon DEF VInv, Shaped
<1>6. Shared'
  BY <1>1, <1>2 DEF VInv, Shared
<1>7. Cached'
  BY <1>1 DEF Cached, Coherent, NoTlb
<1> QED
  BY <1>3, <1>4, <1>5, <1>6, <1>7 DEF VInv

LEMMA AccessStep ==
  ASSUME VInv, NEW page \in Touched, cpu_access(page)
  PROVE  VInv'
<1>1. /\ cr3' = cr3 /\ held' = held /\ mem' = mem /\ paging' = paging
      /\ dirs' = dirs /\ tables' = tables /\ halted' = halted /\ paging
      /\ page \notin DOMAIN tlb /\ Present(Walk(mem, cr3, page))
      /\ tlb' = [p \in DOMAIN tlb \cup {page} |-> Translate(p)]
  BY DEF cpu_access, vars, Running
<1>2. Dirs' = Dirs /\ Data' = Data
  BY <1>1 DEF Dirs, Data
<1>3. page \in Pages
  BY VMMAssumption
<1>4. Walk(mem, cr3, page) \in Entry
  <2> DEFINE pde == mem[cr3][VMM_DIR_IDX(page)]
             pte == mem[pde.base][VMM_TBL_IDX(page)]
  <2>1. mem \in [Frames -> [Idx -> Entry]] /\ cr3 \in Frames
    BY VMMAssumption DEF VInv, VMMTypeOK, Dirs, Static
  <2>2. pde \in Entry
    BY <1>3, <2>1, IndexTyped
  <2>3. pte \in Entry
    BY <1>3, <2>1, <2>2, IndexTyped DEF Entry
  <2>4. Walk(mem, cr3, page) = [base |-> pte.base, flags |-> pde.flags \cap pte.flags]
    BY <1>1, PdeFacts, Zenon DEF Walk
  <2> HIDE DEF pde, pte
  <2> QED
    BY <2>2, <2>3, <2>4 DEF Entry
<1>5. \A p \in DOMAIN tlb' : /\ p \in Pages
                             /\ tlb'[p] = Walk(mem, cr3, p)
                             /\ Present(tlb'[p])
                             /\ tlb'[p] \in Entry
  BY <1>1, <1>3, <1>4 DEF Translate, VInv, Cached, Coherent, VMMTypeOK
<1>6. VMMTypeOK'
  BY <1>1, <1>2, <1>5, Zenon DEF VInv, VMMTypeOK
<1>7. Owned'
  BY <1>1 DEF VInv, Owned
<1>8. Shaped'
  BY <1>1, <1>2, Zenon DEF VInv, Shaped
<1>9. Shared'
  BY <1>1, <1>2 DEF VInv, Shared
<1>10. Cached'
  BY <1>1, <1>5 DEF Cached, Coherent
<1> QED
  BY <1>6, <1>7, <1>8, <1>9, <1>10 DEF VInv

LEMMA FreeStep ==
  ASSUME VInv, NEW frame \in Frames, FreeData(frame)
  PROVE  VInv'
<1>1. /\ held' = held \ {frame} /\ frame \notin dirs \cup tables /\ ~Mapped(frame)
      /\ mem' = mem /\ paging' = paging /\ cr3' = cr3 /\ tlb' = tlb
      /\ dirs' = dirs /\ tables' = tables /\ halted' = halted
  BY DEF FreeData, pmm_free_page, vmm_state
<1>2. halted' \in BOOLEAN /\ (~paging => ~halted')
  BY <1>1, Zenon DEF VInv, VMMTypeOK, Owned
<1>3. paging => \A t \in tables, i \in Idx : Present(mem[t][i]) => mem[t][i].base \in Data'
  <2>1. Data' = Data \ {frame}
    BY <1>1 DEF Data
  <2>2. paging => \A t \in tables, i \in Idx : Present(mem[t][i]) => mem[t][i].base \in Data
    BY DEF VInv, Shaped
  <2> QED
    BY <1>1, <2>1, <2>2 DEF Mapped
<1>4. held' \cap Static = {} /\ dirs \cup tables \subseteq held'
  BY <1>1 DEF VInv, Owned
<1> QED
  BY <1>1, <1>2, <1>3, <1>4, HeldChanged, Zenon

LEMMA IInvStep ==
  ASSUME TypeOK, Kept, Kept', IInv, [VMMNext]_vmm_vars
  PROVE  IInv'
<1> SUFFICES ASSUME intact' PROVE VInv'
  BY DEF IInv
<1>1. intact /\ VInv
  BY DEF IInv, VMMNext, vmm_vars, Redirected
<1>2. held' \cap Static = {}
  BY VMMAssumption, KernelCovered, Zenon DEF Kept
<1>3. halted \in BOOLEAN /\ (~paging => ~halted)
  BY <1>1, Zenon DEF VInv, VMMTypeOK, Owned
<1>4. ASSUME held \subseteq held', UNCHANGED vmm_state PROVE VInv'
  <2>1. /\ mem' = mem /\ paging' = paging /\ cr3' = cr3 /\ tlb' = tlb
        /\ dirs' = dirs /\ tables' = tables /\ halted' = halted
    BY <1>4 DEF vmm_state
  <2> QED
    BY <1>1, <1>2, <1>3, <1>4, <2>1, Grown, Zenon
<1>5. CASE BootStep
  <2>1. held' = held
    BY <1>5 DEF BootStep, pmm_init_entry, pmm_init_walked, pmm_init_reserve
  <2> QED
    BY <1>4, <1>5, <2>1 DEF BootStep
<1>6. CASE vmm_init
  <2>1. held' = held
    BY <1>6 DEF vmm_init, vars
  <2> QED
    BY <1>1, <1>6, <2>1, PagingOn
<1>7. CASE AllocData
  <2>1. held \subseteq held'
    BY <1>7, AllocFresh DEF AllocData
  <2> QED
    BY <1>4, <1>7, <2>1 DEF AllocData
<1>8. ASSUME NEW dir \in Dirs, NEW page \in UserPages, Redirected(page),
             \/ \E phys \in Data, flags \in UserFlags : vmm_map_page(dir, page, phys, flags)
             \/ vmm_unmap_page(dir, page)
      PROVE  VInv'
  <2>1. page \notin Frames
    BY <1>8 DEF Redirected
  <2> QED
    BY <1>1, <1>8, <2>1, MapStep, UnmapStep, Zenon
<1>9. CASE UNCHANGED vmm_vars
  <2>1. held' = held /\ UNCHANGED vmm_state
    BY <1>9 DEF vmm_vars, vars
  <2> QED
    BY <1>4, <2>1
<1> QED
  BY <1>1, <1>5, <1>6, <1>7, <1>8, <1>9, FreeStep, CreateStep, SwitchStep, AccessStep, Zenon
     DEF VMMNext

LEMMA VInvInit == VMMInit => VInv
<1> SUFFICES ASSUME VMMInit PROVE VInv
  OBVIOUS
<1>1. /\ held = {} /\ mem = Junk /\ paging = FALSE /\ cr3 = kernel_dir /\ tlb = NoTlb
      /\ dirs = {} /\ tables = {} /\ halted = FALSE
  BY DEF VMMInit, Init
<1>2. DOMAIN tlb = {}
  BY <1>1 DEF NoTlb
<1>3. VMMTypeOK
  BY <1>1, <1>2, VMMAssumption, Zenon DEF VMMTypeOK, Dirs
<1>4. Owned /\ Cached /\ Shared /\ (paging => Shaped)
  BY <1>1, <1>2, Zenon DEF Owned, Cached, Coherent, Shared
<1> QED
  BY <1>3, <1>4 DEF VInv

-----------------------------------------------------------------------------
(* The theorems.                                                           *)

\* vmm.c uses the page allocator as its specification says: every behaviour of
\* the two together is a behaviour of pmm.c, so what is proved of it holds here.
THEOREM UsesPMM == VMMSpec => Spec
<1>1. VMMInit => Init
  BY DEF VMMInit
<1> QED
  BY <1>1, PmmStep, PTL DEF VMMSpec, Spec

LEMMA Invariant == VMMSpec => [](TypeOK /\ Kept /\ IInv)
<1>1. VMMInit => TypeOK /\ Kept /\ IInv
  BY TypeInit, KeptInit, VInvInit DEF VMMInit, IInv
<1>2. TypeOK /\ Kept /\ IInv /\ [VMMNext]_vmm_vars => (TypeOK /\ Kept /\ IInv)'
  <2> SUFFICES ASSUME TypeOK, Kept, IInv, [VMMNext]_vmm_vars PROVE (TypeOK /\ Kept /\ IInv)'
    OBVIOUS
  <2>1. [Next]_vars
    BY PmmStep
  <2>2. TypeOK' /\ Kept'
    BY <2>1, TypeStep, KeptStep
  <2> QED
    BY <2>2, IInvStep
<1> QED
  BY <1>1, <1>2, PTL DEF VMMSpec

\* Until a caller maps or unmaps a page whose number is a frame's, every directory
\* keeps the first 8 MB mapped to themselves, for ring 0, whatever is mapped above
\* the RAM, unmapped, created or freed.
THEOREM IdentityMap == VMMSpec => []IdentityKept
<1>1. IInv => IdentityKept
  BY WalkLow DEF IInv, VInv, IdentityKept
<1> QED
  BY <1>1, Invariant, PTL

\* Until then, invlpg on the mapped page and the reload of CR3 are all the
\* invalidation that the TLB needs.
THEOREM Coherence == VMMSpec => []TLBCoherent
<1>1. IInv => TLBCoherent
  BY DEF IInv, VInv, Cached, Coherent, TLBCoherent
<1> QED
  BY <1>1, Invariant, PTL

\* Until then, directories share no page table but the kernel's.
THEOREM Sharing == VMMSpec => []SharedOnlyKernel
<1>1. IInv => SharedOnlyKernel
  BY DEF IInv, VInv, Shared, SharedOnlyKernel
<1> QED
  BY <1>1, Invariant, PTL

LEMMA UserData ==
  ASSUME Shaped, NEW dir \in Dirs, NEW page \in Pages, "USER" \in Walk(mem, dir, page).flags
  PROVE  Walk(mem, dir, page).base \in Data
<1> DEFINE pde == mem[dir][VMM_DIR_IDX(page)]
           pte == mem[pde.base][VMM_TBL_IDX(page)]
<1>1. Present(pde) /\ Present(pte) /\ Walk(mem, dir, page).base = pte.base
  BY Zenon DEF Walk, Absent
<1>2. page \notin Low
  BY WalkLow DEF RW
<1>3. VMM_DIR_IDX(page) \in Idx \ {0, 1} /\ VMM_TBL_IDX(page) \in Idx
  BY <1>2, IndexTyped, LowIndex
<1>4. PICK t \in tables : pde = Pde(t)
  BY <1>1, <1>3, PdeFacts, Zenon DEF Shaped, Linked
<1>5. pde.base = t
  BY <1>4, PdeFacts
<1>6. Present(mem[t][VMM_TBL_IDX(page)]) /\ pte = mem[t][VMM_TBL_IDX(page)]
  BY <1>1, <1>5
<1> HIDE DEF pte
<1>7. mem[t][VMM_TBL_IDX(page)].base \in Data
  BY <1>3, <1>6 DEF Shaped
<1> QED
  BY <1>1, <1>6, <1>7

\* Until then, ring 3 reaches only frames that were mapped for it, through any
\* directory and through the TLB.
THEOREM Hidden == VMMSpec => []TablesHidden
<1>1. IInv => TablesHidden
  <2> SUFFICES ASSUME VInv PROVE TablesHidden
    BY DEF IInv, TablesHidden
  <2>1. paging => \A dir \in Dirs, page \in Pages :
          "USER" \in Walk(mem, dir, page).flags => Walk(mem, dir, page).base \in Data
    BY UserData DEF VInv
  <2>2. ASSUME NEW page \in DOMAIN tlb
        PROVE  paging /\ page \in Pages /\ cr3 \in Dirs /\ tlb[page] = Walk(mem, cr3, page)
    BY DEF VInv, Owned, VMMTypeOK, Cached, Coherent
  <2> QED
    BY <2>1, <2>2 DEF TablesHidden
<1> QED
  BY <1>1, Invariant, PTL

\* vmm_map_page gives the mapping that was asked for, whether the page table was
\* there or is new; on a page under the two identity tables, whose directory entry
\* it leaves as vmm_init wrote it, it gives the frame but not the USER flag.
THEOREM MapExact == VMMSpec => MapsAsAsked
<1> DEFINE A == intact /\ ~halted' /\ mem' # mem =>
                  \A dir \in Dirs, page \in UserPages, phys \in Data, flags \in UserFlags :
                    vmm_map_page(dir, page, phys, flags)
                      => Walk(mem', dir, page) =
                           [base |-> phys, flags |-> (flags \cup {"PRESENT"}) \ Withheld(page)]
<1>1. TypeOK /\ Kept /\ Kept' /\ IInv => A
  <2> SUFFICES ASSUME TypeOK, Kept, Kept', VInv, ~halted', mem' # mem,
                      NEW dir \in Dirs, NEW page \in UserPages, NEW phys \in Data,
                      NEW flags \in UserFlags, vmm_map_page(dir, page, phys, flags)
               PROVE  Walk(mem', dir, page) =
                        [base |-> phys, flags |-> (flags \cup {"PRESENT"}) \ Withheld(page)]
    BY Zenon DEF IInv
  <2>1. PICK t : /\ mem'[dir][VMM_DIR_IDX(page)] = EntryOver(page, t)
                 /\ mem'[t][VMM_TBL_IDX(page)] = Pte(phys, flags)
    BY MapStep
  <2>2. flags \subseteq {"PRESENT", "WRITE", "USER"}
    BY VMMAssumption, Zenon DEF Flags
  <2>3. Present(Pte(phys, flags)) /\ Pte(phys, flags).base = phys
        /\ Pte(phys, flags).flags = flags \cup {"PRESENT"}
    BY DEF Present, Pte
  <2>4. Present(EntryOver(page, t)) /\ EntryOver(page, t).base = t
    BY PdeFacts DEF EntryOver, Present, RW
  <2>5. EntryOver(page, t).flags \cap (flags \cup {"PRESENT"})
          = (flags \cup {"PRESENT"}) \ Withheld(page)
    <3>1. CASE page \in Low
      <4>1. EntryOver(page, t).flags = {"PRESENT", "WRITE"} /\ Withheld(page) = {"USER"}
        BY <3>1 DEF EntryOver, Withheld, RW
      <4> QED
        BY <2>2, <4>1
    <3>2. CASE page \notin Low
      <4>1. EntryOver(page, t).flags = {"PRESENT", "WRITE", "USER"} /\ Withheld(page) = {}
        BY <3>2, PdeFacts DEF EntryOver, Withheld, Flags
      <4> QED
        BY <2>2, <4>1
    <3> QED
      BY <3>1, <3>2
  <2> QED
    BY <2>1, <2>3, <2>4, <2>5, Zenon DEF Walk
<1>2. VMMSpec => [][A]_vmm_vars
  <2>1. (TypeOK /\ Kept /\ IInv) /\ (TypeOK /\ Kept /\ IInv)' => A
    BY <1>1
  <2> QED
    BY <2>1, Invariant, PTL DEF VMMSpec
<1> QED
  BY <1>2 DEF MapsAsAsked
=============================================================================
