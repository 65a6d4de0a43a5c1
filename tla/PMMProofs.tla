----------------------------- MODULE PMMProofs -----------------------------
(***************************************************************************)
(* Proofs about PMM, for every memory size, page size, word width, memory  *)
(* map and order of calls.                                                 *)
(***************************************************************************)
EXTENDS PMM, FiniteSetTheorems, WellFoundedInduction, TLAPS

LEMMA FramesFinite == IsFiniteSet(Frames) /\ Frames \subseteq Nat
  BY PMMAssumption, FS_Interval DEF Frames

LEMMA MinIsMember ==
  ASSUME NEW S \in SUBSET Nat, S # {}
  PROVE  Min(S) \in S /\ \A y \in S : Min(S) <= y
<1> DEFINE Less == {ss \in Nat \X Nat : ss[1] < ss[2]}
<1>0. Less = OpToRel(<, Nat)
  BY Zenon DEF OpToRel
<1>a. IsWellFoundedOn(Less, Nat)
  BY <1>0, NatLessThanWellFounded, Zenon
<1>1. PICK x \in S : \A y \in S : ~(<<y, x>> \in Less)
  <2> HIDE DEF Less
  <2> QED  BY <1>a, WFMin, Zenon
<1>2. \A y \in S : x <= y
  <2> TAKE y \in S
  <2>1. x \in Nat /\ y \in Nat
    OBVIOUS
  <2>2. ~(y < x)
    <3> SUFFICES ASSUME y < x PROVE FALSE
      OBVIOUS
    <3>1. <<y, x>> \in Less
      BY <2>1
    <3> QED
      BY <1>1, <3>1
  <2> QED
    BY <2>1, <2>2
<1> QED
  BY <1>2, Zenon DEF Min

\* What the scan returns is a clear bit below total_pages.
LEMMA ScanResult ==
  ASSUME NEW b \in SUBSET Frames, NEW total \in 0..PMM_PAGES_MAX, Scan(b, total) # NULL
  PROVE  Scan(b, total) \in Frames \ b /\ Scan(b, total) < total
<1> DEFINE open == {w \in Words : ~(FramesOf(w) \subseteq b)}
           inner(w) == {f \in FramesOf(w) : f >= total \/ f \notin b}
<1>1. open # {}
  BY DEF Scan
<1>2. open \subseteq Nat
  BY DEF Words
<1>3. Min(open) \in open
  BY <1>1, <1>2, MinIsMember
<1> DEFINE w == Min(open)
<1>4. FramesOf(w) \subseteq Nat
  <2>1. w \in Nat
    BY <1>2, <1>3
  <2>2. w * WordBits \in Nat
    <3> HIDE DEF w
    <3> QED  BY <2>1, PMMAssumption
  <2> DEFINE first == w * WordBits
             last == first + WordBits - 1
  <2>3. FramesOf(w) = first..last
    BY Zenon DEF FramesOf
  <2>4. first \in Nat
    BY <2>2
  <2> HIDE DEF first, last, w
  <2>5. first..last \subseteq Nat
    BY <2>4
  <2> QED
    BY <2>3, <2>5, Zenon
<1>5. inner(w) # {}
  BY <1>3
<1>6. inner(w) \subseteq Nat
  BY <1>4
<1>7. Min(inner(w)) \in inner(w)
  BY <1>5, <1>6, MinIsMember
<1>8. Scan(b, total) = Min(inner(w)) /\ Min(inner(w)) < total
  <2>1. Scan(b, total) = IF Min(inner(w)) >= total THEN NULL ELSE Min(inner(w))
    BY <1>1 DEF Scan
  <2>2. Min(inner(w)) \in Nat
    BY <1>6, <1>7
  <2> HIDE DEF inner, w
  <2> QED  BY <2>1, <2>2
<1>9. Min(inner(w)) \notin b /\ Min(inner(w)) \in Nat
  <2>1. Min(inner(w)) \in Nat
    BY <1>6, <1>7
  <2>2. Min(inner(w)) >= total \/ Min(inner(w)) \notin b
    BY <1>7
  <2>3. ~(Min(inner(w)) >= total)
    <3> HIDE DEF inner, w
    <3> QED  BY <1>8, <2>1
  <2> QED
    BY <2>1, <2>2, <2>3
<1> HIDE DEF inner, w
<1> QED
  BY <1>8, <1>9, PMMAssumption DEF Frames

-----------------------------------------------------------------------------
(* Type correctness.                                                       *)

LEMMA TotalInRange ==
  ASSUME NEW m \in Mbis
  PROVE  TotalPages(m) \in 0..PMM_PAGES_MAX
<1> DEFINE n == (m.mem % AddrMod) \div PMM_PAGE_SIZE
<1>1. m.mem % AddrMod \in Nat
  BY PMMAssumption
<1>2. n \in Nat
  BY <1>1, PMMAssumption
<1> HIDE DEF n
<1> QED
  BY <1>2, PMMAssumption DEF TotalPages, n

LEMMA ClearTyped ==
  ASSUME TypeOK, NEW range, ClearBits(range)
  PROVE  bitmap' \subseteq Frames /\ used_pages' \in 0..(AddrMod - 1)
<1>1. Cardinality(range \cap bitmap) \in Nat
  BY FramesFinite, FS_Subset, FS_CardinalityType, Zenon DEF TypeOK
<1> QED
  BY <1>1, PMMAssumption DEF TypeOK, ClearBits

LEMMA SetTyped ==
  ASSUME TypeOK, NEW range \in SUBSET Frames, SetBits(range)
  PROVE  bitmap' \subseteq Frames /\ used_pages' \in 0..(AddrMod - 1)
<1>1. Cardinality(range \ bitmap) \in Nat
  BY FramesFinite, FS_Subset, FS_CardinalityType, Zenon DEF TypeOK
<1> QED
  BY <1>1, PMMAssumption DEF TypeOK, SetBits

LEMMA ReservedFrames == Reserved \subseteq Frames
  BY PMMAssumption DEF Reserved, UsedRange, Frames

LEMMA TypeStep ==
  ASSUME TypeOK, [Next]_vars
  PROVE  TypeOK'
<1>1. CASE pmm_init_entry
  BY <1>1, ClearTyped DEF pmm_init_entry, TypeOK
<1>2. CASE pmm_init_walked
  BY <1>2, ClearTyped DEF pmm_init_walked, TypeOK
<1>3. CASE pmm_init_reserve
  BY <1>3, SetTyped, ReservedFrames DEF pmm_init_reserve, TypeOK
<1>4. CASE pmm_alloc_page
  <2>1. CASE Scan(bitmap, total_pages) = NULL
    BY <1>4, <2>1 DEF pmm_alloc_page, TypeOK
  <2>2. CASE Scan(bitmap, total_pages) # NULL
    <3> DEFINE page == Scan(bitmap, total_pages)
    <3>1. page \in Frames
      BY <2>2, ScanResult DEF TypeOK
    <3>2. SetBits({page}) /\ held' = held \cup {page} /\ given_back' = {} /\ ret' = page
      BY <1>4, <2>2 DEF pmm_alloc_page
    <3>3. UNCHANGED <<mbi, step, offset, total_pages>>
      BY <1>4 DEF pmm_alloc_page
    <3> HIDE DEF page
    <3> QED
      BY <3>1, <3>2, <3>3, SetTyped DEF TypeOK
  <2> QED
    BY <2>1, <2>2
<1>5. ASSUME NEW frame \in Frames, pmm_free_page(frame) PROVE TypeOK'
  BY <1>5, ClearTyped DEF pmm_free_page, Freed, TypeOK
<1>6. CASE UNCHANGED vars
  BY <1>6 DEF vars, TypeOK
<1> QED
  BY <1>1, <1>2, <1>3, <1>4, <1>5, <1>6 DEF Next

LEMMA TypeInit == Init => TypeOK
  BY TotalInRange, PMMAssumption DEF Init, TypeOK

\* The bitmap, the counters and what is handed out stay in range.
THEOREM TypeCorrect == Spec => []TypeOK
  BY TypeInit, TypeStep, PTL DEF Spec

-----------------------------------------------------------------------------
(* What is handed out.                                                     *)

LEMMA DivMonotone ==
  ASSUME NEW d \in Nat \ {0}, NEW a \in Nat, NEW b \in Nat, a <= b
  PROVE  a \div d <= b \div d
  OBVIOUS

LEMMA DivNext ==
  ASSUME NEW d \in Nat \ {0}, NEW a \in Nat, NEW b \in Nat, a < b
  PROVE  a \div d < (b + d - 1) \div d
<1>1. a + d <= b + d - 1
  OBVIOUS
<1>2. (a + d) \div d = (a \div d) + 1
  OBVIOUS
<1>3. (a + d) \div d <= (b + d - 1) \div d
  BY <1>1, DivMonotone
<1> QED
  BY <1>2, <1>3

\* Rounding as pmm_mark_region_used does covers every byte of the kernel.
LEMMA KernelCovered == KernelFrames \cap Frames \subseteq Reserved
<1> SUFFICES ASSUME NEW a \in KernelStart..(KernelEnd - 1), a \div PMM_PAGE_SIZE \in Frames
             PROVE  a \div PMM_PAGE_SIZE \in Reserved
  BY DEF KernelFrames
<1>1. a \in Nat /\ KernelStart <= a /\ a < KernelEnd
  BY PMMAssumption
<1>2. KernelStart \div PMM_PAGE_SIZE <= a \div PMM_PAGE_SIZE
  BY <1>1, DivMonotone, PMMAssumption
<1>3. a \div PMM_PAGE_SIZE < (KernelEnd + PMM_PAGE_SIZE - 1) \div PMM_PAGE_SIZE
  BY <1>1, DivNext, PMMAssumption
<1>4. (KernelStart + (KernelEnd - KernelStart) + PMM_PAGE_SIZE - 1) % AddrMod
        = KernelEnd + PMM_PAGE_SIZE - 1
  BY PMMAssumption
<1> QED
  BY <1>2, <1>3, <1>4 DEF Reserved, UsedRange

\* Until pmm_init is done nothing is handed out; after it the reserved frames
\* stay used, and no caller ever holds or gives back one of them.
Kept ==
  /\ step # "ready" => held = {} /\ given_back = {}
  /\ step = "ready" => Reserved \subseteq bitmap
  /\ held \subseteq bitmap
  /\ \A f \in held : f < total_pages
  /\ held \cap Reserved = {}
  /\ given_back \cap Reserved = {}

LEMMA KeptStep ==
  ASSUME TypeOK, Kept, [Next]_vars
  PROVE  Kept'
<1> USE DEF Kept
<1>1. CASE pmm_init_entry
  BY <1>1 DEF pmm_init_entry
<1>2. CASE pmm_init_walked
  BY <1>2 DEF pmm_init_walked
<1>3. CASE pmm_init_reserve
  BY <1>3 DEF pmm_init_reserve, SetBits
<1>4. CASE pmm_alloc_page
  <2>1. CASE Scan(bitmap, total_pages) = NULL
    BY <1>4, <2>1 DEF pmm_alloc_page
  <2>2. CASE Scan(bitmap, total_pages) # NULL
    <3> DEFINE page == Scan(bitmap, total_pages)
    <3>1. page \in Frames \ bitmap /\ page < total_pages
      BY <2>2, ScanResult DEF TypeOK
    <3>2. SetBits({page}) /\ held' = held \cup {page} /\ given_back' = {}
      BY <1>4, <2>2 DEF pmm_alloc_page
    <3>3. step = "ready" /\ UNCHANGED <<step, total_pages>>
      BY <1>4 DEF pmm_alloc_page
    <3> HIDE DEF page
    <3> QED
      BY <3>1, <3>2, <3>3 DEF SetBits
  <2> QED
    BY <2>1, <2>2
<1>5. ASSUME NEW frame \in Frames, pmm_free_page(frame) PROVE Kept'
  <2>1. bitmap' = bitmap \/ bitmap' = bitmap \ {frame}
    BY <1>5 DEF pmm_free_page, Freed, ClearBits
  <2> QED
    BY <1>5, <2>1 DEF pmm_free_page
<1>6. CASE UNCHANGED vars
  BY <1>6 DEF vars
<1> QED
  BY <1>1, <1>2, <1>3, <1>4, <1>5, <1>6 DEF Next

LEMMA KeptInit == Init => Kept
  BY DEF Init, Kept

\* Whatever the boot loader reports and however frames are freed, what
\* pmm_alloc_page hands out is RAM and neither page 0 nor part of the kernel.
THEOREM HandedOut == Spec => []HandedOutSafe
<1>1. TypeOK /\ Kept => HandedOutSafe
  <2> SUFFICES ASSUME TypeOK, Kept PROVE HandedOutSafe
    OBVIOUS
  <2>1. held \subseteq 0..(total_pages - 1)
    BY PMMAssumption DEF TypeOK, Kept, Frames
  <2>2. 0 \in Reserved
    BY DEF Reserved
  <2> QED
    BY <2>1, <2>2, KernelCovered, Zenon DEF TypeOK, Kept, HandedOutSafe
<1> QED
  BY <1>1, TypeCorrect, KeptInit, KeptStep, PTL DEF Spec

\* No frame is handed out while somebody holds it.
THEOREM NoDoubleHandout == Spec => FreshFrame
<1>1. TypeOK /\ Kept /\ [Next]_vars
        => [pmm_alloc_page /\ ret' # NULL => ret' \notin held]_vars
  BY ScanResult DEF TypeOK, Kept, pmm_alloc_page
<1> QED
  BY <1>1, TypeCorrect, KeptInit, KeptStep, PTL DEF Spec, FreshFrame

-----------------------------------------------------------------------------
(* The count.                                                              *)

Ram == 0..(total_pages - 1)

LEMMA ClearCount ==
  ASSUME TypeOK, Counted, NEW range, range \cap bitmap \subseteq Ram,
         ClearBits(range), total_pages' = total_pages
  PROVE  Counted'
<1> DEFINE A == bitmap \cap Ram
           B == range \cap bitmap
<1>1. IsFiniteSet(A) /\ Cardinality(A) \in Nat
  BY FramesFinite, FS_Subset, FS_CardinalityType, Zenon DEF TypeOK
<1>2. A \cap B = B /\ B \subseteq A
  OBVIOUS
<1>3. Cardinality(A \ B) = Cardinality(A) - Cardinality(A \cap B)
  BY <1>1, FS_Difference, Zenon
<1>4. Cardinality(B) \in Nat /\ Cardinality(B) <= Cardinality(A)
  BY <1>1, <1>2, FS_Subset, FS_CardinalityType
<1>5. bitmap' \cap Ram' = A \ B
  BY DEF ClearBits, Ram
<1>6. used_pages = Cardinality(A) /\ used_pages \in 0..(AddrMod - 1)
  BY DEF Counted, Ram, TypeOK
<1>7. used_pages' = (used_pages - Cardinality(B)) % AddrMod
  BY DEF ClearBits
<1> HIDE DEF A, B
<1>8. used_pages' = Cardinality(A) - Cardinality(B)
  BY <1>1, <1>4, <1>6, <1>7, PMMAssumption
<1> QED
  BY <1>2, <1>3, <1>5, <1>8 DEF Counted, Ram

LEMMA SetCount ==
  ASSUME TypeOK, Counted, NEW range \in SUBSET Frames, range \subseteq Ram,
         SetBits(range), total_pages' = total_pages
  PROVE  Counted'
<1> DEFINE A == bitmap \cap Ram
           B == range \ bitmap
<1>1. IsFiniteSet(A) /\ Cardinality(A) \in Nat
  BY FramesFinite, FS_Subset, FS_CardinalityType, Zenon DEF TypeOK
<1>2. IsFiniteSet(B) /\ Cardinality(B) \in Nat
  BY FramesFinite, FS_Subset, FS_CardinalityType, Zenon
<1>3. A \cap B = {}
  OBVIOUS
<1>4. Cardinality(A \cup B) = Cardinality(A) + Cardinality(B) - Cardinality(A \cap B)
  BY <1>1, <1>2, FS_Union
<1>5. Cardinality(A \cap B) = 0
  BY <1>3, FS_EmptySet
<1>6. bitmap' \cap Ram' = A \cup B
  BY Zenon DEF SetBits, Ram
<1>7. Cardinality(A \cup B) <= PMM_PAGES_MAX
  <2>1. Cardinality(Frames) = PMM_PAGES_MAX
    BY FS_Interval, PMMAssumption DEF Frames
  <2>2. A \cup B \subseteq Frames
    BY DEF TypeOK
  <2> HIDE DEF A, B
  <2> QED  BY <2>1, <2>2, FramesFinite, FS_Subset
<1>8. used_pages = Cardinality(A)
  BY DEF Counted, Ram
<1>9. used_pages' = (used_pages + Cardinality(B)) % AddrMod
  BY DEF SetBits
<1> HIDE DEF A, B
<1>10. used_pages' = Cardinality(A) + Cardinality(B)
  BY <1>1, <1>2, <1>4, <1>5, <1>7, <1>8, <1>9, PMMAssumption
<1>11. used_pages' = Cardinality(A \cup B)
  BY <1>1, <1>2, <1>4, <1>5, <1>10
<1>12. Counted' <=> used_pages' = Cardinality(bitmap' \cap Ram')
  BY DEF Counted, Ram
<1> QED
  BY <1>6, <1>11, <1>12

TotalKept == total_pages = TotalPages(mbi)

LEMMA CountStep ==
  ASSUME MapFits(mbi), TypeOK, Kept, TotalKept, Counted, [Next]_vars
  PROVE  TotalKept' /\ Counted'
<1>0. Reserved \subseteq Ram
  BY DEF MapFits, TypeOK, TotalKept, Ram
<1>1. CASE pmm_init_entry
  <2>1. offset + 1 \in DOMAIN mbi.mmap
    BY <1>1, PMMAssumption DEF pmm_init_entry, TypeOK
  <2>2. EntryRange(mbi.mmap[offset + 1]) \subseteq Ram
    BY <1>1, <2>1 DEF pmm_init_entry, MapFits, TypeOK, TotalKept, Ram
  <2> QED
    BY <1>1, <2>2, ClearCount DEF pmm_init_entry, TotalKept
<1>2. CASE pmm_init_walked
  <2>1. CASE mbi.has_mmap
    BY <1>2, <2>1 DEF pmm_init_walked, TotalKept, Counted
  <2>2. CASE ~mbi.has_mmap
    <3>1. FreeRange(LowPages * PMM_PAGE_SIZE,
                    (total_pages - LowPages) * PMM_PAGE_SIZE) \subseteq Ram
      BY <2>2 DEF MapFits, TypeOK, TotalKept, Ram
    <3> QED
      BY <1>2, <2>2, <3>1, ClearCount DEF pmm_init_walked, TotalKept
  <2> QED
    BY <2>1, <2>2
<1>3. CASE pmm_init_reserve
  BY <1>0, <1>3, SetCount, ReservedFrames DEF pmm_init_reserve, TotalKept
<1>4. CASE pmm_alloc_page
  <2>1. CASE Scan(bitmap, total_pages) = NULL
    BY <1>4, <2>1 DEF pmm_alloc_page, TotalKept, Counted
  <2>2. CASE Scan(bitmap, total_pages) # NULL
    <3> DEFINE page == Scan(bitmap, total_pages)
    <3>1. page \in Frames \ bitmap /\ page < total_pages
      BY <2>2, ScanResult DEF TypeOK
    <3>2. SetBits({page}) /\ UNCHANGED <<mbi, total_pages>>
      BY <1>4, <2>2 DEF pmm_alloc_page
    <3> HIDE DEF page
    <3>3. {page} \subseteq Ram /\ {page} \in SUBSET Frames
      BY <3>1, PMMAssumption DEF Ram, Frames, TypeOK
    <3> QED
      BY <3>2, <3>3, SetCount DEF TotalKept
  <2> QED
    BY <2>1, <2>2
<1>5. ASSUME NEW frame \in Frames, pmm_free_page(frame) PROVE TotalKept' /\ Counted'
  <2>1. CASE frame < total_pages /\ frame \in bitmap
    <3>1. {frame} \subseteq Ram
      BY <2>1, PMMAssumption DEF Ram, Frames, TypeOK
    <3> QED
      BY <1>5, <2>1, <3>1, ClearCount DEF pmm_free_page, Freed, TotalKept
  <2>2. CASE ~(frame < total_pages /\ frame \in bitmap)
    BY <1>5, <2>2 DEF pmm_free_page, Freed, TotalKept, Counted
  <2> QED
    BY <2>1, <2>2
<1>6. CASE UNCHANGED vars
  BY <1>6 DEF vars, TotalKept, Counted
<1> QED
  BY <1>1, <1>2, <1>3, <1>4, <1>5, <1>6 DEF Next

LEMMA CountInit == Init => TotalKept /\ Counted
<1> SUFFICES ASSUME Init PROVE TotalKept /\ Counted
  OBVIOUS
<1>1. total_pages \in 0..PMM_PAGES_MAX
  BY TypeInit DEF TypeOK
<1>2. bitmap \cap Ram = Ram
  BY <1>1, PMMAssumption DEF Init, Frames, Ram
<1>3. Cardinality(Ram) = total_pages
  BY <1>1, FS_Interval, PMMAssumption DEF Ram
<1> QED
  BY <1>2, <1>3, Zenon DEF Init, TotalKept, Counted, Ram

LEMMA MapSame == [Next]_vars => UNCHANGED <<mbi, total_pages>>
  BY DEF Next, vars, pmm_init_entry, pmm_init_walked, pmm_init_reserve,
         pmm_alloc_page, pmm_free_page

\* used_pages is exact whenever the available RAM has no hole: what
\* pmm_get_free_pages reports is what pmm_alloc_page can hand out.
THEOREM CountExact == Spec => []UsedCount
<1>1. Init => TotalKept /\ UsedCount
  BY CountInit DEF UsedCount
<1>2. TypeOK /\ Kept /\ TotalKept /\ UsedCount /\ [Next]_vars => TotalKept' /\ UsedCount'
  <2> SUFFICES ASSUME TypeOK, Kept, TotalKept, UsedCount, [Next]_vars
               PROVE  TotalKept' /\ UsedCount'
    OBVIOUS
  <2>1. mbi' = mbi /\ total_pages' = total_pages
    BY MapSame
  <2>2. TotalKept'
    BY <2>1 DEF TotalKept
  <2>3. CASE MapFits(mbi)
    BY <2>2, <2>3, CountStep DEF UsedCount
  <2>4. CASE ~MapFits(mbi)
    <3>1. ~MapFits(mbi')
      BY <2>1, <2>4
    <3> QED
      BY <2>2, <3>1 DEF UsedCount
  <2> QED
    BY <2>3, <2>4
<1> QED
  BY <1>1, <1>2, TypeCorrect, KeptInit, KeptStep, PTL DEF Spec

-----------------------------------------------------------------------------
(* The scan.                                                               *)

\* Every frame has its bit in a word of the bitmap.
LEMMA WordOf ==
  ASSUME NEW f \in Frames
  PROVE  f \div WordBits \in Words /\ f \in FramesOf(f \div WordBits)
<1> DEFINE w == f \div WordBits
           n == PMM_PAGES_MAX \div WordBits
<1>1. f \in Nat /\ f < PMM_PAGES_MAX
  BY PMMAssumption DEF Frames
<1>2. w \in Nat /\ w * WordBits <= f /\ f < w * WordBits + WordBits
  BY <1>1, PMMAssumption
<1>3. n \in Nat /\ n * WordBits = PMM_PAGES_MAX
  BY PMMAssumption, WordsFill
<1> HIDE DEF w, n
<1>4. w < n
  <2> SUFFICES ASSUME n <= w PROVE FALSE
    BY <1>2, <1>3
  <2>1. n * WordBits <= w * WordBits
    BY <1>2, <1>3, PMMAssumption
  <2> QED
    BY <1>1, <1>2, <1>3, <2>1, PMMAssumption
<1>5. w * WordBits \in Nat
  BY <1>2, PMMAssumption
<1>6. f \in FramesOf(w)
  BY <1>1, <1>2, <1>5, PMMAssumption DEF FramesOf
<1>7. w \in Words
  BY <1>2, <1>3, <1>4 DEF Words, n
<1> QED
  BY <1>6, <1>7 DEF w

\* The frames of an earlier word come before those of a later one.
LEMMA WordOrder ==
  ASSUME NEW v \in Nat, NEW w \in Nat, v < w, NEW f \in FramesOf(v), NEW g \in FramesOf(w)
  PROVE  f < g /\ f \in Nat
<1>1. v * WordBits \in Nat /\ w * WordBits \in Nat
  BY PMMAssumption
<1>2. v * WordBits + WordBits <= w * WordBits
  <2>1. (w - v - 1) * WordBits \in Nat
    BY PMMAssumption
  <2>2. w * WordBits = v * WordBits + WordBits + (w - v - 1) * WordBits
    BY PMMAssumption
  <2> QED
    BY <1>1, <2>1, <2>2, PMMAssumption
<1> QED
  BY <1>1, <1>2, PMMAssumption DEF FramesOf

LEMMA ScanFinds ==
  ASSUME NEW b \in SUBSET Frames, NEW total \in 0..PMM_PAGES_MAX,
         NEW m \in Frames \ b, m < total,
         \A f \in Frames \ b : f < total => m <= f
  PROVE  Scan(b, total) = m
<1> DEFINE open == {w \in Words : ~(FramesOf(w) \subseteq b)}
           inner(w) == {f \in FramesOf(w) : f >= total \/ f \notin b}
           w0 == m \div WordBits
           w == Min(open)
           p == Min(inner(w))
<1>1. w0 \in open /\ m \in FramesOf(w0)
  BY WordOf
<1>2. open \subseteq Nat
  BY DEF Words
<1>3. w \in open /\ w <= w0
  BY <1>1, <1>2, MinIsMember
<1>4. w \in Nat /\ w0 \in Nat /\ w \in Words /\ w0 \in Words
  BY <1>1, <1>2, <1>3, Zenon
<1>5. \A f \in FramesOf(w) : f \in Nat
  <2>1. w * WordBits \in Nat
    <3> HIDE DEF w
    <3> QED  BY <1>4, PMMAssumption
  <2> QED
    BY <2>1 DEF FramesOf
<1>6. w = w0
  <2> SUFFICES ASSUME w < w0 PROVE FALSE
    <3> HIDE DEF w, w0
    <3> QED  BY <1>3, <1>4
  <2>1. PICK f \in FramesOf(w) : f \notin b
    BY <1>3, Zenon
  <2>2. f < m /\ f \in Nat
    <3> HIDE DEF w, w0
    <3> QED  BY <1>1, <1>4, WordOrder
  <2>3. m \in Nat /\ m < PMM_PAGES_MAX
    BY PMMAssumption DEF Frames
  <2>4. f \in Frames /\ f < total
    BY <2>2, <2>3, PMMAssumption DEF Frames
  <2> QED
    BY <2>1, <2>2, <2>3, <2>4
<1>7. m \in inner(w)
  BY <1>1, <1>6
<1>8. p \in inner(w) /\ p <= m
  <2>1. inner(w) \subseteq Nat
    BY <1>5
  <2> HIDE DEF inner, w
  <2> QED  BY <1>7, <2>1, MinIsMember
<1>9. Scan(b, total) = IF p >= total THEN NULL ELSE p
  BY <1>3 DEF Scan
<1>10. p \in Nat /\ (p >= total \/ p \notin b)
  BY <1>5, <1>8
<1>11. m \in Nat /\ m < PMM_PAGES_MAX /\ total \in Nat
  BY PMMAssumption DEF Frames
<1>12. p < total /\ p <= m
  <2> HIDE DEF p
  <2> QED  BY <1>8, <1>10, <1>11
<1>13. p \in Frames \ b
  <2> HIDE DEF p
  <2> QED  BY <1>10, <1>11, <1>12, PMMAssumption DEF Frames
<1>14. m <= p
  BY <1>12, <1>13
<1> HIDE DEF p
<1> QED
  BY <1>9, <1>10, <1>11, <1>12, <1>14

\* For every size of the RAM and of the bitmap's words, pmm_alloc_page's scan
\* misses no free frame of the RAM and takes the lowest.
THEOREM ScanMissesNothing == Spec => []ScanComplete
<1>1. TypeOK => ScanComplete
  <2> SUFFICES ASSUME TypeOK PROVE ScanComplete
    OBVIOUS
  <2> DEFINE free == 0..(total_pages - 1) \ bitmap
  <2>1. free \subseteq Nat /\ \A f : f \in free <=> f \in Frames \ bitmap /\ f < total_pages
    BY PMMAssumption DEF TypeOK, Frames
  <2>2. CASE free = {}
    <3>1. Scan(bitmap, total_pages) = NULL
      BY <2>1, <2>2, ScanResult DEF TypeOK
    <3> QED
      BY <2>2, <3>1 DEF ScanComplete
  <2>3. CASE free # {}
    <3>1. Min(free) \in free /\ \A f \in free : Min(free) <= f
      BY <2>1, <2>3, MinIsMember
    <3> DEFINE m == Min(free)
    <3>2. m \in Frames \ bitmap /\ m < total_pages
          /\ \A f \in Frames \ bitmap : f < total_pages => m <= f
      BY <2>1, <3>1
    <3> HIDE DEF m, free
    <3>3. Scan(bitmap, total_pages) = m
      BY <3>2, ScanFinds DEF TypeOK
    <3> QED
      BY <2>3, <3>3 DEF ScanComplete, m, free
  <2> QED
    BY <2>2, <2>3
<1> QED
  BY <1>1, TypeCorrect, PTL

-----------------------------------------------------------------------------
(* The memory map.                                                         *)

LEMMA DivTimes ==
  ASSUME NEW d \in Nat \ {0}, NEW a \in Nat, NEW q \in Nat
  PROVE  /\ q < a \div d => (q + 1) * d <= a
         /\ a % d = 0 /\ a \div d <= q => a <= q * d
<1> DEFINE n == a \div d
<1>1. n \in Nat /\ n * d <= a /\ (a % d = 0 => n * d = a)
  OBVIOUS
<1> HIDE DEF n
<1>2. ASSUME q < n PROVE (q + 1) * d <= a
  <2>1. (n - q - 1) * d \in Nat
    BY <1>1, <1>2
  <2>2. n * d = (q + 1) * d + (n - q - 1) * d
    BY <1>1
  <2> QED
    BY <1>1, <2>1, <2>2
<1>3. ASSUME a % d = 0, n <= q PROVE a <= q * d
  <2>1. (q - n) * d \in Nat
    BY <1>1, <1>3
  <2>2. q * d = n * d + (q - n) * d
    BY <1>1
  <2> QED
    BY <1>1, <1>3, <2>1, <2>2
<1> QED
  BY <1>2, <1>3 DEF n

\* What an entry frees lies inside it, if it starts on a page.
LEMMA EntryAvailable ==
  ASSUME NEW e \in mmap_entry, e.available => e.base_low % PMM_PAGE_SIZE = 0,
         NEW p \in EntryRange(e)
  PROVE  /\ e.available
         /\ e.base_high * AddrMod + e.base_low <= p * PMM_PAGE_SIZE
         /\ (p + 1) * PMM_PAGE_SIZE <= (e.base_high + e.length_high) * AddrMod
                                         + e.base_low + e.length_low
<1> DEFINE b == e.base_low
           x == e.base_low + e.length_low
<1>1. b \in Nat /\ x \in Nat /\ b < AddrMod
  BY PMMAssumption DEF mmap_entry
<1>2. e.available /\ e.base_high = 0 /\ p \in Nat
  <2>1. e.available \in BOOLEAN
    BY Zenon DEF mmap_entry
  <2>2. EntryRange(e) # {}
    OBVIOUS
  <2>3. e.available /\ e.base_high = 0
    BY <2>1, <2>2, Zenon DEF EntryRange
  <2>4. p \in Frames
    BY <2>1, Zenon DEF EntryRange, FreeRange
  <2>5. p \in Nat
    BY <2>4, PMMAssumption DEF Frames
  <2> QED
    BY <2>3, <2>5
<1>3. e.length_high = 0
  <2> SUFFICES ASSUME e.length_high # 0 PROVE FALSE
    OBVIOUS
  <2>1. p \in FreeRange(b, AddrMod - b)
    BY <1>2 DEF EntryRange
  <2>2. (b + (AddrMod - b)) % AddrMod = 0
    BY <1>1, PMMAssumption
  <2>3. 0 \div PMM_PAGE_SIZE = 0
    BY PMMAssumption
  <2> QED
    BY <1>2, <2>1, <2>2, <2>3 DEF FreeRange
<1>4. p \in FreeRange(e.base_low, e.length_low)
  BY <1>2, <1>3 DEF EntryRange
<1>5. b \div PMM_PAGE_SIZE <= p /\ p < (x % AddrMod) \div PMM_PAGE_SIZE
  BY <1>4 DEF FreeRange
<1>6. x % AddrMod \in Nat /\ x % AddrMod <= x
  <2> HIDE DEF x
  <2> QED  BY <1>1, PMMAssumption
<1>7. b % PMM_PAGE_SIZE = 0
  BY <1>2
<1> HIDE DEF b, x
<1>8. b <= p * PMM_PAGE_SIZE
  BY <1>1, <1>2, <1>5, <1>7, DivTimes, PMMAssumption
<1>9. (p + 1) * PMM_PAGE_SIZE <= x % AddrMod
  BY <1>2, <1>5, <1>6, DivTimes, PMMAssumption
<1>10. (p + 1) * PMM_PAGE_SIZE <= x
  <2>1. (p + 1) * PMM_PAGE_SIZE \in Nat
    BY <1>2, PMMAssumption
  <2> QED
    BY <1>1, <1>6, <1>9, <2>1
<1>11. 0 * AddrMod = 0 /\ (0 + 0) * AddrMod = 0
  BY PMMAssumption
<1>12. e.base_high * AddrMod + e.base_low = b /\ e.length_low \in Nat
       /\ (e.base_high + e.length_high) * AddrMod + e.base_low + e.length_low = x
  BY <1>1, <1>2, <1>3, <1>11 DEF b, x, mmap_entry
<1> QED
  BY <1>2, <1>8, <1>10, <1>12, Zenon

\* Whatever is free, held or has been given back was called available.
Offered == StartsAligned(mbi) => \A p \in (Frames \ bitmap) \cup held \cup given_back : Available(p)

LEMMA OfferedStep ==
  ASSUME TypeOK, Kept, Offered, [Next]_vars
  PROVE  Offered'
<1> SUFFICES ASSUME StartsAligned(mbi)',
                    NEW p \in ((Frames \ bitmap) \cup held \cup given_back)'
             PROVE  Available(p)'
  BY DEF Offered
<1>1. mbi' = mbi
  BY MapSame
<1>2. Available(p)' <=> Available(p)
  BY <1>1 DEF Available
<1>3. StartsAligned(mbi)
  BY <1>1 DEF StartsAligned
<1> SUFFICES ASSUME p \notin (Frames \ bitmap) \cup held \cup given_back
             PROVE  Available(p)
  BY <1>2, <1>3 DEF Offered
<1>4. CASE pmm_init_entry
  <2> DEFINE e == mbi.mmap[offset + 1]
  <2>1. mbi.mmap \in Seq(mmap_entry)
    BY MapsTyped DEF TypeOK
  <2>2. offset + 1 \in DOMAIN mbi.mmap /\ e \in mmap_entry /\ mbi.has_mmap
    BY <1>4, <2>1 DEF pmm_init_entry, TypeOK
  <2>3. p \in EntryRange(e)
    BY <1>4 DEF pmm_init_entry, ClearBits
  <2>4. e.available => e.base_low % PMM_PAGE_SIZE = 0
    BY <1>3, <2>2 DEF StartsAligned
  <2> QED
    BY <2>2, <2>3, <2>4, EntryAvailable, Zenon DEF Available
<1>5. CASE pmm_init_walked
  <2>1. ~mbi.has_mmap
    BY <1>5 DEF pmm_init_walked
  <2> QED
    BY <2>1 DEF Available
<1>6. CASE pmm_init_reserve
  BY <1>6 DEF pmm_init_reserve, SetBits
<1>7. CASE pmm_alloc_page
  <2>1. Scan(bitmap, total_pages) # NULL
    BY <1>7 DEF pmm_alloc_page
  <2>2. Scan(bitmap, total_pages) \in Frames \ bitmap
    BY <2>1, ScanResult DEF TypeOK
  <2> QED
    BY <1>7, <2>1, <2>2 DEF pmm_alloc_page, SetBits
<1>8. ASSUME NEW frame \in Frames, pmm_free_page(frame) PROVE Available(p)
  BY <1>8 DEF pmm_free_page, Freed, ClearBits
<1>9. CASE UNCHANGED vars
  BY <1>9 DEF vars
<1> QED
  BY <1>4, <1>5, <1>6, <1>7, <1>8, <1>9 DEF Next

\* For every memory map whose available regions start on a page, a frame is
\* handed out only if one of them holds all of it.
THEOREM HandedOutAvailable == Spec => []OnlyAvailable
<1>1. Init => Offered
  BY DEF Init, Offered
<1>2. Offered => OnlyAvailable
  BY DEF Offered, OnlyAvailable
<1> QED
  BY <1>1, <1>2, OfferedStep, TypeCorrect, KeptInit, KeptStep, PTL DEF Spec
=============================================================================
