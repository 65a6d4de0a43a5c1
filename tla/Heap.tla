-------------------------------- MODULE Heap --------------------------------
(***************************************************************************)
(* The kernel heap, kernel/mm/heap.c: a first-fit free list whose block    *)
(* headers live in the memory that is being handed out.  Memory is an      *)
(* array of 32-bit words; sizes and addresses are in words (the code's     *)
(* bytes divided by four: every size it stores is a multiple of four).     *)
(* A header is four words: magic, size, used, next.                        *)
(*                                                                         *)
(* kmalloc's search is one action per iteration of its while loop.         *)
(***************************************************************************)
EXTENDS Integers, FiniteSets, FiniteSetsExt

CONSTANTS
  HeapStart,    \* heap_start_addr
  HeapWords,    \* words from heap_start_addr to heap_end_addr
  HEAP_MAGIC,   \* 0xC0FFEE42
  SizeMod,      \* size_t counts bytes modulo this (2^32)
  Requests,     \* byte sizes callers pass to kmalloc and kzalloc
  Data          \* words callers store in their blocks

HDR_SIZE == 4
NULL == 0

HeapEnd == HeapStart + HeapWords
Arena == HeapStart..(HeapEnd - 1)

ASSUME HeapAssumption ==
  /\ HeapStart \in Nat \ {NULL}
  /\ HeapWords \in Nat
  /\ HeapWords > HDR_SIZE
  /\ HEAP_MAGIC \in Nat
  /\ SizeMod \in Nat \ {0}
  /\ Requests \subseteq Nat
  /\ Data \subseteq Nat

\* ALIGN4 does not wrap on these requests.
RequestsFit == Requests \subseteq 0..(SizeMod - 4)

VARIABLES
  mem,          \* the words of the heap
  heap_used,    \* heap_used
  want,         \* kmalloc's argument in bytes while it searches, 0 otherwise
  zero,         \* the search was started by kzalloc
  blk,          \* kmalloc's cursor
  chain,        \* auxiliary: the headers linked from heap_head
  freed         \* auxiliary: pointers freed since the last allocation

vars == <<mem, heap_used, want, zero, blk, chain, freed>>

-----------------------------------------------------------------------------
(* Header fields and arithmetic.                                           *)

Magic(b) == mem[b]
Size(b)  == mem[b + 1]
Used(b)  == mem[b + 2]
NextOf(b) == mem[b + 3]

\* ALIGN4, in words: the addition wraps like a size_t.
ALIGN4(n) == ((n + 3) % SizeMod) \div 4

\* Mutant: a used block fits too.
FitsUsed(b, size) == Size(b) >= size

Fits(b, size) == Used(b) = 0 /\ Size(b) >= size

Split(b, size) == Size(b) >= size + HDR_SIZE + 1

Live == {b \in chain : Used(b) # 0}

-----------------------------------------------------------------------------
(* heap_init: one free block spans the heap.  The rest of the RAM holds    *)
(* whatever it held before.                                                *)

heap_init(v) ==
  [a \in Arena |->
     CASE a = HeapStart     -> HEAP_MAGIC
       [] a = HeapStart + 1 -> HeapWords - HDR_SIZE
       [] a = HeapStart + 2 -> 0
       [] a = HeapStart + 3 -> NULL
       [] OTHER             -> v]

Init ==
  /\ \E v \in Data : mem = heap_init(v)
  /\ heap_used = 0
  /\ want = 0
  /\ zero = FALSE
  /\ blk = NULL
  /\ chain = {HeapStart}
  /\ freed = {}

-----------------------------------------------------------------------------
(* kmalloc(n), and kzalloc(n) when z.  A request for 0 bytes returns NULL  *)
(* at once and is no step here.                                            *)

kmalloc(n, z) ==
  /\ want = 0
  /\ n # 0
  /\ want' = n
  /\ zero' = z
  /\ blk' = HeapStart
  /\ UNCHANGED <<mem, heap_used, chain, freed>>

\* Mutant: a free block that is too small is not stepped over.
kmalloc_skipUsed ==
  /\ want # 0
  /\ blk # NULL
  /\ Magic(blk) = HEAP_MAGIC
  /\ ~Fits(blk, ALIGN4(want))
  /\ blk' = IF Used(blk) = 0 THEN blk ELSE NextOf(blk)
  /\ UNCHANGED <<mem, heap_used, want, zero, chain, freed>>

\* One iteration that rejects the block under the cursor and moves on.
kmalloc_skip ==
  /\ want # 0
  /\ blk # NULL
  /\ Magic(blk) = HEAP_MAGIC
  /\ ~Fits(blk, ALIGN4(want))
  /\ blk' = NextOf(blk)
  /\ UNCHANGED <<mem, heap_used, want, zero, chain, freed>>

\* The words after the block under the cursor has been taken for size words:
\* the remainder, if a header and one word fit in it, becomes a free block.
Carve(b, size) ==
  LET s == b + HDR_SIZE + size
  IN IF Split(b, size)
       THEN [mem EXCEPT ![s]     = HEAP_MAGIC,
                        ![s + 1] = Size(b) - size - HDR_SIZE,
                        ![s + 2] = 0,
                        ![s + 3] = NextOf(b),
                        ![b + 1] = size,
                        ![b + 2] = 1,
                        ![b + 3] = s]
       ELSE [mem EXCEPT ![b + 2] = 1]

\* kzalloc clears the bytes asked for; a word with a cleared byte reads as 0.
Zeroed(m, b, n) ==
  [a \in Arena |->
     IF b + HDR_SIZE <= a /\ a < b + HDR_SIZE + ((n + 3) \div 4) THEN 0 ELSE m[a]]

\* Mutant: heap_used grows by the size asked for, not by the block's.
kmalloc_takeRequested ==
  LET size == ALIGN4(want)
  IN /\ want # 0
     /\ blk # NULL
     /\ Magic(blk) = HEAP_MAGIC
     /\ Fits(blk, size)
     /\ mem' = IF zero THEN Zeroed(Carve(blk, size), blk, want) ELSE Carve(blk, size)
     /\ heap_used' = heap_used + size
     /\ chain' = IF Split(blk, size) THEN chain \cup {blk + HDR_SIZE + size} ELSE chain
     /\ want' = 0
     /\ zero' = FALSE
     /\ blk' = NULL
     /\ freed' = {}

\* The iteration that finds a block: split it, mark it used, return it.
kmalloc_take ==
  LET size == ALIGN4(want)
  IN /\ want # 0
     /\ blk # NULL
     /\ Magic(blk) = HEAP_MAGIC
     /\ Fits(blk, size)
     /\ mem' = IF zero THEN Zeroed(Carve(blk, size), blk, want) ELSE Carve(blk, size)
     /\ heap_used' = heap_used + (IF Split(blk, size) THEN size ELSE Size(blk))
     /\ chain' = IF Split(blk, size) THEN chain \cup {blk + HDR_SIZE + size} ELSE chain
     /\ want' = 0
     /\ zero' = FALSE
     /\ blk' = NULL
     /\ freed' = {}

\* The walk ends without a block: end of the list, or a header with bad magic.
kmalloc_fail ==
  /\ want # 0
  /\ IF blk = NULL THEN TRUE ELSE Magic(blk) # HEAP_MAGIC
  /\ want' = 0
  /\ zero' = FALSE
  /\ blk' = NULL
  /\ UNCHANGED <<mem, heap_used, chain, freed>>

-----------------------------------------------------------------------------
(* kfree(p): the checks on the header, then release and merge with the     *)
(* next block when that one is free too.                                   *)

\* Mutants: no check for a block that is free already; a merge with a used
\* block; a merge that keeps the old link.
AcceptedAgain(b) == Magic(b) = HEAP_MAGIC

MergesUsed(b) == NextOf(b) # NULL

Accepted(b) == Magic(b) = HEAP_MAGIC /\ Used(b) # 0

Merges(b) == NextOf(b) # NULL /\ Used(NextOf(b)) = 0

ReleasedKeepLink(b) ==
  IF Merges(b)
    THEN [mem EXCEPT ![b + 1] = Size(b) + HDR_SIZE + Size(NextOf(b)),
                     ![b + 2] = 0]
    ELSE [mem EXCEPT ![b + 2] = 0]

Released(b) ==
  IF Merges(b)
    THEN [mem EXCEPT ![b + 1] = Size(b) + HDR_SIZE + Size(NextOf(b)),
                     ![b + 2] = 0,
                     ![b + 3] = NextOf(NextOf(b))]
    ELSE [mem EXCEPT ![b + 2] = 0]

kfree(p) ==
  LET b == p - HDR_SIZE
  IN /\ want = 0
     /\ IF p # NULL /\ Accepted(b)
          THEN /\ mem' = Released(b)
               /\ heap_used' = heap_used - Size(b)
               /\ chain' = IF Merges(b) THEN chain \ {NextOf(b)} ELSE chain
               /\ freed' = freed \cup {p}
          ELSE UNCHANGED <<mem, heap_used, chain, freed>>
     /\ UNCHANGED <<want, zero, blk>>

\* A caller stores v in word a of its live block b.
Store(b, a, v) ==
  /\ a \in (b + HDR_SIZE)..(b + HDR_SIZE + Size(b) - 1)
  /\ mem' = [mem EXCEPT ![a] = v]
  /\ UNCHANGED <<heap_used, want, zero, blk, chain, freed>>

\* Callers free what they own, NULL, or, by mistake, what they have just freed.
FreeArgs == {NULL} \cup {b + HDR_SIZE : b \in Live} \cup freed

Next ==
  \/ \E n \in Requests, z \in BOOLEAN : kmalloc(n, z)
  \/ kmalloc_skip
  \/ kmalloc_take
  \/ kmalloc_fail
  \/ \E p \in FreeArgs : kfree(p)
  \/ \E b \in Live, a \in Arena, v \in Data : Store(b, a, v)

Spec == Init /\ [][Next]_vars

\* A call runs to its end: nothing preempts the kernel inside kmalloc for good.
FairSpec == Spec /\ WF_vars(kmalloc_skip \/ kmalloc_take \/ kmalloc_fail)

-----------------------------------------------------------------------------
(* Properties.                                                             *)

\* kmalloc's cursor is a linked header or NULL, and every header kmalloc writes
\* lies inside the heap.
TypeOK ==
  /\ mem \in [Arena -> Nat]
  /\ heap_used \in Int
  /\ want \in Requests \cup {0}
  /\ zero \in BOOLEAN
  /\ blk \in chain \cup {NULL}
  /\ chain \subseteq HeapStart..(HeapEnd - HDR_SIZE)
  /\ freed \subseteq (HeapStart + HDR_SIZE)..HeapEnd

\* The blocks linked from heap_head tile the heap: each header is intact, the
\* next pointer leads to the word after the block, the last block ends at
\* heap_end_addr, and no block reaches into another.  Splitting (kmalloc) and
\* merging (kfree) rewrite sizes and links in place and must keep all of this.
Tiled ==
  /\ HeapStart \in chain
  /\ \A b \in chain :
       /\ Magic(b) = HEAP_MAGIC
       /\ Used(b) \in {0, 1}
       /\ \/ /\ b + HDR_SIZE + Size(b) = HeapEnd
             /\ NextOf(b) = NULL
          \/ /\ b + HDR_SIZE + Size(b) \in chain
             /\ NextOf(b) = b + HDR_SIZE + Size(b)
  /\ \A b, c \in chain : b < c => b + HDR_SIZE + Size(b) <= c

\* heap_used is what kmalloc added and kfree subtracted: at every moment the
\* sum of the sizes of the used blocks, also when a block is not split.
HeapUsedExact ==
  heap_used = MapThenSumSet(LAMBDA b : Size(b), Live)

\* kfree's two checks reject every pointer that has been freed since the last
\* allocation, also when its header has meanwhile been merged into the block
\* before it and is no longer linked.
FreedRejected ==
  \A p \in freed : ~Accepted(p - HDR_SIZE)

\* First fit: while kmalloc searches, every block behind its cursor is used or
\* too small, and a search that has reached the end has seen every block.
FirstFit ==
  want # 0 =>
    \A c \in chain : (blk = NULL \/ c < blk) => ~Fits(c, ALIGN4(want))

\* No kmalloc, kzalloc or kfree writes into a block that a caller owns before
\* and after the call: only its owner's stores do.
PayloadKept ==
  [][ \A b \in Live :
        (b \in Live' /\ ~ \E a \in Arena, v \in Data : Store(b, a, v)) =>
           \A a \in (b + HDR_SIZE)..(b + HDR_SIZE + Size(b) - 1) : mem'[a] = mem[a] ]_vars

\* Every search ends: the list kmalloc walks has no cycle.
SearchEnds == want # 0 ~> want = 0

\* The free list implements the allocator heap.h describes.
Abstract == INSTANCE Allocator WITH
  live <- {<<b + HDR_SIZE, Size(b)>> : b \in Live},
  MaxWords <- HeapWords

ImplementsAllocator == Abstract!Spec
=============================================================================
