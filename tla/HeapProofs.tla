----------------------------- MODULE HeapProofs -----------------------------
(* Proofs about Heap, for every heap size, request set and data.           *)
EXTENDS Heap, TLAPS

\* Where a freed header still lies: wholly inside one free block.
FreedInFree ==
  \A p \in freed :
    /\ mem[p - 2] = 0
    /\ \E c \in chain : Used(c) = 0 /\ c <= p - HDR_SIZE /\ p <= c + HDR_SIZE + Size(c)

HeapInv == TypeOK /\ Tiled /\ (want = 0 => blk = NULL)

LEMMA AlignNat ==
  ASSUME NEW n \in Nat
  PROVE  ALIGN4(n) \in Nat
BY HeapAssumption DEF ALIGN4

LEMMA AlignCovers ==
  ASSUME RequestsFit, NEW n \in Requests
  PROVE  /\ ALIGN4(n) = (n + 3) \div 4
         /\ 4 * ALIGN4(n) >= n
<1>1. n \in Nat /\ n + 3 < SizeMod
  BY HeapAssumption DEF RequestsFit
<1>2. (n + 3) % SizeMod = n + 3
  BY <1>1, HeapAssumption
<1> QED BY <1>1, <1>2 DEF ALIGN4

LEMMA InitInv == Init => HeapInv
<1> SUFFICES ASSUME Init PROVE HeapInv
  OBVIOUS
<1>1. PICK v \in Data : mem = heap_init(v)
  BY DEF Init
<1>2. mem \in [Arena -> Nat]
  BY <1>1, HeapAssumption DEF heap_init, Arena, HeapEnd, HDR_SIZE, NULL
<1>3. /\ mem[HeapStart] = HEAP_MAGIC
      /\ mem[HeapStart + 1] = HeapWords - HDR_SIZE
      /\ mem[HeapStart + 2] = 0
      /\ mem[HeapStart + 3] = NULL
  BY <1>1, HeapAssumption, SMTT(30) DEF heap_init, Arena, HeapEnd, HDR_SIZE, NULL
<1>4. chain = {HeapStart} /\ freed = {} /\ heap_used = 0 /\ want = 0 /\ blk = NULL
  BY DEF Init
<1>5. zero \in BOOLEAN
  BY Zenon DEF Init
<1>6. TypeOK
  BY <1>2, <1>4, <1>5, HeapAssumption DEF TypeOK, HeapEnd, HDR_SIZE, NULL
<1>7. Tiled
  BY <1>3, <1>4, HeapAssumption
  DEF Tiled, Magic, Size, Used, NextOf, HeapEnd, HDR_SIZE, NULL
<1> QED BY <1>4, <1>6, <1>7 DEF HeapInv

\* Facts about one linked block that every action uses.
LEMMA BlockFacts ==
  ASSUME HeapInv, NEW b \in chain
  PROVE  /\ b \in Nat /\ b >= HeapStart /\ b # NULL
         /\ b \in Arena /\ b + 1 \in Arena /\ b + 2 \in Arena /\ b + 3 \in Arena
         /\ Size(b) \in Nat
         /\ b + HDR_SIZE + Size(b) <= HeapEnd
BY HeapAssumption
DEF HeapInv, TypeOK, Tiled, Magic, Size, Used, NextOf, HeapEnd, HDR_SIZE, NULL, Arena

\* The link of a block: the next block or, for the last one, NULL.
LEMMA LinkFacts ==
  ASSUME HeapInv, NEW b \in chain, NextOf(b) # NULL
  PROVE  /\ NextOf(b) \in chain
         /\ NextOf(b) = b + HDR_SIZE + Size(b)
BY DEF HeapInv, Tiled

LEMMA CallInv ==
  ASSUME HeapInv, NEW n \in Requests, NEW z \in BOOLEAN, kmalloc(n, z)
  PROVE  HeapInv'
<1>1. TypeOK'
  <2>1. zero' \in BOOLEAN
    BY DEF kmalloc
  <2> QED BY <2>1 DEF kmalloc, HeapInv, TypeOK, Tiled
<1>2. Tiled'
  BY DEF kmalloc, HeapInv, Tiled, Magic, Size, Used, NextOf
<1> QED BY <1>1, <1>2 DEF HeapInv, kmalloc

LEMMA SkipInv ==
  ASSUME HeapInv, kmalloc_skip
  PROVE  HeapInv'
<1>1. blk \in chain /\ (NextOf(blk) = NULL \/ NextOf(blk) \in chain)
  BY DEF kmalloc_skip, HeapInv, TypeOK, Tiled
<1>2. TypeOK'
  BY <1>1 DEF kmalloc_skip, HeapInv, TypeOK
<1>3. Tiled'
  BY DEF kmalloc_skip, HeapInv, Tiled, Magic, Size, Used, NextOf
<1> QED BY <1>2, <1>3 DEF HeapInv, kmalloc_skip

LEMMA FailInv ==
  ASSUME HeapInv, kmalloc_fail
  PROVE  HeapInv'
<1>1. TypeOK'
  <2>1. zero' \in BOOLEAN
    BY Zenon DEF kmalloc_fail
  <2> QED BY <2>1 DEF kmalloc_fail, HeapInv, TypeOK
<1>2. Tiled'
  BY DEF kmalloc_fail, HeapInv, Tiled, Magic, Size, Used, NextOf
<1> QED BY <1>1, <1>2 DEF HeapInv, kmalloc_fail

\* A store inside a live block misses every header.
LEMMA StoreInv ==
  ASSUME HeapInv, NEW b \in Live, NEW a \in Arena, NEW v \in Data, Store(b, a, v)
  PROVE  HeapInv'
<1>1. b \in chain
  BY DEF Live
<1>2. a \in Int /\ a >= b + HDR_SIZE /\ a < b + HDR_SIZE + Size(b)
  BY <1>1, BlockFacts DEF Store, HDR_SIZE, Arena
<1>3. mem' \in [Arena -> Nat] /\ \A x \in Arena : x # a => mem'[x] = mem[x]
  BY HeapAssumption DEF Store, HeapInv, TypeOK
<1>4. ASSUME NEW c \in chain
      PROVE  /\ mem'[c] = mem[c] /\ mem'[c + 1] = mem[c + 1]
             /\ mem'[c + 2] = mem[c + 2] /\ mem'[c + 3] = mem[c + 3]
  <2>1. a < c \/ a > c + 3
    <3>1. b < c => b + HDR_SIZE + Size(b) <= c
      BY <1>1 DEF HeapInv, Tiled
    <3>2. c < b => c + HDR_SIZE + Size(c) <= b
      BY <1>1 DEF HeapInv, Tiled
    <3> QED BY <1>1, <1>2, <3>1, <3>2, BlockFacts DEF HDR_SIZE
  <2> QED BY <2>1, <1>2, <1>3, BlockFacts
<1>5. TypeOK'
  BY <1>3 DEF Store, HeapInv, TypeOK
<1>6. Tiled'
  BY <1>4 DEF Store, HeapInv, Tiled, Magic, Size, Used, NextOf
<1> QED BY <1>5, <1>6 DEF HeapInv, Store

\* kfree accepts only linked used blocks among the pointers callers pass.
LEMMA AcceptedLive ==
  ASSUME HeapInv, FreedInFree, NEW p \in FreeArgs, p # NULL, Accepted(p - HDR_SIZE)
  PROVE  p - HDR_SIZE \in chain /\ Used(p - HDR_SIZE) = 1
<1>1. CASE p \in freed
  <2>1. p \in Int /\ mem[p - 2] = 0
    BY <1>1 DEF FreedInFree, HeapInv, TypeOK
  <2> QED BY <2>1 DEF Accepted, Used, HDR_SIZE
<1>2. CASE p \notin freed
  <2>1. PICK b \in Live : p = b + HDR_SIZE
    BY <1>2 DEF FreeArgs
  <2>2. b \in chain /\ Used(b) # 0
    BY DEF Live
  <2>3. p - HDR_SIZE = b
    BY <2>1, <2>2, BlockFacts DEF HDR_SIZE
  <2> QED BY <2>2, <2>3 DEF HeapInv, Tiled
<1> QED BY <1>1, <1>2

\* Releasing a used block, with or without the merge.
LEMMA ReleaseInv ==
  ASSUME HeapInv, NEW p \in Int, kfree(p), p # NULL, Accepted(p - HDR_SIZE),
         p - HDR_SIZE \in chain
  PROVE  HeapInv'
<1> DEFINE b == p - HDR_SIZE
           n == NextOf(b)
<1>1. /\ b \in chain
      /\ mem' = Released(b)
      /\ heap_used' = heap_used - Size(b)
      /\ chain' = IF Merges(b) THEN chain \ {n} ELSE chain
      /\ freed' = freed \cup {p}
      /\ UNCHANGED <<want, zero, blk>> /\ want = 0
  BY DEF kfree
<1>2. /\ b \in Nat /\ b \in Arena /\ b + 1 \in Arena /\ b + 2 \in Arena /\ b + 3 \in Arena
      /\ Size(b) \in Nat /\ b + HDR_SIZE + Size(b) <= HeapEnd
  BY <1>1, BlockFacts
<1>3. mem \in [Arena -> Nat] /\ p = b + HDR_SIZE
  BY DEF HeapInv, TypeOK, HDR_SIZE
<1>4. ASSUME NEW c \in chain, c # b
      PROVE  c + 3 < b \/ c > b + 3
  <2>1. (b < c => b + HDR_SIZE + Size(b) <= c) /\ (c < b => c + HDR_SIZE + Size(c) <= b)
    BY <1>1 DEF HeapInv, Tiled
  <2> QED BY <1>1, <1>2, <2>1, BlockFacts, <1>4 DEF HDR_SIZE
<1>5. CASE Merges(b)
  <2>1. /\ n \in chain /\ n = b + HDR_SIZE + Size(b) /\ Used(n) = 0
        /\ Size(n) \in Nat /\ n + HDR_SIZE + Size(n) <= HeapEnd
        /\ n + 3 \in Arena
    BY <1>1, <1>5, LinkFacts, BlockFacts DEF Merges
  <2>2. /\ mem' \in [Arena -> Nat]
        /\ mem'[b] = mem[b]
        /\ mem'[b + 1] = Size(b) + HDR_SIZE + Size(n)
        /\ mem'[b + 2] = 0
        /\ mem'[b + 3] = NextOf(n)
        /\ \A x \in Arena : x # b + 1 /\ x # b + 2 /\ x # b + 3 => mem'[x] = mem[x]
    BY <1>1, <1>2, <1>3, <1>5, <2>1 DEF Released, NextOf, HDR_SIZE
  <2>3. ASSUME NEW c \in chain, c # b
        PROVE  /\ mem'[c] = mem[c] /\ mem'[c + 1] = mem[c + 1]
               /\ mem'[c + 2] = mem[c + 2] /\ mem'[c + 3] = mem[c + 3]
    BY <1>2, <1>4, <2>2, <2>3, BlockFacts
  <2>4. TypeOK'
    <3>1. blk' = NULL
      BY <1>1 DEF HeapInv
    <3>2. heap_used' \in Int /\ freed' \subseteq (HeapStart + HDR_SIZE)..HeapEnd
      BY <1>1, <1>2, <1>3, BlockFacts, HeapAssumption DEF HeapInv, TypeOK, HDR_SIZE, HeapEnd
    <3> QED BY <1>1, <2>2, <3>1, <3>2, Zenon DEF HeapInv, TypeOK
  <2>5. Tiled'
    <3>1. chain' = chain \ {n} /\ n # b
      BY <1>1, <1>2, <1>5, <2>1 DEF HDR_SIZE
    <3>2. HeapStart \in chain'
      BY <1>2, <2>1, <3>1, BlockFacts, HeapAssumption DEF HeapInv, Tiled, HDR_SIZE
    <3>3. ASSUME NEW c \in chain'
          PROVE  /\ mem'[c] = HEAP_MAGIC /\ mem'[c + 2] \in {0, 1}
                 /\ \/ c + HDR_SIZE + mem'[c + 1] = HeapEnd /\ mem'[c + 3] = NULL
                    \/ /\ c + HDR_SIZE + mem'[c + 1] \in chain'
                       /\ mem'[c + 3] = c + HDR_SIZE + mem'[c + 1]
      <4>1. CASE c = b
        <5>1. n + HDR_SIZE + Size(n) = b + HDR_SIZE + mem'[b + 1]
          BY <1>2, <2>1, <2>2, BlockFacts DEF HDR_SIZE
        <5>2. n + HDR_SIZE + Size(n) # n
          BY <2>1, BlockFacts DEF HDR_SIZE
        <5> QED BY <1>1, <2>1, <2>2, <3>1, <4>1, <5>1, <5>2, Zenon
            DEF HeapInv, Tiled, Magic, Size, Used, NextOf
      <4>2. CASE c # b
        <5>1. c \in chain /\ c # n
          BY <3>1
        <5>2. c + HDR_SIZE + Size(c) # n
          <6>1. (b < c => b + HDR_SIZE + Size(b) <= c) /\ (c < b => c + HDR_SIZE + Size(c) <= b)
            BY <1>1, <5>1 DEF HeapInv, Tiled
          <6> QED BY <1>2, <2>1, <4>2, <5>1, <6>1, BlockFacts DEF HDR_SIZE
        <5> QED BY <2>3, <3>1, <4>2, <5>1, <5>2 DEF HeapInv, Tiled, Magic, Size, Used, NextOf
      <4> QED BY <4>1, <4>2
    <3>4. ASSUME NEW c \in chain', NEW d \in chain', c < d
          PROVE  c + HDR_SIZE + mem'[c + 1] <= d
      <4>1. c \in chain /\ d \in chain /\ c # n /\ d # n
        BY <3>1
      <4>2. c + HDR_SIZE + Size(c) <= d /\ (n < d => n + HDR_SIZE + Size(n) <= d)
        BY <2>1, <3>4, <4>1 DEF HeapInv, Tiled
      <4> QED BY <1>2, <2>1, <2>2, <2>3, <4>1, <4>2, BlockFacts DEF HDR_SIZE, Size
    <3> QED BY <3>2, <3>3, <3>4 DEF Tiled, Magic, Size, Used, NextOf
  <2> QED BY <1>1, <2>4, <2>5 DEF HeapInv
<1>6. CASE ~Merges(b)
  <2>1. /\ mem' \in [Arena -> Nat]
        /\ mem'[b + 2] = 0
        /\ \A x \in Arena : x # b + 2 => mem'[x] = mem[x]
    BY <1>1, <1>2, <1>3, <1>6 DEF Released
  <2>2. ASSUME NEW c \in chain
        PROVE  /\ mem'[c] = mem[c] /\ mem'[c + 1] = mem[c + 1]
               /\ mem'[c + 2] \in {0, 1} /\ mem'[c + 3] = mem[c + 3]
    BY <1>2, <1>4, <2>1, BlockFacts DEF HeapInv, Tiled, Used
  <2>3. TypeOK'
    <3>1. heap_used' \in Int /\ freed' \subseteq (HeapStart + HDR_SIZE)..HeapEnd
      BY <1>1, <1>2, <1>3, BlockFacts, HeapAssumption DEF HeapInv, TypeOK, HDR_SIZE, HeapEnd
    <3> QED BY <1>1, <1>6, <2>1, <3>1 DEF HeapInv, TypeOK
  <2>4. Tiled'
    BY <1>1, <1>6, <2>2 DEF HeapInv, Tiled, Magic, Size, Used, NextOf
  <2> QED BY <1>1, <2>3, <2>4 DEF HeapInv
<1> QED BY <1>5, <1>6

\* What kmalloc_take writes, outside the payload it hands out.
LEMMA TakeWrites ==
  ASSUME RequestsFit, HeapInv, kmalloc_take
  PROVE  /\ mem' \in [Arena -> Nat]
         /\ \A x \in Arena :
              x < blk + HDR_SIZE \/ x >= blk + HDR_SIZE + ALIGN4(want) =>
                mem'[x] = Carve(blk, ALIGN4(want))[x]
<1> DEFINE size == ALIGN4(want)
           m == Carve(blk, size)
<1>1. blk \in chain /\ want \in Requests /\ want \in Nat /\ size \in Nat
  BY AlignNat, HeapAssumption DEF kmalloc_take, HeapInv, TypeOK
<1>2. size = (want + 3) \div 4
  BY <1>1, AlignCovers
<1>3. /\ mem \in [Arena -> Nat] /\ Size(blk) \in Nat /\ NextOf(blk) \in Nat
      /\ blk \in Nat /\ blk + 3 \in Arena /\ blk + 2 \in Arena
  BY <1>1, BlockFacts DEF HeapInv, TypeOK, NextOf
<1>4. m \in [Arena -> Nat]
  <2>1. CASE Split(blk, size)
    BY <1>1, <1>3, <2>1, HeapAssumption DEF Carve, HDR_SIZE, Split
  <2>2. CASE ~Split(blk, size)
    BY <1>3, <2>2 DEF Carve
  <2> QED BY <2>1, <2>2
<1>5. mem' = IF zero THEN Zeroed(m, blk, want) ELSE m
  BY DEF kmalloc_take
<1>6. CASE zero
  <2>1. mem' = [a \in Arena |->
                  IF blk + HDR_SIZE <= a /\ a < blk + HDR_SIZE + size THEN 0 ELSE m[a]]
    BY <1>2, <1>5, <1>6 DEF Zeroed
  <2> HIDE DEF m
  <2>2. \A x \in Arena : x \in Int
    BY HeapAssumption DEF Arena
  <2> QED BY <1>1, <1>3, <1>4, <2>1, <2>2 DEF HDR_SIZE, m
<1>7. CASE ~zero
  BY <1>4, <1>5, <1>7
<1> QED BY <1>6, <1>7

LEMMA TakeInv ==
  ASSUME RequestsFit, HeapInv, kmalloc_take
  PROVE  HeapInv'
<1> DEFINE b == blk
           size == ALIGN4(want)
           s == b + HDR_SIZE + size
<1>1. /\ b \in chain /\ size \in Nat /\ Fits(b, size)
      /\ want' = 0 /\ blk' = NULL /\ freed' = {} /\ zero' = FALSE
      /\ chain' = IF Split(b, size) THEN chain \cup {s} ELSE chain
      /\ heap_used' \in Int
  <2>1. b \in chain /\ want \in Nat
    BY HeapAssumption DEF kmalloc_take, HeapInv, TypeOK
  <2>2. size \in Nat
    BY <2>1, AlignNat
  <2>3. heap_used' \in Int
    BY <2>1, <2>2, BlockFacts DEF kmalloc_take, HeapInv, TypeOK
  <2> QED BY <2>1, <2>2, <2>3 DEF kmalloc_take
<1>2. /\ b \in Nat /\ b \in Arena /\ b + 1 \in Arena /\ b + 2 \in Arena /\ b + 3 \in Arena
      /\ Size(b) \in Nat /\ b + HDR_SIZE + Size(b) <= HeapEnd
  BY <1>1, BlockFacts
<1>3. /\ mem \in [Arena -> Nat] /\ mem' \in [Arena -> Nat]
      /\ \A x \in Arena : x < b + HDR_SIZE \/ x >= s => mem'[x] = Carve(b, size)[x]
  BY TakeWrites DEF HeapInv, TypeOK
<1>4. ASSUME NEW c \in chain, c # b
      PROVE  c + 3 < b \/ c >= b + HDR_SIZE + Size(b)
  <2>1. (b < c => b + HDR_SIZE + Size(b) <= c) /\ (c < b => c + HDR_SIZE + Size(c) <= b)
    BY <1>1 DEF HeapInv, Tiled
  <2> QED BY <1>1, <1>2, <2>1, BlockFacts, <1>4 DEF HDR_SIZE
<1>5. TypeOK'
  <2>1. zero' \in BOOLEAN
    BY <1>1, Zenon
  <2>2. chain' \subseteq HeapStart..(HeapEnd - HDR_SIZE)
    <3>1. chain \subseteq HeapStart..(HeapEnd - HDR_SIZE) /\ HeapEnd \in Int /\ HeapStart \in Int
      BY HeapAssumption DEF HeapInv, TypeOK, HeapEnd
    <3>2. Split(b, size) => s \in HeapStart..(HeapEnd - HDR_SIZE)
      BY <1>1, <1>2, <3>1, BlockFacts DEF Split, HDR_SIZE
    <3> QED BY <1>1, <3>1, <3>2, Zenon
  <2> QED BY <1>1, <1>3, <2>1, <2>2 DEF TypeOK, HeapInv
<1>6. Tiled'
  <2>1. CASE Split(b, size)
    <3>1. /\ Size(b) >= size + HDR_SIZE + 1
          /\ s \in Arena /\ s + 1 \in Arena /\ s + 2 \in Arena /\ s + 3 \in Arena
      BY <1>1, <1>2, <2>1, HeapAssumption DEF Split, Arena, HDR_SIZE, HeapEnd
    <3>2. /\ mem'[b] = mem[b] /\ mem'[b + 1] = size /\ mem'[b + 2] = 1 /\ mem'[b + 3] = s
          /\ mem'[s] = HEAP_MAGIC /\ mem'[s + 1] = Size(b) - size - HDR_SIZE
          /\ mem'[s + 2] = 0 /\ mem'[s + 3] = NextOf(b)
      BY <1>1, <1>2, <1>3, <2>1, <3>1 DEF Carve, HDR_SIZE
    <3>3. ASSUME NEW c \in chain, c # b
          PROVE  /\ mem'[c] = mem[c] /\ mem'[c + 1] = mem[c + 1]
                 /\ mem'[c + 2] = mem[c + 2] /\ mem'[c + 3] = mem[c + 3]
                 /\ c # s
      <4>1. /\ c \in Int /\ c \in Arena /\ c + 1 \in Arena /\ c + 2 \in Arena /\ c + 3 \in Arena
        BY BlockFacts
      <4>2. c + 3 < b \/ c > s + 3
        BY <1>1, <1>2, <1>4, <3>1, <3>3, <4>1 DEF HDR_SIZE
      <4> QED BY <1>1, <1>2, <1>3, <2>1, <4>1, <4>2 DEF Carve, HDR_SIZE
    <3>4. chain' = chain \cup {s} /\ s # b /\ s \in Int
      BY <1>1, <1>2, <2>1 DEF HDR_SIZE
    <3>5. ASSUME NEW c \in chain'
          PROVE  /\ mem'[c] = HEAP_MAGIC /\ mem'[c + 2] \in {0, 1}
                 /\ \/ c + HDR_SIZE + mem'[c + 1] = HeapEnd /\ mem'[c + 3] = NULL
                    \/ /\ c + HDR_SIZE + mem'[c + 1] \in chain'
                       /\ mem'[c + 3] = c + HDR_SIZE + mem'[c + 1]
      <4>1. CASE c = b
        BY <1>1, <3>2, <3>4, <4>1 DEF HeapInv, Tiled, Magic
      <4>2. CASE c = s
        <5>1. s + HDR_SIZE + mem'[s + 1] = b + HDR_SIZE + Size(b)
          BY <1>1, <1>2, <3>1, <3>2 DEF HDR_SIZE
        <5> QED BY <1>1, <3>2, <3>4, <4>2, <5>1 DEF HeapInv, Tiled, NextOf
      <4>3. CASE c # b /\ c # s
        BY <3>3, <3>4, <4>3 DEF HeapInv, Tiled, Magic, Size, Used, NextOf
      <4> QED BY <4>1, <4>2, <4>3
    <3>6. ASSUME NEW c \in chain', NEW d \in chain', c < d
          PROVE  c + HDR_SIZE + mem'[c + 1] <= d
      <4>1. CASE c = b
        BY <1>1, <1>2, <1>4, <3>1, <3>2, <3>4, <3>6, <4>1, BlockFacts DEF HDR_SIZE
      <4>2. CASE c = s
        BY <1>1, <1>2, <1>4, <3>1, <3>2, <3>4, <3>6, <4>2, BlockFacts DEF HDR_SIZE
      <4>3. CASE c # b /\ c # s
        <5>1. c \in chain
          BY <3>4, <4>3
        <5>2. CASE d # s
          BY <3>3, <3>4, <3>6, <4>3, <5>1, <5>2 DEF HeapInv, Tiled, Size
        <5>3. CASE d = s
          <6>1. c < b
            BY <1>1, <1>2, <1>4, <3>1, <3>6, <4>3, <5>1, <5>3, BlockFacts DEF HDR_SIZE
          <6>2. c + HDR_SIZE + Size(c) <= b
            BY <1>1, <5>1, <6>1 DEF HeapInv, Tiled
          <6> QED BY <1>1, <1>2, <3>3, <4>3, <5>1, <5>3, <6>2, BlockFacts DEF HDR_SIZE, Size
        <5> QED BY <5>2, <5>3
      <4> QED BY <4>1, <4>2, <4>3
    <3>7. HeapStart \in chain'
      BY <3>4 DEF HeapInv, Tiled
    <3> QED BY <3>5, <3>6, <3>7 DEF Tiled, Magic, Size, Used, NextOf
  <2>2. CASE ~Split(b, size)
    <3>1. chain' = chain
      BY <1>1, <2>2
    <3>2. ASSUME NEW c \in chain
          PROVE  /\ mem'[c] = mem[c] /\ mem'[c + 1] = mem[c + 1]
                 /\ mem'[c + 2] \in {0, 1} /\ mem'[c + 3] = mem[c + 3]
      <4>1. /\ c \in Int /\ c \in Arena /\ c + 1 \in Arena /\ c + 2 \in Arena /\ c + 3 \in Arena
            /\ mem[c + 2] \in {0, 1}
        BY BlockFacts DEF HeapInv, Tiled, Used
      <4>2. size <= Size(b)
        BY <1>1, <1>2 DEF Fits
      <4>3. c = b \/ c + 3 < b \/ c >= s
        BY <1>1, <1>2, <1>4, <4>1, <4>2 DEF HDR_SIZE
      <4> QED BY <1>1, <1>2, <1>3, <2>2, <4>1, <4>3 DEF Carve, HDR_SIZE
    <3> QED BY <3>1, <3>2 DEF HeapInv, Tiled, Magic, Size, Used, NextOf
  <2> QED BY <2>1, <2>2
<1> QED BY <1>1, <1>5, <1>6 DEF HeapInv

-----------------------------------------------------------------------------
(* Frames: what each writing action leaves alone.                          *)

LEMMA Apart ==
  ASSUME HeapInv, NEW b \in chain, NEW c \in chain, b # c
  PROVE  b + HDR_SIZE + Size(b) <= c \/ c + HDR_SIZE + Size(c) <= b
BY BlockFacts DEF HeapInv, Tiled

LEMMA TakeFrame ==
  ASSUME RequestsFit, HeapInv, kmalloc_take
  PROVE  /\ blk \in chain /\ Used(blk) = 0
         /\ \A x \in Arena : x < blk \/ x >= blk + HDR_SIZE + Size(blk) => mem'[x] = mem[x]
         /\ mem'[blk + 2] = 1
         /\ mem'[blk + 1] >= ALIGN4(want) /\ mem'[blk + 1] <= Size(blk)
         /\ Live' = Live \cup {blk}
<1> DEFINE b == blk
           size == ALIGN4(want)
           s == b + HDR_SIZE + size
<1>1. /\ b \in chain /\ want \in Nat /\ Fits(b, size)
      /\ chain' = IF Split(b, size) THEN chain \cup {s} ELSE chain
  BY HeapAssumption DEF kmalloc_take, HeapInv, TypeOK
<1>2. size \in Nat
  BY <1>1, AlignNat
<1>3. /\ b \in Nat /\ b \in Arena /\ b + 1 \in Arena /\ b + 2 \in Arena /\ b + 3 \in Arena
      /\ Size(b) \in Nat /\ b + HDR_SIZE + Size(b) <= HeapEnd /\ size <= Size(b)
  BY <1>1, <1>2, BlockFacts DEF Fits
<1>4. /\ mem \in [Arena -> Nat]
      /\ \A x \in Arena : x < b + HDR_SIZE \/ x >= s => mem'[x] = Carve(b, size)[x]
  BY TakeWrites DEF HeapInv, TypeOK
<1>5. \A x \in Arena : x \in Int
  BY HeapAssumption DEF Arena
<1>6. CASE Split(b, size)
  <2>1. /\ Size(b) >= size + HDR_SIZE + 1
        /\ s \in Arena /\ s + 1 \in Arena /\ s + 2 \in Arena /\ s + 3 \in Arena
    BY <1>2, <1>3, <1>6, HeapAssumption DEF Split, Arena, HDR_SIZE, HeapEnd
  <2>2. /\ mem'[b + 1] = size /\ mem'[b + 2] = 1 /\ mem'[s + 2] = 0
        /\ \A x \in Arena : x < b \/ x >= b + HDR_SIZE + Size(b) => mem'[x] = mem[x]
    BY <1>2, <1>3, <1>4, <1>5, <1>6, <2>1 DEF Carve, HDR_SIZE
  <2>3. \A c \in chain : c # b => mem'[c + 2] = mem[c + 2]
    BY <1>1, <1>3, <2>2, BlockFacts, Apart DEF HDR_SIZE
  <2>4. Live' = Live \cup {b}
    BY <1>1, <1>6, <2>2, <2>3 DEF Live, Used
  <2> QED BY <1>1, <1>2, <1>3, <2>2, <2>4 DEF Fits
<1>7. CASE ~Split(b, size)
  <2>1. /\ mem'[b + 1] = Size(b) /\ mem'[b + 2] = 1
        /\ \A x \in Arena : x < b \/ x >= b + HDR_SIZE + Size(b) => mem'[x] = mem[x]
    BY <1>2, <1>3, <1>4, <1>5, <1>7 DEF Carve, HDR_SIZE, Size
  <2>2. \A c \in chain : c # b => mem'[c + 2] = mem[c + 2]
    BY <1>1, <1>3, <2>1, BlockFacts, Apart DEF HDR_SIZE
  <2>3. Live' = Live \cup {b}
    BY <1>1, <1>7, <2>1, <2>2 DEF Live, Used
  <2> QED BY <1>1, <1>2, <1>3, <2>1, <2>3 DEF Fits
<1> QED BY <1>6, <1>7

LEMMA ReleaseFrame ==
  ASSUME HeapInv, NEW p \in Int, kfree(p), p # NULL, Accepted(p - HDR_SIZE),
         p - HDR_SIZE \in chain
  PROVE  LET b == p - HDR_SIZE
         IN /\ \A x \in Arena : x # b + 1 /\ x # b + 2 /\ x # b + 3 => mem'[x] = mem[x]
            /\ mem'[b + 2] = 0
            /\ mem'[b + 1] = IF Merges(b) THEN Size(b) + HDR_SIZE + Size(NextOf(b)) ELSE Size(b)
            /\ Live' = Live \ {b}
<1> DEFINE b == p - HDR_SIZE
<1>1. /\ b \in chain /\ mem' = Released(b)
      /\ chain' = IF Merges(b) THEN chain \ {NextOf(b)} ELSE chain
  BY DEF kfree
<1>2. /\ b \in Nat /\ b + 1 \in Arena /\ b + 2 \in Arena /\ b + 3 \in Arena
      /\ mem \in [Arena -> Nat]
  BY <1>1, BlockFacts, Zenon DEF HeapInv, TypeOK
<1>3. /\ \A x \in Arena : x # b + 1 /\ x # b + 2 /\ x # b + 3 => mem'[x] = mem[x]
      /\ mem'[b + 2] = 0
      /\ mem'[b + 1] = IF Merges(b) THEN Size(b) + HDR_SIZE + Size(NextOf(b)) ELSE Size(b)
  <2>1. CASE Merges(b)
    BY <1>1, <1>2, <2>1 DEF Released
  <2>2. CASE ~Merges(b)
    BY <1>1, <1>2, <2>2 DEF Released, Size
  <2> QED BY <2>1, <2>2
<1>4. \A c \in chain : c # b => mem'[c + 2] = mem[c + 2]
  BY <1>1, <1>2, <1>3, BlockFacts, Apart DEF HDR_SIZE
<1>5. Live' = Live \ {b}
  <2>1. Merges(b) => NextOf(b) \notin Live
    BY DEF Merges, Live
  <2> QED BY <1>1, <1>3, <1>4, <2>1 DEF Live, Used
<1> QED BY <1>3, <1>5

\* Stores leave every header alone.
LEMMA StoreFrame ==
  ASSUME HeapInv, NEW b \in Live, NEW a \in Arena, NEW v \in Data, Store(b, a, v)
  PROVE  /\ b \in chain /\ a \in Int /\ a >= b + HDR_SIZE /\ a < b + HDR_SIZE + Size(b)
         /\ \A x \in Arena : x # a => mem'[x] = mem[x]
         /\ \A c \in chain : mem'[c + 1] = mem[c + 1] /\ mem'[c + 2] = mem[c + 2]
         /\ Live' = Live
<1>1. b \in chain
  BY DEF Live
<1>2. a \in Int /\ a >= b + HDR_SIZE /\ a < b + HDR_SIZE + Size(b)
  BY <1>1, BlockFacts DEF Store, HDR_SIZE, Arena
<1>3. \A x \in Arena : x # a => mem'[x] = mem[x]
  BY DEF Store, HeapInv, TypeOK
<1>4. \A c \in chain : mem'[c + 1] = mem[c + 1] /\ mem'[c + 2] = mem[c + 2]
  BY <1>1, <1>2, <1>3, BlockFacts, Apart DEF HDR_SIZE
<1> QED BY <1>1, <1>2, <1>3, <1>4 DEF Live, Used, Store

-----------------------------------------------------------------------------
(* The inductive invariant and its step.                                   *)

IInv == HeapInv /\ FreedInFree /\ FirstFit

LEMMA FreedStep ==
  ASSUME RequestsFit, HeapInv, FreedInFree, [Next]_vars
  PROVE  FreedInFree'
<1>1. ASSUME UNCHANGED <<mem, chain, freed>>
      PROVE  FreedInFree'
  BY <1>1 DEF FreedInFree, Used, Size
<1>2. CASE kmalloc_take
  BY <1>2 DEF kmalloc_take, FreedInFree
<1>3. ASSUME NEW p \in FreeArgs, kfree(p), p # NULL, Accepted(p - HDR_SIZE)
      PROVE  FreedInFree'
  <2> DEFINE b == p - HDR_SIZE
             n == NextOf(b)
  <2>1. b \in chain /\ Used(b) = 1
    BY <1>3, AcceptedLive
  <2>2. p \in Int /\ b \in Nat /\ p = b + HDR_SIZE /\ Size(b) \in Nat
    <3>1. p \in Int
      BY HeapAssumption, BlockFacts DEF FreeArgs, Live, HeapInv, TypeOK, NULL, HDR_SIZE
    <3> QED BY <2>1, <3>1, BlockFacts DEF HDR_SIZE
  <2>3. /\ \A x \in Arena : x # b + 1 /\ x # b + 2 /\ x # b + 3 => mem'[x] = mem[x]
        /\ mem'[b + 2] = 0
        /\ mem'[b + 1] = IF Merges(b) THEN Size(b) + HDR_SIZE + Size(n) ELSE Size(b)
    BY <1>3, <2>1, <2>2, ReleaseFrame
  <2>4. /\ chain' = IF Merges(b) THEN chain \ {n} ELSE chain
        /\ freed' = freed \cup {p}
    BY <1>3 DEF kfree
  <2>5. Merges(b) => /\ n \in chain /\ n = b + HDR_SIZE + Size(b) /\ Size(n) \in Nat
                     /\ n \in Nat
    BY <2>1, LinkFacts, BlockFacts DEF Merges
  <2>6. b \in chain' /\ mem'[b + 1] \in Nat /\ mem'[b + 1] >= Size(b)
    BY <2>1, <2>2, <2>3, <2>4, <2>5 DEF HDR_SIZE
  <2>7. ASSUME NEW q \in freed'
        PROVE  /\ mem'[q - 2] = 0
               /\ \E c \in chain' : /\ mem'[c + 2] = 0
                                    /\ c <= q - HDR_SIZE /\ q <= c + HDR_SIZE + mem'[c + 1]
    <3>1. CASE q = p
      BY <2>2, <2>3, <2>6, <3>1 DEF HDR_SIZE
    <3>2. CASE q \in freed
      <4>1. PICK c \in chain : Used(c) = 0 /\ c <= q - HDR_SIZE /\ q <= c + HDR_SIZE + Size(c)
        BY <3>2 DEF FreedInFree
      <4>2. /\ q \in Int /\ mem[q - 2] = 0 /\ c # b /\ c \in Nat /\ Size(c) \in Nat
            /\ c + 1 \in Arena /\ c + 2 \in Arena /\ c + HDR_SIZE + Size(c) <= HeapEnd
            /\ c >= HeapStart
        BY <2>1, <3>2, <4>1, BlockFacts DEF FreedInFree, HeapInv, TypeOK
      <4>3. b + HDR_SIZE + Size(b) <= c \/ c + HDR_SIZE + Size(c) <= b
        BY <2>1, <4>2, Apart, Zenon
      <4>4. q - 2 \in Arena
        BY <4>1, <4>2, HeapAssumption DEF Arena, HDR_SIZE, HeapEnd
      <4>5. /\ mem'[q - 2] = 0 /\ mem'[c + 1] = mem[c + 1] /\ mem'[c + 2] = mem[c + 2]
        BY <2>2, <2>3, <4>1, <4>2, <4>3, <4>4 DEF HDR_SIZE
      <4>6. CASE c \in chain'
        BY <4>1, <4>5, <4>6 DEF Used, Size
      <4>7. CASE c \notin chain'
        <5>1. Merges(b) /\ c = n
          BY <2>4, <4>7
        <5>2. b <= q - HDR_SIZE /\ q <= b + HDR_SIZE + mem'[b + 1]
          BY <2>2, <2>3, <2>5, <4>1, <4>2, <5>1 DEF HDR_SIZE
        <5> QED BY <2>3, <2>6, <4>5, <5>2
      <4> QED BY <4>6, <4>7
    <3> QED BY <2>4, <3>1, <3>2
  <2> QED BY <2>7 DEF FreedInFree, Used, Size
<1>4. ASSUME NEW b \in Live, NEW a \in Arena, NEW v \in Data, Store(b, a, v)
      PROVE  FreedInFree'
  <2>1. /\ b \in chain /\ a \in Int /\ a >= b + HDR_SIZE /\ a < b + HDR_SIZE + Size(b)
        /\ \A x \in Arena : x # a => mem'[x] = mem[x]
        /\ \A c \in chain : mem'[c + 1] = mem[c + 1] /\ mem'[c + 2] = mem[c + 2]
        /\ Used(b) # 0 /\ b \in Nat /\ Size(b) \in Nat
    BY <1>4, StoreFrame, BlockFacts DEF Live
  <2>2. chain' = chain /\ freed' = freed
    BY <1>4 DEF Store
  <2>3. ASSUME NEW q \in freed
        PROVE  /\ mem'[q - 2] = 0
               /\ \E c \in chain : /\ mem'[c + 2] = 0
                                   /\ c <= q - HDR_SIZE /\ q <= c + HDR_SIZE + mem'[c + 1]
    <3>1. PICK c \in chain : Used(c) = 0 /\ c <= q - HDR_SIZE /\ q <= c + HDR_SIZE + Size(c)
      BY DEF FreedInFree
    <3>2. /\ q \in Int /\ mem[q - 2] = 0 /\ c # b /\ c \in Nat /\ Size(c) \in Nat
          /\ c + HDR_SIZE + Size(c) <= HeapEnd /\ c >= HeapStart
      BY <2>1, <3>1, BlockFacts, SMTT(30) DEF FreedInFree, HeapInv, TypeOK
    <3>3. b + HDR_SIZE + Size(b) <= c \/ c + HDR_SIZE + Size(c) <= b
      BY <2>1, <3>2, Apart
    <3>4. q - 2 \in Arena
      BY <3>1, <3>2, HeapAssumption DEF Arena, HDR_SIZE, HeapEnd
    <3>5. mem'[q - 2] = 0
      BY <2>1, <3>1, <3>2, <3>3, <3>4 DEF HDR_SIZE
    <3> QED BY <2>1, <3>1, <3>5 DEF Used, Size
  <2> QED BY <2>2, <2>3 DEF FreedInFree, Used, Size
<1> QED BY <1>1, <1>2, <1>3, <1>4 DEF Next, vars, kmalloc, kmalloc_skip, kmalloc_fail, kfree

LEMMA HeapInvStep ==
  ASSUME RequestsFit, HeapInv, FreedInFree, [Next]_vars
  PROVE  HeapInv'
<1>1. CASE UNCHANGED vars
  BY <1>1 DEF vars, HeapInv, TypeOK, Tiled, Magic, Size, Used, NextOf
<1>2. ASSUME NEW p \in FreeArgs, kfree(p)
      PROVE  HeapInv'
  <2>1. p \in Int
    BY HeapAssumption, BlockFacts DEF FreeArgs, Live, HeapInv, TypeOK, NULL, HDR_SIZE
  <2>2. CASE p # NULL /\ Accepted(p - HDR_SIZE)
    BY <1>2, <2>1, <2>2, AcceptedLive, ReleaseInv
  <2>3. CASE ~(p # NULL /\ Accepted(p - HDR_SIZE))
    <3>1. UNCHANGED vars
      BY <1>2, <2>3 DEF kfree, vars
    <3> QED BY <3>1 DEF vars, HeapInv, TypeOK, Tiled, Magic, Size, Used, NextOf
  <2> QED BY <2>2, <2>3
<1> QED BY <1>1, <1>2, CallInv, SkipInv, TakeInv, FailInv, StoreInv DEF Next

LEMMA FirstFitStep ==
  ASSUME RequestsFit, HeapInv, FirstFit, [Next]_vars
  PROVE  FirstFit'
<1>1. CASE UNCHANGED vars
  BY <1>1 DEF vars, FirstFit, Fits, Used, Size
<1>2. ASSUME NEW n \in Requests, NEW z \in BOOLEAN, kmalloc(n, z)
      PROVE  FirstFit'
  BY <1>2, BlockFacts, HeapAssumption DEF kmalloc, FirstFit
<1>3. CASE kmalloc_skip
  <2>1. /\ blk \in chain /\ ~Fits(blk, ALIGN4(want)) /\ want # 0
        /\ blk' = NextOf(blk) /\ UNCHANGED <<mem, want, chain>>
    BY <1>3 DEF kmalloc_skip, HeapInv, TypeOK
  <2>2. ASSUME NEW c \in chain, blk' = NULL \/ c < blk'
        PROVE  c <= blk
    <3>1. blk < c => blk + HDR_SIZE + Size(blk) <= c
      BY <2>1 DEF HeapInv, Tiled
    <3>2. c < HeapEnd
      BY BlockFacts, HeapAssumption DEF HDR_SIZE, HeapEnd
    <3>3. \/ blk + HDR_SIZE + Size(blk) = HeapEnd
          \/ blk' # NULL /\ blk' = blk + HDR_SIZE + Size(blk)
      BY <2>1, BlockFacts DEF HeapInv, Tiled
    <3> QED BY <2>1, <2>2, <3>1, <3>2, <3>3, BlockFacts, HeapAssumption DEF HeapEnd, HDR_SIZE
  <2>3. ASSUME NEW c \in chain, blk' = NULL \/ c < blk'
        PROVE  ~Fits(c, ALIGN4(want))
    BY <2>1, <2>2, <2>3, BlockFacts DEF FirstFit
  <2> QED BY <2>1, <2>3 DEF FirstFit, Fits, Used, Size, ALIGN4
<1>4. CASE kmalloc_take \/ kmalloc_fail
  BY <1>4 DEF kmalloc_take, kmalloc_fail, FirstFit
<1>5. ASSUME NEW p \in FreeArgs, kfree(p)
      PROVE  FirstFit'
  BY <1>5 DEF kfree, FirstFit
<1>6. ASSUME NEW b \in Live, NEW a \in Arena, NEW v \in Data, Store(b, a, v)
      PROVE  FirstFit'
  <2>1. \A c \in chain : mem'[c + 1] = mem[c + 1] /\ mem'[c + 2] = mem[c + 2]
    BY <1>6, StoreFrame
  <2> QED BY <1>6, <2>1 DEF Store, FirstFit, Fits, Used, Size, ALIGN4
<1> QED BY <1>1, <1>2, <1>3, <1>4, <1>5, <1>6 DEF Next

LEMMA Invariance ==
  ASSUME RequestsFit
  PROVE  Spec => []IInv
<1>1. Init => IInv
  BY InitInv DEF Init, IInv, FreedInFree, FirstFit
<1>2. IInv /\ [Next]_vars => IInv'
  BY HeapInvStep, FreedStep, FirstFitStep DEF IInv
<1> QED BY <1>1, <1>2, PTL DEF Spec

-----------------------------------------------------------------------------
(* The theorems.                                                           *)

\* The words, the cursor and the headers of kernel/mm/heap.c stay in range.
THEOREM TypeCorrect ==
  ASSUME RequestsFit
  PROVE  Spec => []TypeOK
<1>1. IInv => TypeOK
  BY DEF IInv, HeapInv
<1> QED BY <1>1, Invariance, PTL

\* However kmalloc splits and kfree merges, the linked blocks tile the heap.
THEOREM HeapTiled ==
  ASSUME RequestsFit
  PROVE  Spec => []Tiled
<1>1. IInv => Tiled
  BY DEF IInv, HeapInv
<1> QED BY <1>1, Invariance, PTL

\* kfree rejects a pointer freed twice with no allocation in between.
THEOREM DoubleFreeRejected ==
  ASSUME RequestsFit
  PROVE  Spec => []FreedRejected
<1>1. IInv => FreedRejected
  BY DEF IInv, HeapInv, TypeOK, FreedInFree, FreedRejected, Accepted, Used, HDR_SIZE
<1> QED BY <1>1, Invariance, PTL

\* kmalloc's search passes over no block that would do.
THEOREM SearchIsFirstFit ==
  ASSUME RequestsFit
  PROVE  Spec => []FirstFit
<1>1. IInv => FirstFit
  BY DEF IInv
<1> QED BY <1>1, Invariance, PTL

\* Splitting, zeroing and merging write nothing into a block a caller owns.
THEOREM PayloadSafe ==
  ASSUME RequestsFit
  PROVE  Spec => PayloadKept
<1> DEFINE Untouched(b) ==
             (b \in Live' /\ ~ \E a \in Arena, v \in Data : Store(b, a, v)) =>
               \A a \in (b + HDR_SIZE)..(b + HDR_SIZE + Size(b) - 1) : mem'[a] = mem[a]
<1>1. ASSUME IInv, Next, NEW b \in Live
      PROVE  Untouched(b)
  <2> SUFFICES ASSUME b \in Live', ~ \E a \in Arena, v \in Data : Store(b, a, v),
                      NEW a \in (b + HDR_SIZE)..(b + HDR_SIZE + Size(b) - 1)
               PROVE  mem'[a] = mem[a]
    OBVIOUS
  <2>1. HeapInv /\ FreedInFree /\ b \in chain /\ Used(b) # 0
    BY <1>1 DEF IInv, Live
  <2>2. /\ b \in Nat /\ b >= HeapStart /\ Size(b) \in Nat /\ b + HDR_SIZE + Size(b) <= HeapEnd
        /\ a \in Int /\ a >= b + HDR_SIZE /\ a < b + HDR_SIZE + Size(b)
    BY <2>1, BlockFacts DEF HDR_SIZE
  <2>3. a \in Arena
    BY <2>2, HeapAssumption DEF Arena, HDR_SIZE, HeapEnd
  <2>4. CASE kmalloc_take
    <3>1. /\ blk \in chain /\ Used(blk) = 0
          /\ \A x \in Arena : x < blk \/ x >= blk + HDR_SIZE + Size(blk) => mem'[x] = mem[x]
      BY <2>1, <2>4, TakeFrame
    <3>2. b + HDR_SIZE + Size(b) <= blk \/ blk + HDR_SIZE + Size(blk) <= b
      BY <2>1, <3>1, Apart
    <3> QED BY <2>1, <2>2, <2>3, <3>1, <3>2, BlockFacts DEF HDR_SIZE
  <2>5. ASSUME NEW p \in FreeArgs, kfree(p), p # NULL, Accepted(p - HDR_SIZE)
        PROVE  mem'[a] = mem[a]
    <3> DEFINE c == p - HDR_SIZE
    <3>1. p \in Int
      BY <2>1, HeapAssumption, BlockFacts DEF FreeArgs, Live, HeapInv, TypeOK, NULL, HDR_SIZE
    <3>2. c \in chain
      BY <2>1, <2>5, AcceptedLive
    <3>3. /\ \A x \in Arena : x # c + 1 /\ x # c + 2 /\ x # c + 3 => mem'[x] = mem[x]
          /\ Live' = Live \ {c}
      BY <2>1, <2>5, <3>1, <3>2, ReleaseFrame
    <3>4. b + HDR_SIZE + Size(b) <= c \/ c + HDR_SIZE + Size(c) <= b
      BY <2>1, <3>2, <3>3, Apart
    <3>5. c \in Nat /\ Size(c) \in Nat
      BY <2>1, <3>2, BlockFacts
    <3> QED BY <2>2, <2>3, <3>3, <3>4, <3>5 DEF HDR_SIZE
  <2>6. ASSUME NEW c \in Live, NEW x \in Arena, NEW v \in Data, Store(c, x, v)
        PROVE  mem'[a] = mem[a]
    <3>1. /\ c \in chain /\ x \in Int /\ x >= c + HDR_SIZE /\ x < c + HDR_SIZE + Size(c)
          /\ \A y \in Arena : y # x => mem'[y] = mem[y]
      BY <2>1, <2>6, StoreFrame
    <3>2. c # b
      BY <2>6
    <3>3. b + HDR_SIZE + Size(b) <= c \/ c + HDR_SIZE + Size(c) <= b
      BY <2>1, <3>1, <3>2, Apart
    <3> QED BY <2>1, <2>2, <2>3, <3>1, <3>3, BlockFacts, SMTT(30) DEF HDR_SIZE
  <2>7. CASE UNCHANGED mem
    BY <2>7
  <2> QED BY <1>1, <2>4, <2>5, <2>6, <2>7 DEF Next, kmalloc, kmalloc_skip, kmalloc_fail, kfree
<1>2. IInv /\ [Next]_vars => [\A b \in Live : Untouched(b)]_vars
  BY <1>1
<1> QED BY <1>2, Invariance, PTL DEF Spec, PayloadKept

\* Heap implements Allocator: kmalloc's search grants one region that nobody
\* owns or refuses, and kfree gives back exactly the region it is passed.
THEOREM Refinement ==
  ASSUME RequestsFit
  PROVE  Spec => ImplementsAllocator
<1> DEFINE Region(b) == <<b + HDR_SIZE, Size(b)>>
           regions == {<<b + HDR_SIZE, Size(b)>> : b \in Live}
<1>1. Init => Abstract!Init
  <2> SUFFICES ASSUME Init PROVE Live = {} /\ want = 0
    BY DEF Abstract!Init
  <2>1. PICK v \in Data : mem = heap_init(v)
    BY DEF Init
  <2>2. mem[HeapStart + 2] = 0
    BY <2>1, HeapAssumption DEF heap_init, Arena, HeapEnd, HDR_SIZE, NULL
  <2> QED BY <2>2 DEF Init, Live, Used
<1>2. ASSUME IInv, Next
      PROVE  Abstract!Next \/ UNCHANGED Abstract!vars
  <2>0. HeapInv /\ FreedInFree
    BY <1>2 DEF IInv
  <2>1. ASSUME NEW n \in Requests, NEW z \in BOOLEAN, kmalloc(n, z)
        PROVE  Abstract!Call(n)
    <3>1. regions' = regions
      BY <2>1 DEF kmalloc, Live, Used, Size
    <3> QED BY <2>1, <3>1 DEF kmalloc, Abstract!Call
  <2>2. CASE kmalloc_skip
    BY <2>2 DEF kmalloc_skip, Live, Used, Size, Abstract!vars
  <2>3. CASE kmalloc_take
    <3> DEFINE r == <<blk + HDR_SIZE, mem'[blk + 1]>>
    <3>1. /\ blk \in chain /\ Used(blk) = 0
          /\ \A x \in Arena : x < blk \/ x >= blk + HDR_SIZE + Size(blk) => mem'[x] = mem[x]
          /\ mem'[blk + 1] >= ALIGN4(want) /\ mem'[blk + 1] <= Size(blk)
          /\ Live' = Live \cup {blk}
      BY <2>0, <2>3, TakeFrame
    <3>2. want \in Requests /\ want \in Nat /\ want # 0 /\ want' = 0
      BY <2>0, <2>3, HeapAssumption DEF HeapInv, TypeOK, kmalloc_take
    <3>3. 4 * ALIGN4(want) >= want /\ ALIGN4(want) \in Nat
      BY <3>2, AlignCovers, AlignNat
    <3>4. /\ blk \in Nat /\ Size(blk) \in Nat /\ blk + HDR_SIZE + Size(blk) <= HeapEnd
          /\ blk >= HeapStart /\ blk + 1 \in Arena
          /\ mem'[blk + 1] \in Nat
      BY <2>0, <2>3, <3>1, BlockFacts, TakeWrites
    <3>5. \A c \in Live : /\ c \in chain /\ c # blk /\ mem'[c + 1] = mem[c + 1]
      BY <2>0, <3>1, <3>4, BlockFacts, Apart DEF Live, HDR_SIZE
    <3>6. regions' = regions \cup {r}
      BY <3>1, <3>5 DEF Size
    <3>7. r \in Arena \X (0..HeapWords)
      BY <3>1, <3>2, <3>3, <3>4, HeapAssumption DEF Arena, HDR_SIZE, HeapEnd
    <3>8. Abstract!Words(r) \subseteq Arena
      BY <3>1, <3>4, HeapAssumption DEF Abstract!Words, Arena, HDR_SIZE, HeapEnd
    <3>9. ASSUME NEW q \in regions
          PROVE  Abstract!Words(q) \cap Abstract!Words(r) = {} /\ q[1] # r[1]
      <4>1. PICK c \in Live : q = <<c + HDR_SIZE, Size(c)>>
        OBVIOUS
      <4>2. c \in chain /\ c # blk /\ c \in Nat /\ Size(c) \in Nat
        BY <2>0, <3>5, BlockFacts
      <4>3. blk + HDR_SIZE + Size(blk) <= c \/ c + HDR_SIZE + Size(c) <= blk
        BY <2>0, <3>1, <4>2, Apart
      <4> QED BY <3>1, <3>4, <4>1, <4>2, <4>3, SMTT(30) DEF Abstract!Words, HDR_SIZE
    <3>10. 4 * r[2] >= want
      BY <3>1, <3>2, <3>3, <3>4
    <3>11. \E q \in Arena \X (0..HeapWords) : Abstract!Grant(q)
      <4> HIDE DEF r
      <4> QED BY <3>2, <3>6, <3>7, <3>8, <3>9, <3>10 DEF Abstract!Grant
    <3> QED BY <3>11 DEF Abstract!Next
  <2>4. CASE kmalloc_fail
    BY <2>4 DEF kmalloc_fail, Live, Used, Size, Abstract!Refuse, Abstract!Next
  <2>5. ASSUME NEW p \in FreeArgs, kfree(p)
        PROVE  Abstract!Next \/ UNCHANGED Abstract!vars
    <3> DEFINE c == p - HDR_SIZE
    <3>1. CASE p # NULL /\ Accepted(c)
      <4>1. p \in Int
        BY <2>0, HeapAssumption, BlockFacts DEF FreeArgs, Live, HeapInv, TypeOK, NULL, HDR_SIZE
      <4>2. c \in chain /\ Used(c) = 1 /\ c \in Nat
        BY <2>0, <2>5, <3>1, AcceptedLive, BlockFacts
      <4>3. /\ \A x \in Arena : x # c + 1 /\ x # c + 2 /\ x # c + 3 => mem'[x] = mem[x]
            /\ Live' = Live \ {c}
        BY <2>0, <2>5, <3>1, <4>1, <4>2, ReleaseFrame
      <4>4. \A d \in Live : d # c => mem'[d + 1] = mem[d + 1]
        BY <2>0, <4>2, <4>3, BlockFacts, Apart, SMTT(30) DEF Live, HDR_SIZE
      <4>5. c \in Live
        BY <4>2 DEF Live
      <4>6. \A d \in Live : d \in Nat
        BY <2>0, BlockFacts DEF Live
      <4>7. regions' = regions \ {Region(c)}
        BY <4>2, <4>3, <4>4, <4>5, <4>6 DEF HDR_SIZE, Size
      <4>8. want = 0 /\ want' = want
        BY <2>5 DEF kfree
      <4> QED BY <4>5, <4>7, <4>8, Zenon DEF Abstract!Free, Abstract!Next
    <3>2. CASE ~(p # NULL /\ Accepted(c))
      BY <2>5, <3>2 DEF kfree, Live, Used, Size, Abstract!vars
    <3> QED BY <3>1, <3>2
  <2>6. ASSUME NEW b \in Live, NEW a \in Arena, NEW v \in Data, Store(b, a, v)
        PROVE  UNCHANGED Abstract!vars
    <3>1. /\ \A c \in chain : mem'[c + 1] = mem[c + 1]
          /\ Live' = Live /\ Live \subseteq chain
      BY <2>0, <2>6, StoreFrame DEF Live
    <3>2. regions' = regions
      BY <3>1 DEF Size
    <3> QED BY <2>6, <3>2 DEF Store, Abstract!vars
  <2> QED BY <1>2, <2>1, <2>2, <2>3, <2>4, <2>5, <2>6 DEF Next, Abstract!Next
<1>3. UNCHANGED vars => UNCHANGED Abstract!vars
  BY DEF vars, Abstract!vars, Live, Used, Size
<1>4. IInv /\ [Next]_vars => [Abstract!Next]_Abstract!vars
  BY <1>2, <1>3
<1> QED BY <1>1, <1>4, Invariance, PTL DEF Spec, ImplementsAllocator, Abstract!Spec

=============================================================================
