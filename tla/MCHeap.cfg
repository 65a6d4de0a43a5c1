\* Room for three minimal blocks; requests of one word
\* and of two words.
CONSTANTS
  HeapStart = 20
  HeapWords = 15
  HEAP_MAGIC = 4242
  SizeMod = 1024
  Requests = {0, 3, 5}
  Data = {7}
SPECIFICATION FairSpec
INVARIANTS Tiled HeapUsedExact FreedRejected
PROPERTIES PayloadKept ImplementsAllocator SearchEnds
