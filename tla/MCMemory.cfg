\* Memory maps without a hole, with one, one that crosses 4 GB, and two with
\* paging.  Pages above the RAM and, as the last call, one under the second identity
\* table are mapped.  A page fault halts the machine.
CONSTANTS
  PMM_PAGE_SIZE = 4
  PMM_PAGES_MAX = 10
  WordBits = 5
  LowPages = 2
  AddrMod = 64
  UIntMod = 64
  KernelStart = 9
  KernelEnd = 18
  HeapPages = 2
  Entries = 4
  kernel_dir = 2
  identity_pt0 = 3
  identity_pt1 = 4
  Junk <- MCJunk
  Mbis <- MCMbis
  PagedMaps <- MCPagedMaps
  UserPages = {7, 10, 12}
  UserFlags = {{"USER"}, {"WRITE"}}
  Touched = {10}
  MaxDirs = 2
  GoOn = FALSE
SPECIFICATION VMMSpec
CHECK_DEADLOCK FALSE
INVARIANTS HandedOutSafe OnlyAvailable ScanComplete
           IdentityKept TLBCoherent SharedOnlyKernel TablesHidden
           MeminfoTrue FiguresPrinted
PROPERTIES FreshFrame MapsAsAsked
