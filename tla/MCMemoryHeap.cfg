\* A boot module above the kernel: may the heap's frames be handed out?
CONSTANTS
  PMM_PAGE_SIZE = 4
  PMM_PAGES_MAX = 10
  WordBits = 5
  LowPages = 2
  AddrMod = 64
  UIntMod = 64
  KernelStart = 9
  KernelEnd = 18
  HeapPages = 2
  Entries = 4
  kernel_dir = 2
  identity_pt0 = 3
  identity_pt1 = 4
  Junk <- MCJunk
  Mbis <- ModuleMaps
  PagedMaps <- ModuleMaps
  UserPages = {10}
  UserFlags = {{"USER"}}
  Touched = {10}
  MaxDirs = 1
  GoOn = TRUE
SPECIFICATION VMMSpec
CHECK_DEADLOCK FALSE
INVARIANT HeapApart
