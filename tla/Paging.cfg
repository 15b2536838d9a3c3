SPECIFICATION Spec
CONSTANTS
  NFrames = 29
  Usable = {1, 2, 3, 4, 5, 6, 7, 8, 9, 10, 11, 12, 13, 14, 15, 16, 17, 18, 19, 20, 21, 22, 23, 24, 25, 26, 27, 28}
  Held = {1, 5}
  TableSize = 29
  USER_CODE_BASE = 29
  USER_HEAP_START = 85
  USER_VGA = 86
  USER_STACK = 143
  HEAP_START = 145
  Programs = {p, q}
  CodePages = {0, 2}
  KernelGrowth = {0, 1}
  HeapGrowth = {2}
  MemoryLasts = TRUE
INVARIANTS TypeOK Isolated KernelInEverySpace TablesReachable TlbCurrent HeapMapped StoresReach
PROPERTIES MappingsStay
