SPECIFICATION Spec
CONSTANTS
  NFrames = 32
  Usable = {1, 2, 3, 4, 5, 6, 7, 8, 9, 10, 11, 12, 13, 14, 15, 16, 17, 18, 19, 20, 21, 22, 23, 24, 25, 26, 27, 28, 29, 30, 31}
  Held = {1, 5}
  TableSize = 27
  USER_CODE_BASE = 27
  USER_HEAP_START = 79
  USER_VGA = 80
  USER_STACK = 133
  HEAP_START = 135
  Programs = {p, q}
  CodePages = {1}
  KernelGrowth = {0}
  HeapGrowth = {1}
  MemoryLasts = FALSE
INVARIANT StoresReach
