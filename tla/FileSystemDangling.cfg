SPECIFICATION ImageSpec
CONSTANTS
  NBlocks = 3
  Names = {a, b}
  NSlots = 1
  MaxBlocks = 2
  Contents <- BlockContents
  Errors = 1
  PowerFails = FALSE
  BlockSize = 5
  InodeSize = 2
  InodeCount = 5
  InodeStart = 2
  Bytes <- FileBytes
  PathLength = 4
SYMMETRY Symmetry
INVARIANT NoDanglingEntry
