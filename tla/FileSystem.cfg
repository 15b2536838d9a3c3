SPECIFICATION ImageSpec
CONSTANTS
  NBlocks = 3
  Names = {a, b}
  NSlots = 1
  MaxBlocks = 2
  Contents <- BlockContents
  Errors = 0
  PowerFails = TRUE
  BlockSize = 5
  InodeSize = 2
  InodeCount = 5
  InodeStart = 2
  Bytes <- FileBytes
  PathLength = 5
INVARIANTS ImageTypeOK BlocksExclusive OneNamePerInode PathsAgree
PROPERTIES InodesCounted Atomic
SYMMETRY Symmetry
