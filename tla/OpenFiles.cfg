SPECIFICATION Spec
CONSTANTS
  Names = {a, b}
  NFiles = 2
  NBlocks = 2
  BlockSize = 2
  MaxBlocks = 2
  NOpen = 2
  ReadSizes = {3}
  Texts <- Samples
  Absent = Absent
  Closed = Closed
INVARIANTS TypeOK FilesBacked
PROPERTIES ReadsSeeWrites
SYMMETRY Symmetry
