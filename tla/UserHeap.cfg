SPECIFICATION Spec
CHECK_DEADLOCK FALSE
CONSTANTS
  Header = 2
  Page = 8
  Word = 256
  MaxEnd = 21
  Requests = {1, 2, 3, 7}
INVARIANTS Tiling BlocksMapped RequestsEnd
PROPERTIES KeepsRegionsApart
