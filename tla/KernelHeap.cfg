SPECIFICATION Spec
CONSTANTS
  Header = 2
  Page = 8
  MaxEnd = 24
  Requests = {1, 3, 7, 10}
INVARIANTS Tiling RequestsEnd
PROPERTIES KeepsRegionsApart
