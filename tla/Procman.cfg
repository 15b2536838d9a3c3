SPECIFICATION Spec
CONSTANTS
  MaxPid = 5
  TickMod = 4
  TimeSlice = 2
  BootWait = 1
  CodePages = 2
  SleepTicks = {0, 2, 3}
  ReadSizes = {0, 2}
  UninitSizes = {0}
  UninitPids = {0, 4}
INVARIANTS TypeOK OneRunning NoSpin Cr3MatchesCurrent Esp0MatchesCurrent ParentWaits ReadBufferBounds
PROPERTIES StackNotReused
