SPECIFICATION Spec
CONSTANTS
  MaxPid = 4
  TickMod = 4
  TimeSlice = 2
  BootWait = 1
  CodePages = 2
  SleepTicks = {0}
  ReadSizes = {1}
  UninitSizes = {0}
  UninitPids = {0}
INVARIANT WaitsForLiveChild
