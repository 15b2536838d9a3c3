SPECIFICATION HSpec
CONSTANTS
  MaxPid = 5
  TickMod = 4
  TimeSlice = 2
  BootWait = 1
  CodePages = 1
  SleepTicks = {0, 3}
  ReadSizes = {1}
  UninitSizes = {0}
  UninitPids = {0}
PROPERTIES BoundedOvertaking EveryReadyRuns SleeperWakes
