CONSTANTS
  ProcMax = 3
  SliceHigh = 1
  SliceNormal = 2
  SliceLow = 3
  SleepTimes = {0, 1, 2}
  MaxPid = 3
  NoProc = NoProc
  Kernel = Kernel
SPECIFICATION IrqSpec
PROPERTIES QueuedRuns
CHECK_DEADLOCK FALSE
