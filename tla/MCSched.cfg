CONSTANTS
  ProcMax = 3
  SliceHigh = 1
  SliceNormal = 2
  SliceLow = 3
  SleepTimes = {0, 1, 2}
  MaxPid = 7
  NoProc = NoProc
  Kernel = Kernel
SPECIFICATION Spec
INVARIANTS TypeOK  FreshSlice SleeperLeaves
PROPERTIES OnlyTheDeadAreFreed DeadLeave
