CONSTANTS
  Frames <- MCFrames
  Entries = 4
  BigTables <- MCBig
  UserTables <- MCUser
  Tables <- MCTables
  StackBase = 31
  StackPages = 1
  HeapBase = 28
  MmapBase = 27
  KernelHeap = 35
  Procs = {p1, p2}
  Kernel = Kernel
  Unit = 2
  Images <- MCImages
  MmapPages = {1}
  KernelRuns = {3}
  MallocSizes = {3}
  Fds = {3}
  MaxBrk = 62
  MaxKernelPages = 3
  MaxLost = 1
  None = None
  Big = Big
  Data = Data
SPECIFICATION Spec
SYMMETRY MCSymmetry
INVARIANTS TypeOK OneOwner
PROPERTIES   MallocIsMapped
CHECK_DEADLOCK FALSE
