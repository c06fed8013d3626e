CONSTANTS
  MaxOrder = 4
  Size <- MCSize
  Base = 4
  Regions <- SmallMap
  Requests = {1, 2, 3}
  Shell = Shell
  Irq = Irq
  None = None
SPECIFICATION Spec
INVARIANTS TypeOK    
PROPERTIES  CallReturns
CHECK_DEADLOCK FALSE
