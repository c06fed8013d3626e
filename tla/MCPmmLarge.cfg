CONSTANTS
  MaxOrder = 4
  Size <- MCSize
  Base = 2
  Regions <- LargeMap
  Requests = {1, 2}
  Shell = Shell
  Irq = Irq
  None = None
SPECIFICATION Spec
INVARIANTS BlocksApart
CHECK_DEADLOCK FALSE
