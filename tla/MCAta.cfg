CONSTANTS
  Drives <- MCDrives
  Shell = Shell
  User = User
  MaxLba = 2
  Values <- MCValues
  MaxSectors = 2
  MaxCalls = 3
  MaxOpens = 1
  None = None
SPECIFICATION Spec
INVARIANTS TypeOK ReadIsTrue WriteIsFlushed InSync
PROPERTIES FailsOnlyBy CallReturns
CHECK_DEADLOCK FALSE
