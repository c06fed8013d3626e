CONSTANTS
  Paths <- MCPaths
  Root = "/"
  ParentOf <- MCParentOf
  MaxFiles = 5
  DataStart = 5
  Total = 11
  NewDirs = {"/b", "/d"}
  NewFiles = {"/a", "/d", "/d/x"}
  Sizes = {0, 2}
  MaxBoots = 2
  MaxCalls = 6
  NoPath = NoPath
SPECIFICATION Spec
INVARIANTS LayoutApart
CHECK_DEADLOCK FALSE
