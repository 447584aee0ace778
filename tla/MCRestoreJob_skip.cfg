SPECIFICATION Spec
CONSTANTS
  k1 = k1
  k2 = k2
  Jobs = {j1, j2}
  Keys = {k1}
  Requests <- MCSkip
  StubCalls <- MCOneCall
  StaleThreshold = 0
  TrashGuard = FALSE
  MaxProjects = 2
  MaxCrashes = 0
PROPERTY SkipLeavesExisting
CHECK_DEADLOCK FALSE
