SPECIFICATION Spec
CONSTANTS
  k1 = k1
  k2 = k2
  Jobs = {j1}
  Keys = {k1, k2}
  Requests <- MCRequests
  StubCalls <- MCStubCalls
  StaleThreshold = 1
  TrashGuard = FALSE
  MaxProjects = 2
  MaxCrashes = 1
INVARIANTS
  TypeOK
  OneConflictAtATime
  HonoursMode
  DependencyOrder
  FailureHalts
  CompletedMeansRestored
  TerminalIsQuiet
  StalledMeansSilent
PROPERTIES
  RefinesLifecycle
CHECK_DEADLOCK FALSE
