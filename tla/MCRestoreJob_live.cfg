SPECIFICATION FairSpec
CONSTANTS
  k1 = k1
  k2 = k2
  Jobs = {j1}
  Keys = {k1, k2}
  Requests <- MCRequests
  StubCalls <- MCOneCall
  StaleThreshold = 1
  TrashGuard = TRUE
  MaxProjects = 2
  MaxCrashes = 0
PROPERTIES
  JobsEnd
  DecisionTakesEffect
CHECK_DEADLOCK FALSE
