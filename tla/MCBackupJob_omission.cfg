SPECIFICATION Spec
CONSTANTS
  Content <- MCPair
  HeartbeatEvery = 1
  StaleThreshold = 1
  Scanning = FALSE
  DetectorRuns = TRUE
  SearchMayFail = FALSE
  MaxCrashes = 0
INVARIANT NoSilentOmission
CHECK_DEADLOCK FALSE
