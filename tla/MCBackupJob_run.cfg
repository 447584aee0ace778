SPECIFICATION FairSpec
CONSTANTS
  Content <- MCContent
  HeartbeatEvery = 1
  StaleThreshold = 1
  Scanning = TRUE
  DetectorRuns = TRUE
  SearchMayFail = TRUE
  MaxCrashes = 1
INVARIANTS
  TypeOK
  BooksAgree
  VerdictIsHonest
  OkIsOnDisk
  StallAgreement
  EndIsTold
PROPERTIES
  RunEnds
  SilenceSurfaces
  KeepsLedger
CHECK_DEADLOCK FALSE
