SPECIFICATION WizardSpec
CONSTANTS
  k1 = k1
  Jobs = {j1}
  Keys = {k1}
  Requests <- MCForms
  StubCalls <- MCOneCall
  StaleThreshold = 0
  TrashGuard = FALSE
  MaxProjects = 1
  MaxCrashes = 0
  MaxPolls = 2
  StallPeriods = 1
  MaxLost = 1
INVARIANTS
  WizardTypeOK
  JobIsWhatWasReviewed
  ShownEndIsReal
CHECK_DEADLOCK FALSE
