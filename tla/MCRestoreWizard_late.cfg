SPECIFICATION FairWizard
CONSTANTS
  k1 = k1
  Jobs = {j1}
  Keys = {k1}
  Requests <- MCFewForms
  StubCalls <- MCOneCall
  StaleThreshold = 0
  TrashGuard = FALSE
  MaxProjects = 1
  MaxCrashes = 0
  MaxPolls = 2
  StallPeriods = 2
  MaxLost = 0
PROPERTY OutcomeIsShown
CHECK_DEADLOCK FALSE
