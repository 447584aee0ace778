SPECIFICATION FairSpec
CONSTANTS
  Content <- MCContent
  NewIds = {"new"}
  ServiceDesk = {"D1"}
  Custom = {"cf"}
  MaxResults = 2
  Caps <- MCCaps
  MaxEdits = 2
INVARIANTS
  TypeOK
  PersistedInOrder
  NoDanglingReference
  CompletedIsWhole
  ValidIsFinal
PROPERTY RunEnds
CHECK_DEADLOCK FALSE
