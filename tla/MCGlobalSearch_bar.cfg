SPECIFICATION Spec
CONSTANTS
  NoDate = NoDate
  BadDate = BadDate
  KeyLike = {}
  Runs <- MCRuns
  Typed = {"1", "alpha"}
  MaxSearches = 2
INVARIANTS
  TypeOK
  DropdownAnswersTheBox
CHECK_DEADLOCK FALSE
