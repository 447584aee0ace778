SPECIFICATION Spec
CONSTANTS
  NoDate = NoDate
  BadDate = BadDate
  KeyLike = {"A-1", "A-2", "A-3", "B-1"}
  Runs <- MCRuns
  Keys = {"A", "B"}
  Queries <- MCQueries
  FilterChoices <- MCMoreFilters
  PageSize = 2
  MaxFetches = 3
INVARIANTS
  ScopedToProject
CHECK_DEADLOCK FALSE
