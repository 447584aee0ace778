SPECIFICATION FairSpec
CONSTANTS
  NoDate = NoDate
  BadDate = BadDate
  KeyLike = {"A-1", "A-2", "A-3", "B-1"}
  Runs <- MCRuns
  Keys = {"A", "B"}
  Queries <- MCQueries
  FilterChoices <- MCFilters
  PageSize = 2
  MaxFetches = 3
INVARIANTS
  TypeOK
  EmptyPageIsExplained
  SettledViewIsTrue
PROPERTIES
  PagesAgree
  TypedIsSearched
CHECK_DEADLOCK FALSE
