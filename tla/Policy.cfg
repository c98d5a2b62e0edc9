CONSTANTS
  Requests <- SomeRequests
  Responses <- SomeResponses
  Updates <- SomeUpdates
  Max = 7
  CacheTtl = 3
  MaxTime = 6
  None = none
  Invalid = invalid
SPECIFICATION Spec
INVARIANTS
  StoredByTheRules
  FreshIsFresh
  StaleIsAllowed
  UsefulIsKept
