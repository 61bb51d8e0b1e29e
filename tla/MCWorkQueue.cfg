SPECIFICATION QueueSpec
CONSTANTS
  N = 3
  Clients = {c1}
  Filters <- MCFilters
  MaxLimit = 2
  RiskLevels = {1, 2}
  Deadlines = {2, 3}
  Horizon = 2
CHECK_DEADLOCK FALSE
INVARIANTS
  QuietListingSound
  UnchangedAreShown
  OdditiesExplained
