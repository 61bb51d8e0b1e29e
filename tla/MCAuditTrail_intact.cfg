SPECIFICATION Spec
CONSTANTS
  Incidents = {i1, i2}
  Clients = {c1}
  Filters <- MCFilters
  MaxLimit = 2
  MaxEvents = 4
  MaxCommitments = 1
  None = None
CHECK_DEADLOCK FALSE
INVARIANT
  IntactTrailShown
