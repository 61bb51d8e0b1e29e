SPECIFICATION Spec
CONSTANTS
  Incidents = {i1, i2}
  Clients = {c1}
  Filters <- MCFilters
  MaxLimit = 2
  MaxEvents = 6
  MaxCommitments = 2
  None = None
SYMMETRY MCSymmetry
CHECK_DEADLOCK FALSE
INVARIANTS
  ListingSound
  StatusesNotBehind
  SealedEvidenceComplete
