SPECIFICATION Spec
CONSTANTS
  Handlers = {h1, h2}
  i1 = i1
  i2 = i2
  b1 = b1
  b2 = b2
  b3 = b3
  old = old
  new = new
  None = None
  Incidents = {i1, i2}
  Batches = {b1, b2, b3}
  Meanings = {old, new}
  Critical <- MCCritical
  Requests <- MCRequests
  MaxExecutions = 3
SYMMETRY MCSymmetry
INVARIANTS
  BatchesTraceable
  DepartureOnRecord
  ReviewedBeforeObservation
  BlockShown
