SPECIFICATION FairSpec
CONSTANTS
  Handlers = {h1, h2}
  Owners = {o1, o2}
  OwnerOf <- MCOwnerOf
  h1 = h1
  h2 = h2
  o1 = o1
  o2 = o2
  Nobody = Nobody
  Levels = 2
  Remedy <- MCRemedy
  SoonMargin = 1
  FirstDeadline = 1
  MaxTime = 2
  MaxRevision = 5
CHECK_DEADLOCK FALSE
INVARIANTS
  OneInEffect
  OwnersCommitted
PROPERTIES
  DetailMisleadsOnlyLate
  OverdueTakenUp
