SPECIFICATION Spec
CONSTANTS
  Handlers = {h1, h2}
  r1 = r1
  r2 = r2
  r3 = r3
  i1 = i1
  i2 = i2
  k1 = k1
  k2 = k2
  c1 = c1
  c2 = c2
  None = None
  Requests = {r1, r2, r3}
  Incidents = {i1, i2}
  Keys = {k1, k2}
  Cases = {c1, c2}
  CaseOf <- MCCaseOf
  Inputs <- MCInputs
  DirSyncReliable = TRUE
  Kills = FALSE
  MaxPowerLosses = 2
SYMMETRY HandlerSymmetry
INVARIANTS
  TypeOK
  MemoryIsFile
  ExactlyOnce
  AckedSurvives
  NoLostUpdate
  ActiveContextsExact
PROPERTIES
  ImplementsCommandLog
