SPECIFICATION Spec
CONSTANTS
  Horizon = 4
  MinReadings = 2
  MinStable = 2
  MaxGap = 2
  MaxBatch = 2
  MaxExecutions = 2
  MaxHandovers = 1
CHECK_DEADLOCK FALSE
INVARIANTS
  ReadingsSound
  EvidenceAfterIntervention
  ProgressSound
  VerdictSound
