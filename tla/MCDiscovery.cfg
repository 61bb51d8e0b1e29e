SPECIFICATION Spec
CONSTANTS
  Samples <- MCSamples
  Instants = {0, 8, 48}
  Sensitivity = "high"
  MaxBatch = 3
  MaxReadings = 4
CHECK_DEADLOCK FALSE
INVARIANTS
  RiskExplained
  SpikesReviewed
PROPERTY
  RiskHoldsOrRises
