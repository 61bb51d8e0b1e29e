SPECIFICATION Spec
CONSTANTS
  Actors = {a1, a2}
  Hypotheses = {h1}
  Sensors = {s1, s2}
  FirstSensor = s1
  Nobody = Nobody
  MaxPlans = 1
  MaxExecutions = 2
  MaxDeviations = 2
  MaxWindows = 2
  MaxVerifications = 2
  MaxHandovers = 2
  MaxHolds = 1
  MaxRequirements = 1
SYMMETRY ActorSymmetry
CHECK_DEADLOCK FALSE
INVARIANTS
  TypeOK
  EvidenceFresh
  LatestExecutionCleared
  SealedDeviationsAnswered
  FailedWindowFinal
  WindowsSound
  AuditComplete
PROPERTY
  ImplementsLifecycle
