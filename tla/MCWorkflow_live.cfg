SPECIFICATION FairSpec
CONSTANTS
  Actors = {a1, a2}
  Hypotheses = {h1}
  Sensors = {s1, s2}
  FirstSensor = s1
  Nobody = Nobody
  MaxPlans = 2
  MaxExecutions = 2
  MaxDeviations = 2
  MaxWindows = 2
  MaxVerifications = 1
  MaxHandovers = 1
  MaxHolds = 1
  MaxRequirements = 1
CHECK_DEADLOCK FALSE
INVARIANT
  PlanHistorySound
PROPERTY
  IncidentsClose
