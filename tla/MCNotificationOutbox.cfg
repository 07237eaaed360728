SPECIFICATION FairOutboxSpec
CONSTANTS
  k1 = k1  k2 = k2  o1 = o1  o2 = o2
  None = None
  Keys = {k1, k2}
  Executors = {o1, o2}
  Deployments <- Rollouts
  PlanSize = 2
  MaxAttempts = 2
  MaxQueue = 1
  Retained = 1
  MaxEnqueues = 2
  MaxCalls = 2
  MaxFaults = 1
INVARIANTS
  AcknowledgedWhole
PROPERTIES
  RecordedIsNotResent ItemsLeave
CHECK_DEADLOCK FALSE
