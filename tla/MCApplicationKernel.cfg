SPECIFICATION FairSpec
CONSTANTS
  db = db  api = api
  Order <- Pair
  DependsOn <- PairEdges
  Required = {db, api}
  LongLived = {db}
  Reporters = {api}
  Forceable = {db}
  EarlyRestarts = FALSE
  MaxRestarts = 1
  MaxPending = 1
INVARIANTS
  OperationsDrainFirst OneGeneration HandlesAreLive GenerationsKnown
PROPERTIES
  AdmissionStaysShut ShutdownEnds
CHECK_DEADLOCK FALSE
