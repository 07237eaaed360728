SPECIFICATION FairDurabilitySpec
CONSTANTS
  n1 = n1  c1 = c1  c2 = c2  d1 = d1  d2 = d2  v1 = v1  v2 = v2
  Names = {n1}
  Kinds <- EachKind
  Calls = {c1, c2}
  Deliverers = {d1, d2}
  Local = {d1}
  Values = {v1, v2}
  MaxCalls = 5
  MaxFaults = 3
INVARIANTS
  OneAnswer
PROPERTIES
  RunOnce WaitsEnd
CHECK_DEADLOCK FALSE
