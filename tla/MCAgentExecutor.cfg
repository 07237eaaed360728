SPECIFICATION FairExecSpec
CONSTANTS
  r1 = r1  r2 = r2  k1 = k1  k2 = k2  p1 = p1  p2 = p2  l1 = l1  l2 = l2
  None = None
  Runs = {r1, r2}
  Keys = {k1, k2}
  Lanes = {p1, p2}
  Labels = {l1, l2}
  LabelOf <- TwoProcesses
  Stamps <- MCStamps
  MaxVersion = 14
  MaxFailures = 1
  MaxTickets <- MCTickets
  MaxRevision <- MCRevisions
CONSTRAINT InOrder
INVARIANTS
  AnswerDeliveredOnce NoSilentStrand
PROPERTIES
  InterruptHonoured TicketsEnd
CHECK_DEADLOCK FALSE
