SPECIFICATION AdmissionSpec
CONSTANTS
  s1 = s1  s2 = s2  s3 = s3
  r1 = r1  r2 = r2  r3 = r3  t1 = t1
  self = self  here = here
  None = None
  Keys = {s1, s2, s3}
  Runs = {r1, r2, r3, t1}
  Lanes = {self}
  Labels = {here}
  LabelOf <- MCLabelOf
  Stamps <- MCStamps
  MaxVersion = 14
  RunOf <- MCRunOf
  Elsewhere = {s1}
  TwinOf <- MCTwinOf
  Self = self
  Hosts <- SafetyHosts
INVARIANTS
  AnswersAreTheirs NoneLeftBehind OffersAreWaiting
PROPERTIES
  UrgentFirst ClosedIsQuiet AbsorbedWereShown
CHECK_DEADLOCK FALSE
