SPECIFICATION Spec
CONSTANTS
  r1 = r1  r2 = r2  r3 = r3  k1 = k1  k2 = k2  k3 = k3  p1 = p1  p2 = p2  l1 = l1
  None = None
  Runs = {r1, r2, r3}
  Keys = {k1, k2, k3}
  Lanes = {p1, p2}
  Labels = {l1}
  LabelOf <- MCLabelOf
  Stamps <- MCStamps
  MaxVersion = 6
SYMMETRY Symmetry
INVARIANTS
  OneOpenTurn AnsweredOnce StartsInOrder
PROPERTIES
  FencedAnswers SettledIsFinal ImplementsTurns
CHECK_DEADLOCK FALSE
