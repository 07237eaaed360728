SPECIFICATION WatchSpec
CONSTANTS
  c1 = c1  c2 = c2  a = a  b = b
  Nothing = Nothing
  Clients = {c1, c2}
  Hold = FALSE
  Values = {a, b}
  Smaller <- Differences
  Remembered = 1
  MaxChanges = 1
  Steady = {c2}
  MaxMishaps = 1
INVARIANT
  LiveMeansCurrent
CHECK_DEADLOCK FALSE
