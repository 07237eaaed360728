SPECIFICATION FairWatchSpec
CONSTANTS
  c1 = c1  c2 = c2  a = a  b = b
  Nothing = Nothing
  Clients = {c1, c2}
  Hold = TRUE
  Values = {a, b}
  Smaller <- Differences
  Remembered = 1
  MaxChanges = 1
  Steady = {c2}
  MaxMishaps = 2
INVARIANTS
  LiveMeansCurrent OffersWhatItHolds
PROPERTIES
  WatchersConverge
CHECK_DEADLOCK FALSE
