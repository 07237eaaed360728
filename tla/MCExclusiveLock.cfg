SPECIFICATION FairLockSpec
CONSTANTS
  p1 = p1  p2 = p2  p3 = p3  p4 = p4
  None = None
  Procs = {p1, p2, p3}
  Unprovable = {p3}
  Inodes <- MCInodes
  MaxDepth = 2
  MaxCrashes = 2
  MaxFailures = 1
  Reuse = FALSE
INVARIANTS
  HolderOwnsTheName
PROPERTIES
  AbandonedIsTaken
