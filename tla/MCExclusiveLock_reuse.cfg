SPECIFICATION LockSpec
CONSTANTS
  p1 = p1  p2 = p2  p3 = p3  p4 = p4
  None = None
  Procs = {p1, p2, p3, p4}
  Unprovable = {}
  Inodes <- FewInodes
  MaxDepth = 1
  MaxCrashes = 2
  MaxFailures = 0
  Reuse = TRUE
SYMMETRY Interchangeable
INVARIANTS
  HolderOwnsTheName
