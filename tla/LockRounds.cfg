CONSTANTS
  Nobody = Nobody
  p1 = p1
  p2 = p2
  p3 = p3
  p4 = p4
  Procs = {p1, p2, p3, p4}
  Program <- Four
  Windows = TRUE
SPECIFICATION FairSpec
INVARIANTS OneHolder HolderKeepsFile
PROPERTY NobodyWedged
