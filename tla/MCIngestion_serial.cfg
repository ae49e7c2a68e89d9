SPECIFICATION Spec
CONSTANTS
  s1 = s1
  s2 = s2
  l1 = l1
  l2 = l2
  l3 = l3
  i1 = i1
  i2 = i2
  home = home
  moved = moved
  Sources = {s1, s2}
  Links = {l1, l2, l3}
  Ids = {i1, i2}
  OwnLinks <- MCOwnLinks
  Bodies <- MCBodies
  Addresses = {home, moved}
  Reseeded = {s2}
  MaxVersions = 2
  MaxRuns = 2
  MaxEntries = 2
  MaxNew = 2
SYMMETRY MCSymmetry
INVARIANTS TypeOK LimitKept ValidatorCovers FailuresMatchLog CountersMatchTables
CHECK_DEADLOCK FALSE
