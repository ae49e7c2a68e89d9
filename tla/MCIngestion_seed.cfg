SPECIFICATION Spec
CONSTANTS
  s1 = s1
  s2 = s2
  l1 = l1
  l2 = l2
  l3 = l3
  i1 = i1
  i2 = i2
  home = home
  moved = moved
  Sources = {s1, s2}
  Links = {l1, l2, l3}
  Ids = {i1, i2}
  OwnLinks <- MCOwnLinks
  Bodies <- MCBodies
  Addresses = {home, moved}
  Reseeded = {s2}
  MaxVersions = 1
  MaxRuns = 1
  MaxEntries = 2
  MaxNew = 2
SYMMETRY MCSymmetry
INVARIANTS SeedKept
CHECK_DEADLOCK FALSE
