SPECIFICATION Spec
CONSTANTS
  w1 = w1
  w2 = w2
  r1 = r1
  r2 = r2
  r3 = r3
  a1 = a1
  a2 = a2
  a3 = a3
  s1 = s1
  s2 = s2
  Workers = {w1}
  Runs = {r1, r2}
  Articles = {a1, a2, a3}
  Sources = {s1, s2}
  SourceOf <- MCSourceOf
  Unfit = {}
  MaxPerSource = 1
  MaxCandidates = 2
  MinItems = 1
  MaxItems = 2
  Triggers = {"scheduled"}
  Faults = TRUE
  Stops = FALSE
  LockLosses = FALSE
INVARIANTS SuccessIsStored
CHECK_DEADLOCK FALSE
