SPECIFICATION ServiceSpec
CONSTANTS
  daemon = daemon
  cmd = cmd
  r1 = r1
  r2 = r2
  r3 = r3
  a1 = a1
  s1 = s1
  Workers = {daemon, cmd}
  Servers = {daemon}
  Runs = {r1, r2, r3}
  Articles = {a1}
  Sources = {s1}
  SourceOf <- MCSourceOf
  Unfit = {}
  MaxPerSource = 1
  MaxCandidates = 1
  MinItems = 1
  MaxItems = 1
  Triggers = {"scheduled", "manual"}
  Faults = FALSE
  Stops = TRUE
  LockLosses = FALSE
INVARIANTS RunsSerialized ExitCodeHonest StatusIsCurrent
PROPERTIES RunsEnd
CHECK_DEADLOCK FALSE
