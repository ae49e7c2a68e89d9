SPECIFICATION Spec
CONSTANTS
  d1 = d1
  d2 = d2
  a1 = a1
  a2 = a2
  a3 = a3
  short = short
  long = long
  Articles <- MCArticles
  Deliverers = {d1, d2}
  Layouts = {short, long}
  Split <- MCSplitMoved
  ChatConfigs = {TRUE}
  MaxRetries = 1
  MaxCalls = 3
  Interruptible = TRUE
  CleanupRuns = FALSE
SYMMETRY MCSymmetry
INVARIANTS EveryPostAccounted OneSender SentMeansConfirmed
PROPERTIES KeepsLifecycle
CHECK_DEADLOCK FALSE
