SPECIFICATION FairSpec
CONSTANTS
  d1 = d1
  d2 = d2
  a1 = a1
  a2 = a2
  a3 = a3
  short = short
  long = long
  Articles <- MCArticles
  Deliverers = {d1}
  Layouts = {short}
  Split <- MCSplitFixed
  ChatConfigs = {TRUE, FALSE}
  MaxRetries = 2
  MaxCalls = 2
  Interruptible = FALSE
  CleanupRuns = TRUE
INVARIANTS TypeOK NothingLost
PROPERTIES OnlyUnsentParts SendingEnds
CHECK_DEADLOCK FALSE
