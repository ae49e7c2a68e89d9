SPECIFICATION Spec
CONSTANTS
  s1 = s1
  s2 = s2
  Sources = {s1, s2}
  UrlOf <- MCUrlOf
  Records <- MCRecords
  Feeds <- MCFeeds
  Concurrency = 1
  MaxRetries = 2
INVARIANTS TypeOK OnlyChecked RetriesSpent 
PROPERTIES FetchingEnds
CHECK_DEADLOCK FALSE
