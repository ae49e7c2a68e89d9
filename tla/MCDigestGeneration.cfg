SPECIFICATION Spec
CONSTANTS
  s1 = s1
  s2 = s2
  Articles = {1, 2, 3, 4, 5}
  SourceOf <- MCSourceOf
  Scores = {1, 2}
  Sizes = {2, 3, 8}
  MaxPerSource = 2
  MaxCandidates = 3
  MinItems = 2
  TopItems = 3
  MaxItems = 3
  SchemaItems = 4
  MaxRetries = 2
  TitleSize = 2
  FooterSize = 3
  SeparatorSize = 2
  SizeLimit = 17
INVARIANTS TypeOK SelectionIsBest DigestIsSound RequestsSpent SplitIsRight
CHECK_DEADLOCK FALSE
