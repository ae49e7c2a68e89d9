SPECIFICATION Spec
CONSTANTS
  r1 = r1
  r2 = r2
  k1 = k1
  k2 = k2
  e1 = e1
  None = None
  Requests = {r1, r2}
  Keys = {k1, k2}
  Emails = {e1}
  MaxTries = 3
INVARIANTS TypeOK RepeatsAreFree AnswersAreRecorded ContactIsRecent
PROPERTIES RequestsEnd
CHECK_DEADLOCK FALSE
