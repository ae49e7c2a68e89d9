SPECIFICATION Spec
CONSTANTS
  x1 = x1
  x2 = x2
  f1 = f1
  f2 = f2
  None = None
  Executions = {x1, x2}
  Files = {f1, f2}
  MaxTries = 3
INVARIANTS TypeOK DuplicatesAreFree NoticesMatchSheet
CHECK_DEADLOCK FALSE
