SPECIFICATION Spec
CONSTANTS
  N = 3
  None = None
  MaxWrites = 1
  MaxRuns = 2
INVARIANTS
  TypeOK
  Outcome
  NothingLost
CHECK_DEADLOCK FALSE
