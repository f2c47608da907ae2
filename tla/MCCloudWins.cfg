SPECIFICATION Spec
CONSTANTS
  Paths = {p1, p2}
  Contents = {x, y}
  Absent = Absent
  Procs = {c1, c2}
  NoProc = NoProc
  NoPath = NoPath
  MaxRuns = 2
  MaxEdits = 1
  MaxPlans = 2
SYMMETRY Symmetry
INVARIANTS
  TypeOK
  BaselineIsLatest
  Recoverable
  Settled
  OnlyLatestUnfinished
PROPERTIES
  PhasesMoveForward
  ReportsNewest
  ImplementsStack
CHECK_DEADLOCK FALSE
