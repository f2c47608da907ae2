SPECIFICATION Spec
CONSTANTS
  Paths = {p, q}
  Nested = {q}
  Contents = {x, y}
  Absent = Absent
  Torn = Torn
  MaxRuns = 2
  MaxStops = 2
SYMMETRY Symmetry
INVARIANTS
  TypeOK
  WriteAhead
  PhaseIsTrue
  BaselineHasRun
CHECK_DEADLOCK FALSE
