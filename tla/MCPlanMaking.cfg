SPECIFICATION Spec
CONSTANTS
  Names <- MCNames
  Lower <- MCLower
  Contents = {x, y}
  Absent = Absent
  Dir = Dir
  MaxNodes = 2
  MaxEdits = 2
SYMMETRY Symmetry
INVARIANTS
  TypeOK
  StableIsSnapshot
  PlanFits
CHECK_DEADLOCK FALSE
