SPECIFICATION Spec
CONSTANTS
  manifest = manifest
  a = a
  b = b
  c = c
  Files = {a, b, c}
  Manifest = manifest
  Versions = {1, 2, 3}
  Release <- MCRelease
  Kinds = {"artifact", "git"}
  MaxEdits = 2
  MaxRuns = 2
  MaxStops = 1
INVARIANTS
  TypeOK
  EditsKept
  WayBack

  
CHECK_DEADLOCK FALSE
