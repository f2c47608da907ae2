SPECIFICATION Spec
CONSTANTS
  Keep = 2
  None = None
  MaxRuns = 1
  MaxWrites = 0
  Limits <- RestoreLimits
PROPERTIES RestoresSelected
CHECK_DEADLOCK FALSE
