SPECIFICATION Spec
CONSTANTS
  Machines = {m1, m2}
  NoMachine = NoMachine
  Edits = {e1, e2, e3}
  None = None
  Settings <- RacySettings
  MaxRevs = 3
  MaxCrashes = 0
PROPERTIES
  NoSilentWinner
CHECK_DEADLOCK FALSE
