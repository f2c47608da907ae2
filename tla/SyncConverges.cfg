SPECIFICATION FairSpec
CONSTANTS
  Machines = {m1, m2}
  NoMachine = NoMachine
  Edits = {e1, e2}
  None = None
  Settings <- WorkerSettings
  MaxRevs = 3
  MaxCrashes = 0
PROPERTIES
  Converges
CHECK_DEADLOCK FALSE
