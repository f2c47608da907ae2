SPECIFICATION Spec
CONSTANTS
  Machines = {m1, m2}
  NoMachine = NoMachine
  Edits = {e1, e2}
  None = None
  Settings <- SafetySettings
  MaxRevs = 2
  MaxCrashes = 1
SYMMETRY Symmetry
INVARIANTS
  TypeOK
  HeadHeld
PROPERTIES
  KeepsPublished
  PullKeepsEdits
  NoticesNewHead
  BaselineIsOwn
CHECK_DEADLOCK FALSE
