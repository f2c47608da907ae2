SPECIFICATION Spec
CONSTANTS
  Keep = 2
  None = None
  MaxRuns = 2
  MaxWrites = 1
  Limits <- RunLimits
INVARIANTS
  TypeOK
  OneDirection
  RollbackRestores
  SuccessIsApplied
PROPERTIES
  AppliedIsSaved
  ImportedIsSaved
CHECK_DEADLOCK FALSE
