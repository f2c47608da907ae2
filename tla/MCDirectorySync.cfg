SPECIFICATION Spec
CONSTANTS
  vscode = vscode
  home = home
  Roots = {vscode, home}
  Owned = {vscode}
  SnapshotsEnabled = TRUE
  Keep = 1
  MaxChanges = 3
  MaxCommands = 3
INVARIANTS
  TypeOK
  AcceptedIsMoment
  PushKeepsOthers
  RestoreKeepsPrevious
CHECK_DEADLOCK FALSE
