SPECIFICATION Spec
CONSTANTS
  MaxEdits = 2
  MaxRevision = 4
INVARIANTS
  LeavingKeepsEdits
CHECK_DEADLOCK FALSE
