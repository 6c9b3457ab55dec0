SPECIFICATION Spec
CONSTANTS
  Versions = {1, 2}
  MaxOps = 1
  MaxCrashes = 1
  MaxErrors = 0
INVARIANTS KeepDataKept
CHECK_DEADLOCK FALSE
