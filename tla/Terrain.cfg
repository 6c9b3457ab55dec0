SPECIFICATION LiveSpec
CONSTANTS
  None = None
  SeqSpace = 6
  MaxNet = 2
  MaxTries = 1
  MaxMissed = 2
  MaxFails = 2
  Loads <- MCLoads
INVARIANTS SessionInvariant Agreement
PROPERTIES LinkServes
CHECK_DEADLOCK FALSE
