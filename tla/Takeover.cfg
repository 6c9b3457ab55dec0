SPECIFICATION LiveSpec
CONSTANTS
  None = None
  HostServices = {s1, s2}
  MaxTx = 3
  MaxCrashes = 2
  MaxReboots = 1
  MaxErrors = 1
INVARIANTS TypeOK TakeoverInvariant ReturnPath
PROPERTIES UnconfirmedIsUndone
CHECK_DEADLOCK FALSE
