SPECIFICATION LiveSpec
CONSTANTS
  None = None
  HostServices = {s1, s2}
  MaxTx = 2
  MaxCrashes = 0
  MaxReboots = 1
  MaxErrors = 0
PROPERTIES RebootRollsBack
CHECK_DEADLOCK FALSE
