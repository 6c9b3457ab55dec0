SPECIFICATION DaemonLoop
CONSTANTS
  Writer = {"w1", "w2"}
  Source = {"s1"}
  MaxOps = 2
  MaxTrouble = 1
INVARIANTS
  SettingsInvariant
PROPERTIES
  SettingsSteps
  PicksUpWhileServing
  DelegationEnds
CHECK_DEADLOCK FALSE
