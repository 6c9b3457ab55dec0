SPECIFICATION Spec
CONSTANTS
  None = None
  Loads <- MCLoads
  Ports = 1
  Capacity = 1
  Queue = 1
  MaxBytes = 2
  MaxPeers = 1
INVARIANTS RelayInvariant BytesAreQueued
PROPERTIES ClosedComplete
CHECK_DEADLOCK FALSE
