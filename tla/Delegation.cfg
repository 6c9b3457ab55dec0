CONSTANTS
  install = install
  migrate = migrate
  None = None
  Ops <- TwoOps
  Migrations <- Migrate
  Secrets <- Install
  Respawn = TRUE
  DeadPolls = 2
  MaxRestarts = 1
  MaxFaults = 1
SPECIFICATION DelegationSpec
CHECK_DEADLOCK FALSE
INVARIANTS
  DelegationTypeOK
  StartedOnce
  DelegationInvariant
PROPERTIES
  NoStartAfterCancel
