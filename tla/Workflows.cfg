CONSTANTS
  Versions = {1, 2}
  MaxOps = 1
  MaxCrashes = 2
  MaxErrors = 1
  MaxDeaths = 2
  MaxFailures = 1
SPECIFICATION Workflows
INVARIANTS
  RootInvariant
  MigrationInvariant
PROPERTIES
  RouterRunsAgain
  RecoverySettles
CHECK_DEADLOCK FALSE
