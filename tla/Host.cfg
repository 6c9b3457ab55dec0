SPECIFICATION OneAtATime
CONSTANTS
  Id = {1, 2}
  MaxAttempts = 2
  MaxCommands = 3
  MaxReads = 1
  MaxTrouble = 1
  Mirror = {"a", "b"}
  Layouts <- MCLayouts
  MaxSwitches = 2
  Main = "main"
  Extra = "extra"
  Contents <- MCContents
  Selections <- MCSelections
  MaxEdits = 2
  MaxErrors = 1
  MaxCrashes = 1
  Release <- MCRelease
  PageSize = 1
  MaxPages = 3
  MaxCalls = 3
  MaxMishaps = 2
INVARIANTS
  MirrorsInvariant
  HostNetInvariant
  SelfInvariant
  BackupsInvariant
PROPERTIES
  StepsKeepPromises
CHECK_DEADLOCK FALSE
