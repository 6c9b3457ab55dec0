CONSTANTS
  None = None
  Versions = {1, 2, 3}
  MaxCrashes = 2
  MaxErrors = 2
  AllowNoBackup = TRUE
SPECIFICATION LiveSpec
INVARIANTS
  TypeOK
  EndsWhole
  UserDataKept
  OldNeverOnMigratedData
PROPERTIES
  Settles
  SwitchIsAtomic
