SPECIFICATION LiveSpec
CONSTANTS
  Backup = {"b1", "b2"}
  MirrorName <- MCMirrors
  Source <- MCSources
  Package <- MCPackages
  Iface <- MCIfaces
  StaticIface = {"eth0"}
  MaxText = 1
  Sessions <- MCSessions
  MaxChanges = 1
CHECK_DEADLOCK FALSE
INVARIANTS
  ConsoleInvariant
PROPERTIES
  KeysComeBack
  ConsoleSteps
