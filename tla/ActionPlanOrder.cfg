SPECIFICATION Spec
CONSTANTS
  a = a
  b = b
  Apps = {a, b}
  Versions = {1, 2}
  Orders = {1, 2}
  Profiles <- OrderProfiles
  None = None
  Unreadable = Unreadable
  IOErrors = TRUE
  MaxBoots = 0
  MaxKills = 1
  MaxDiskFaults = 1
  MaxChanges = 2
INVARIANTS
  OrderHonoured
  TypeOK
  RegistryTruthful
  EnableSettles
  InstalledHasFiles
PROPERTIES
  CommandRunsOnce
  DroppedOnlyWhenRemoved
  ImplementsLog
CHECK_DEADLOCK FALSE
