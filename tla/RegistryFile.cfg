SPECIFICATION Spec
CONSTANTS
  Contents = {c0, c1, c2, c3}
  NoPackages = c0
  IOErrors = TRUE
  MaxWrites = 5
  MaxKills = 3
INVARIANTS
  BackupCoversSave
  TypeOK
  NothingRevived
PROPERTIES
  ImplementsStore
CHECK_DEADLOCK FALSE
