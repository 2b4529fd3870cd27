SPECIFICATION Spec
CONSTANTS
  a = a
  b = b
  Apps = {a, b}
  Versions = {1, 2}
  Orders = {1, 2}
  Profiles <- OrderProfiles
  None = None
  Unreadable = Unreadable
  IOErrors = FALSE
  MaxBoots = 0
  MaxKills = 0
  MaxDiskFaults = 0
  MaxChanges = 2
INVARIANTS
  NothingForgotten
CHECK_DEADLOCK FALSE
