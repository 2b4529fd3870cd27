SPECIFICATION Spec
CONSTANTS
  a = a
  b = b
  Apps = {a, b}
  Versions = {1, 2}
  Orders = {1, 2}
  Profiles <- RebootProfiles
  None = None
  Unreadable = Unreadable
  IOErrors = FALSE
  MaxBoots = 4
  MaxKills = 0
  MaxDiskFaults = 0
  MaxChanges = 1
PROPERTIES
  NoRerunAfterReboot
CHECK_DEADLOCK FALSE
