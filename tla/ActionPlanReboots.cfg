SPECIFICATION FairSpec
CONSTANTS
  a = a
  b = b
  Apps = {a, b}
  Versions = {1, 2}
  Orders = {1, 2}
  Profiles <- RebootProfiles
  None = None
  Unreadable = Unreadable
  IOErrors = FALSE
  MaxBoots = 4
  MaxKills = 1
  MaxDiskFaults = 0
  MaxChanges = 2
INVARIANTS
  EnableSettles
  RebootsBounded
PROPERTIES
  EnableTerminates
  InterruptedIsResumed
  ImplementsLog
CHECK_DEADLOCK FALSE
