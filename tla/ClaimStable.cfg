SPECIFICATION Spec
CONSTANTS
  MaxSeq = 2
  Goal <- GoAndReturn
  Managers = {p, q}
  None = None
  Unreadable = Unreadable
  MaxKills = 1
  MaxFaults = 1
PROPERTIES
  LastStableRestored
