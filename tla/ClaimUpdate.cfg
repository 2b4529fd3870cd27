SPECIFICATION Spec
CONSTANTS
  Apps = {a}
  LastVersion = 2
  MaxContent = 2
  Absent = Absent
  Damaged = Damaged
  NoDir = NoDir
  MaxKills = 1
  MaxFaults = 0
INVARIANTS
  PackagesSurvive
CHECK_DEADLOCK FALSE
