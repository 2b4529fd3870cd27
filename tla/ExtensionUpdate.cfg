SPECIFICATION FairSpec
CONSTANTS
  Apps = {a, b}
  LastVersion = 3
  MaxContent = 2
  Absent = Absent
  Damaged = Damaged
  NoDir = NoDir
  MaxKills = 1
  MaxFaults = 1
INVARIANTS
  TypeOK
  NothingLostByUpdate
  CarriedOver
PROPERTIES
  UpdateEnds
CHECK_DEADLOCK FALSE
