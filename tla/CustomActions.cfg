SPECIFICATION FairSpec
CONSTANTS
  Actions <- FourActions
  Tick <- Ticks
  App <- Owners
  None = None
  MaxGoals = 2
  MaxKills = 1
  MaxUpdates = 1
  MaxFaults = 1
INVARIANTS
  TypeOK
  NonePassedOver
PROPERTIES
  RunOnce
  OwedIsPaid
