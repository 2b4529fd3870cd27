SPECIFICATION FairSpec
CONSTANTS
  NoName = NoName
  Nameless <- NoName
  Settings <- SomeSettings
  RetryN = 3
  MaxVersion = 2
  Size = 2
  MaxAttempts = 3
INVARIANTS
  TypeOK
  ResolvedAsAsked
  StrictDelivers
  NothingOld
  EndsWhole
  TransientRetried
PROPERTIES
  CallsEnd
