SPECIFICATION Spec
CONSTANTS
  NoName = NoName
  Nameless <- NoName
  Settings <- OneSetting
  RetryN = 2
  MaxVersion = 1
  Size = 2
  MaxAttempts = 2
INVARIANTS
  RebuiltFromParts
