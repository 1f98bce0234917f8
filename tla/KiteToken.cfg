SPECIFICATION TokenSpec
CONSTANTS
  Readers = {worker, api}
  Operators = {operator}
  EnvTokens = {FALSE, TRUE}
  StaticToken = FALSE
  DayLength = 4
  ExpiryAt = 1
  Margin = 1
  MinTtl = 1
  MaxClock = 7
  MaxLogins = 1
  FaultPoints <- AnyPoint
INVARIANTS TokenTypeOK RedisTrailsTable LookupServed
SYMMETRY ReaderSymmetry
