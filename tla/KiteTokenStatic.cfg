SPECIFICATION TokenSpec
CONSTANTS
  Readers = {worker}
  Operators = {operator}
  EnvTokens = {TRUE}
  StaticToken = TRUE
  DayLength = 4
  ExpiryAt = 1
  Margin = 1
  MinTtl = 1
  MaxClock = 6
  MaxLogins = 1
  FaultPoints <- NoPoint
INVARIANTS StaticServes
