SPECIFICATION FairWorkerSpec
CONSTANTS
  Readers = {worker}
  Operators = {operator}
  EnvTokens = {FALSE, TRUE}
  StaticToken = FALSE
  DayLength = 4
  ExpiryAt = 1
  Margin = 1
  MinTtl = 1
  MaxClock = 6
  MaxLogins = 1
  FaultPoints <- Outages
  Worker = worker
  HookAt = 2
  Market <- Afternoon
  Rounds = 2
  MaxKills = 1
  LogFails = TRUE
INVARIANTS WorkerTypeOK
PROPERTIES WorkerComesRound HookAttempted
