SPECIFICATION WorkerSpec
CONSTANTS
  Readers = {worker}
  Operators = {}
  EnvTokens = {FALSE}
  StaticToken = FALSE
  DayLength = 4
  ExpiryAt = 1
  Margin = 1
  MinTtl = 1
  MaxClock = 6
  MaxLogins = 0
  FaultPoints <- NoPoint
  Worker = worker
  HookAt = 2
  Market <- Afternoon
  Rounds = 2
  MaxKills = 0
  LogFails = TRUE
INVARIANTS WorkerKeepsRunning
