SPECIFICATION Spec
CONSTANTS
  Symbols <- OneSymbol
  Batches <- OneBatch
  Worker = worker
  Callers = {}
  Provider = "kite"
  Ttl = 2
  MaxClock = 3
  Requests <- SymbolRequests
  FaultPoints <- NoPoint
INVARIANTS RedisPayloadsWhole
