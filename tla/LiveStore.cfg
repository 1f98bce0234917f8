SPECIFICATION FairSpec
CONSTANTS
  Symbols <- OneSymbol
  Batches <- OneBatch
  Worker = worker
  Callers = {api}
  Provider = "dhan"
  Ttl = 1
  MaxClock = 2
  Requests <- SymbolRequests
  FaultPoints <- AnyPoint
INVARIANTS TypeOK StoredPayloadsWhole RedisNeverBehindDb
PROPERTIES DbNeverOlder RegisterSpec RefreshReturns
