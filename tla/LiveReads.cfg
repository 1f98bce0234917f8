SPECIFICATION ReadSpec
CONSTANTS
  Symbols <- OneSymbol
  Batches <- OneBatch
  Worker = worker
  Callers = {web}
  Provider = "yahoo"
  Ttl = 1
  MaxClock = 2
  Requests <- SymbolRequests
  FaultPoints <- HalfDone
  Readers = {reader}
  DayLength = 2
INVARIANTS ReadTypeOK MergedReadFresh LatestReadFindsRow LatestReadServes NotFoundOnlyUnknown
