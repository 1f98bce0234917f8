SPECIFICATION Spec
CONSTANTS
  Symbols <- TwoSymbols
  Batches <- TwoBatches
  Worker = worker
  Callers = {api}
  Provider = "yahoo"
  Ttl = 1
  MaxClock = 2
  Requests <- AnyRequest
  FaultPoints <- NoPoint
INVARIANTS RedisAheadOnlyInFlight ListTrailsDb
PROPERTIES ListNeverShrinks
ACTION_CONSTRAINT FirstList
