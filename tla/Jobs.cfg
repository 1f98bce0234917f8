SPECIFICATION JobsSpec
CONSTANTS
  u = u
  Runs = {u, t}
  Kinds <- KindsOf
  Symbols = {"nifty", "aa"}
  Indices = {"nifty"}
  LastDay = 2
  Fo <- FoFiles
  Cm <- CmFiles
  Smile <- Smiles
  Skew <- Skews
  Legs <- LegsAt
  Refillable <- Expiring
  Scopes <- SymbolScopes
  Permits = 2
  Lag = 1
  MinHistory = 1
  HistoryWindow = 1
  MaxRuns = 3
  Refreshers = {v, w}
  Tolerant = {v}
  LastDate = 2
  MaxRefreshes = 3
  Loads = {l}
  Syncs = {y}
  Actions = {"bonus", "div"}
  Declared = {"bonus"}
  Derivable = {"div"}
  ExDate <- ExDates
  LastTradeDate = 4
  Back = 2
  Ahead = 1
  Window = 2
  Span = 2
  MaxLoads = 3
  MaxEdits = 1
  ForwardRuns = {f}
  CorporateRuns = {c}
  Readers = {r}
  Keys = {"history"}
  ForwardKeys = {"history"}
  CorporateKeys = {"history"}
  BackSymbols = {"aa"}
  LastRow = 3
  OldIv <- StoredIv
  NewIv <- RecomputedIv
  BackHistory = 1
  Tail = 1
  MaxBackfills = 2
  MaxReads = 1
INVARIANTS JobsTypeOK FinishedDaysExact UniverseFollowsFiles PlannedReplaced CompletedRunSettles StaleOnlyIfRaced
PROPERTIES ManualFactorKept LoadUsesRightFactors
CHECK_DEADLOCK FALSE
