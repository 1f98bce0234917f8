SPECIFICATION ServicesSpec
CONSTANTS
  LastDumpDate = 4
  Retention = 1
  PipeSize = 1
  OutSize = 2
  ErrSize = 2
  MaxDumps = 3
  Tasks = {"a", "b", "c"}
  Hints <- StoredHints
  ListedExpiries <- NseLists
  Concurrency = 2
  FetchAttempts = 2
  Interval = 1
  OptionProviders = {"kite", "dhan", "nse", "disabled"}
  Expiries = {1, 2, 3, 5, 6}
  Month <- MonthOf
  LastSummaryDay = 4
  LastBar = 4
  SplitActions = {"split", "merge"}
  Multiplier <- Multipliers
  Moves <- PriceMoves
  Threshold = 1
  Windows <- TwoWindows
  Slack = 0
  Urls = 3
  Attempts = 3
INVARIANTS ServicesTypeOK WholeDumpKept TenorsNearest ReturnsRestored FirstFileWins
PROPERTIES DumpEnds RequestsHeldBack
CHECK_DEADLOCK FALSE
