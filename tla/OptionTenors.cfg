SPECIFICATION SummariesSpec
CONSTANTS
  OptionProviders = {"kite", "dhan", "nse"}
  Expiries = {1, 2, 3, 5, 6}
  Month <- MonthOf
  LastSummaryDay = 4
INVARIANTS TenorsFollowHints
CHECK_DEADLOCK FALSE
