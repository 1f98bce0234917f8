SPECIFICATION EventsSpec
CONSTANTS
  Refreshers = {v}
  Tolerant = {v}
  LastDate = 2
  MaxRefreshes = 2
INVARIANTS FiledDatesKept
CHECK_DEADLOCK FALSE
