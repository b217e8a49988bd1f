SPECIFICATION Spec
CONSTANTS
  ApiIds = {1, 2}
  ApiHandlers = {"h1"}
  Readers = {}
  Queries = {}
  MonthStarts <- MCMonthStarts
  MaxTick = 5
  MaxReadTick = 2
  DefaultLimit = 2
INVARIANT PartitionsReachNextMonth
CHECK_DEADLOCK FALSE
