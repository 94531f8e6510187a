SPECIFICATION Spec
CONSTANTS
  HistoryMonths = 13
  RecentDays = 45
  BaseYear = 2022
  Start <- MCStart
  Pause <- MCPause
  LastDay = 880
  From <- MCFrom
INVARIANTS TypeOK WindowFilled WindowOnly
CHECK_DEADLOCK FALSE
