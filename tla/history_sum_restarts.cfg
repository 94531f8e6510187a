SPECIFICATION Spec
CONSTANTS
  NoPoint = NoPoint
  Incomplete = Incomplete
  RecentDays = 1
  DaysPerMonth = 2
  HistoryMonths = 2
  FirstDay = 4
  MaxDay = 6
  Meter <- TwoMeters
  Exposed <- TwoUsage
  Plans <- BothMeters
  Val = {2}
  Replies <- FullReplies
INVARIANTS
  ContinuousSum
