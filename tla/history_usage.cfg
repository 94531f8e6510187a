SPECIFICATION Spec
CONSTANTS
  NoPoint = NoPoint
  Incomplete = Incomplete
  RecentDays = 1
  DaysPerMonth = 2
  HistoryMonths = 2
  FirstDay = 4
  MaxDay = 7
  Meter <- OneMeter
  Exposed <- UsageOnly
  Plans <- FixedPlan
  Val = {0, 3}
  Replies <- AnyReplies
INVARIANTS
  TypeOK
  Conservation
  SumsFollowAccepted
  KeptSumsContinue
PROPERTIES
  PointsLeaveByAge
  ImplementsLedger
