SPECIFICATION Spec
CONSTANTS
  NoPoint = NoPoint
  Incomplete = Incomplete
  RecentDays = 1
  DaysPerMonth = 2
  HistoryMonths = 1
  FirstDay = 5
  MaxDay = 6
  Meter <- TwoMeters
  Exposed <- WaterAndHeat
  Plans <- AnyPlan
  Val = {2}
  Replies <- PlainReplies
INVARIANTS
  KeptSumsContinue
  PlannedMetersStored
PROPERTIES
  DropsEndWithSuccess
