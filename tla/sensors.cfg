SPECIFICATION SensorsSpec
CONSTANTS
  NoPoint = NoPoint
  Incomplete = Incomplete
  RecentDays = 1
  DaysPerMonth = 2
  HistoryMonths = 2
  FirstDay = 5
  MaxDay = 7
  Meter <- OneMeter
  Exposed <- HeatMeter
  Plans <- FixedPlan
  Val = {2}
  Replies <- LateReplies
INVARIANTS
  SensorsTypeOK
  SensorShowsLastRow
  TemperatureOfMeasuredPeriod
PROPERTIES
  ShownPeriodAdvances
