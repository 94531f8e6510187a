--------------------------- MODULE EnergyKeyCalendar ---------------------------
(***************************************************************************)
(* The consumption view of one meter over the real calendar: which days a  *)
(* refresh asks for, which series of an answer it takes for measured and   *)
(* for expected consumption, and which days it then has.                   *)
(*                                                                         *)
(* EnergyKeyHistory has short months of one length and lets any request    *)
(* fail; here months are those of the calendar, window and recent days can *)
(* be the constants of the code, and every request is answered.  A day is  *)
(* the number of days since 1 January of BaseYear, a month <<year, month>>.*)
(***************************************************************************)
EXTENDS Integers, FiniteSets

CONSTANTS
  HistoryMonths,   \* HISTORY_MONTHS
  RecentDays,      \* RECENT_HISTORY_DAYS
  BaseYear,        \* the year the days are counted from
  Start,           \* days of the first refresh
  Pause,           \* days from one refresh to the next
  LastDay,         \* bound on the day of a refresh
  From             \* days from which the portal may have points of a series

ASSUME CalendarAssumption ==
  /\ HistoryMonths \in Nat \ {0} /\ RecentDays \in Nat
  /\ BaseYear \in Nat /\ LastDay \in Nat
  /\ Start \subseteq 31 * HistoryMonths .. LastDay
  /\ Pause \subseteq Nat \ {0}
  /\ From \subseteq Int

VARIABLES
  today,     \* the local date of the last refresh, or of the first one to come
  begin,     \* begin[s]: the first day for which the portal has points of series s
  history,   \* history[k][s]: the stored days of metric k that came from series s
  fresh,     \* a refresh of today has been stored
  missed     \* observation: days that a pause longer than RecentDays has left behind

vars == <<today, begin, history, fresh, missed>>

Series == {"usage", "budget"}
Metric == {"actual", "expected"}

-----------------------------------------------------------------------------
(* The calendar *)

Leap(year) == year % 4 = 0 /\ (year % 100 # 0 \/ year % 400 = 0)
LeapsBefore(year) == ((year - 1) \div 4) - ((year - 1) \div 100) + ((year - 1) \div 400)

\* The first day of a month.
First(month) ==
  LET year == month[1]
      before == <<0, 31, 59, 90, 120, 151, 181, 212, 243, 273, 304, 334>>[month[2]]
  IN  365 * (year - BaseYear) + LeapsBefore(year) - LeapsBefore(BaseYear)
        + before + (IF month[2] > 2 /\ Leap(year) THEN 1 ELSE 0)

ShiftMonths(month, n) ==
  LET absolute == month[1] * 12 + month[2] - 1 + n
  IN  <<absolute \div 12, (absolute % 12) + 1>>

Length(month) ==
  IF month[2] = 2 THEN IF Leap(month[1]) THEN 29 ELSE 28
  ELSE IF month[2] \in {4, 6, 9, 11} THEN 30 ELSE 31

\* The month of a day, of the few that it can be.
MonthOf(day) ==
  CHOOSE month \in {<<BaseYear + (i \div 12), (i % 12) + 1>> : i \in (day \div 31) .. (day \div 28)} :
    day - First(month) \in 0 .. Length(month) - 1

-----------------------------------------------------------------------------
(* What a refresh asks for *)

StartMonth == ShiftMonths(MonthOf(today), -(HistoryMonths - 1))
HistoryStart == First(StartMonth)
RecentStart == today - RecentDays

\* Mutant: up to the midnight after tomorrow.
RecentWindowLong == <<RecentStart, today + 2>>

RecentWindow == <<RecentStart, today + 1>>

\* Mutant: the month the recent window begins in is left to it.
WindowsBefore(histories) ==
  LET monthSets == {{MonthOf(d) : d \in days} : days \in histories}
      months == {ShiftMonths(StartMonth, n) : n \in 0 .. HistoryMonths - 1}
  IN  {<<First(m), First(ShiftMonths(m, 1))>> :
         m \in {m \in months : /\ First(ShiftMonths(m, 1)) <= RecentStart
                               /\ \E set \in monthSets : m \notin set}}

\* The months before the recent window in which some of the histories has no point, each up to
\* the first of the next, or up to tomorrow.
Windows(histories) ==
  LET monthSets == {{MonthOf(d) : d \in days} : days \in histories}
      months == {ShiftMonths(StartMonth, n) : n \in 0 .. HistoryMonths - 1}
      missing == {m \in months : First(m) < RecentStart /\ \E set \in monthSets : m \notin set}
  IN  {LET next == First(ShiftMonths(m, 1))
       IN  <<First(m), IF next < today + 1 THEN next ELSE today + 1>> : m \in missing}

\* The answer to one request; a series without points is not in it.
Answer(window) ==
  [s \in {s \in Series : begin[s] < window[2]} |->
     {d \in window[1] .. window[2] - 1 : begin[s] <= d}]

-----------------------------------------------------------------------------
(* Which series is which *)

\* ConsumptionResult.usage_series: the series of that name, or the only one.
UsageSeries(answer) ==
  IF "usage" \in DOMAIN answer THEN {"usage"}
  ELSE IF Cardinality(DOMAIN answer) = 1 THEN DOMAIN answer ELSE {}

\* ConsumptionResult.budget_series
BudgetSeries(answer) == DOMAIN answer \cap {"budget"}

SeriesFor(metric, answer) ==
  IF metric = "actual" THEN UsageSeries(answer) ELSE BudgetSeries(answer)

-----------------------------------------------------------------------------
NoHistory == [s \in Series |-> {}]
Days(metric) == UNION {history[metric][s] : s \in Series}

Init ==
  /\ today \in Start
  /\ begin \in [Series -> From]
  /\ history = [k \in Metric |-> NoHistory]
  /\ fresh = FALSE
  /\ missed = {}

\* Mutant: nothing is pruned.
MergeAll(metric, answers) ==
  LET fetched(s) == UNION {a[s] : a \in {a \in answers : s \in SeriesFor(metric, a)}}
      all == fetched("usage") \cup fetched("budget")
  IN  [s \in Series |-> fetched(s) \cup (history[metric][s] \ all)]

\* _merge_history: fetched points replace stored ones, and those that end before the window go.
Merge(metric, answers) ==
  LET start == HistoryStart
      fetched(s) == UNION {a[s] : a \in {a \in answers : s \in SeriesFor(metric, a)}}
      all == fetched("usage") \cup fetched("budget")
  IN  [s \in Series |-> {d \in fetched(s) \cup (history[metric][s] \ all) : d + 1 >= start}]

\* A refresh whose recent answer has usage, and every series that is stored.
Refresh ==
  /\ ~fresh /\ fresh' = TRUE
  /\ LET recent == Answer(RecentWindow)
         available == {k \in Metric : SeriesFor(k, recent) # {}}
         answers == {recent} \cup {Answer(w) : w \in Windows({Days(k) : k \in available})}
     IN  /\ "actual" \in available
         /\ \A k \in Metric \ available : Days(k) = {}
         /\ history' = [k \in Metric |-> IF k \in available THEN Merge(k, answers) ELSE NoHistory]
  /\ UNCHANGED <<today, begin, missed>>

\* The next refresh comes after a day, or after Home Assistant has been off for longer.
Wait ==
  /\ fresh /\ fresh' = FALSE
  /\ \E n \in Pause :
       /\ today + n <= LastDay /\ today' = today + n
       /\ missed' = missed \cup {d \in today + 1 .. today' - RecentDays - 1 : MonthOf(d) = MonthOf(today)}
  /\ UNCHANGED <<begin, history>>

Next == Refresh \/ Wait

Spec == Init /\ [][Next]_vars

-----------------------------------------------------------------------------
(* Properties *)

\* Histories have days up to today, none of them from both series.
TypeOK ==
  /\ today \in 0 .. LastDay
  /\ begin \in [Series -> From]
  /\ \A k \in Metric :
       /\ \A s \in Series : history[k][s] \subseteq 0 .. today
       /\ history[k]["usage"] \cap history[k]["budget"] = {}
  /\ fresh \in BOOLEAN
  /\ missed \subseteq 0 .. today

\* A day is in the window if it is in this month or one of the HistoryMonths - 1 before it.
InWindow(day) ==
  LET now == MonthOf(today) then == MonthOf(day)
  IN  12 * (now[1] - then[1]) + now[2] - then[2] \in 0 .. HistoryMonths - 1

\* After a refresh whose requests were all answered, history has every day of the window for
\* which the portal has a point: month chunks and recent window leave no day between them,
\* whatever the lengths of the months and at every turn of a year.  Excepted are the days that
\* a pause longer than RecentDays has left behind in the month it began in: that month has
\* points, so _missing_month_windows_many never asks for it again.
WindowFilled ==
  fresh => \A d \in 0 .. today : InWindow(d) /\ d \notin missed =>
             /\ begin["usage"] <= d => d \in Days("actual")
             /\ begin["budget"] <= d => d \in Days("expected")

\* No history keeps more than the window and the one day that ends where it begins, however
\* long the pauses: README.md:100-102, a cache of 13 months that "rolls forward".
WindowOnly ==
  fresh => \A k \in Metric : \A d \in Days(k) : InWindow(d) \/ InWindow(d + 1)

\* What is stored, shown and imported as measured consumption came from the usage series:
\* README.md, "Expected values are shown as portal reference data; they are not treated as
\* measured consumption".
MeasuredIsUsage == history["actual"]["budget"] = {}
=============================================================================
