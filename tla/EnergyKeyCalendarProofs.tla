------------------------ MODULE EnergyKeyCalendarProofs ------------------------
(***************************************************************************)
(* Theorems about EnergyKeyCalendar, for every length of the window, every *)
(* recent window, every base year and every history of pauses.             *)
(***************************************************************************)
EXTENDS EnergyKeyCalendar, WellFoundedInduction, TLAPS

-----------------------------------------------------------------------------
(* Months in a row *)

\* A set of natural numbers that is not empty has a least element.
LEMMA LeastOf ==
  ASSUME NEW T \in SUBSET Nat, T # {}
  PROVE  \E x \in T : \A y \in T : x <= y
<1>1. PICK x \in T : \A y \in T : <<y, x>> \notin OpToRel(<, Nat)
  BY NatLessThanWellFounded, WFMin
<1>2. \A y \in T : ~(y < x)
  BY <1>1 DEF OpToRel
<1> QED BY <1>2

\* The month i after the one the days are counted from, and its first day.
Nth(i) == <<BaseYear + (i \div 12), (i % 12) + 1>>
FirstOf(i) == First(Nth(i))

\* A leap year has one day more, in every century.
LEMMA YearLeaps ==
  ASSUME NEW y \in Int
  PROVE  /\ LeapsBefore(y) \in Int
         /\ LeapsBefore(y + 1) = LeapsBefore(y) + IF Leap(y) THEN 1 ELSE 0
<1>1. (y \div 4) = ((y - 1) \div 4) + IF y % 4 = 0 THEN 1 ELSE 0
  OBVIOUS
<1>2. (y \div 100) = ((y - 1) \div 100) + IF y % 100 = 0 THEN 1 ELSE 0
  OBVIOUS
<1>3. (y \div 400) = ((y - 1) \div 400) + IF y % 400 = 0 THEN 1 ELSE 0
  OBVIOUS
<1>4. (y % 400 = 0 => y % 100 = 0) /\ (y % 100 = 0 => y % 4 = 0)
  OBVIOUS
<1>5. (y + 1) - 1 = y
  OBVIOUS
<1> QED BY <1>1, <1>2, <1>3, <1>4, <1>5 DEF LeapsBefore, Leap

\* The months follow each other without a day between them, and have 28 to 31 days.
LEMMA MonthsFollow ==
  ASSUME NEW i \in Int
  PROVE  /\ FirstOf(i) \in Int
         /\ Length(Nth(i)) \in 28 .. 31
         /\ FirstOf(i + 1) = FirstOf(i) + Length(Nth(i))
<1> DEFINE y == BaseYear + (i \div 12)
           r == i % 12
<1>1. BaseYear \in Int /\ y \in Int /\ r \in 0 .. 11 /\ y + 1 \in Int
  BY CalendarAssumption
<1>2. Nth(i) = <<y, r + 1>>
  BY DEF Nth
<1>3. Nth(i + 1) = IF r = 11 THEN <<y + 1, 1>> ELSE <<y, r + 2>>
  <2>1. CASE r = 11
    <3>1. (i + 1) % 12 = 0 /\ (i + 1) \div 12 = (i \div 12) + 1
      BY <2>1
    <3> QED BY <2>1, <3>1, CalendarAssumption DEF Nth
  <2>2. CASE r # 11
    <3>1. (i + 1) % 12 = r + 1 /\ (i + 1) \div 12 = i \div 12
      BY <2>2
    <3> QED BY <2>2, <3>1 DEF Nth
  <2> QED BY <2>1, <2>2
<1> DEFINE year(z) == 365 * (z - BaseYear) + LeapsBefore(z) - LeapsBefore(BaseYear)
           leap == IF Leap(y) THEN 1 ELSE 0
<1>4. year(y) \in Int /\ year(y + 1) = year(y) + 365 + leap
  <2>1. LeapsBefore(BaseYear) \in Int /\ LeapsBefore(y) \in Int
        /\ LeapsBefore(y + 1) = LeapsBefore(y) + leap
    BY <1>1, YearLeaps
  <2> HIDE DEF y
  <2> QED BY <1>1, <2>1
<1> DEFINE before(n) == <<0, 31, 59, 90, 120, 151, 181, 212, 243, 273, 304, 334>>[n]
<1>5. /\ before(1) = 0 /\ before(2) = 31 /\ before(3) = 59 /\ before(4) = 90
      /\ before(5) = 120 /\ before(6) = 151 /\ before(7) = 181 /\ before(8) = 212
      /\ before(9) = 243 /\ before(10) = 273 /\ before(11) = 304 /\ before(12) = 334
  OBVIOUS
<1>6. ASSUME NEW z \in Int, NEW n \in 1 .. 12
      PROVE  First(<<z, n>>) = year(z) + before(n) + (IF n > 2 /\ Leap(z) THEN 1 ELSE 0)
  BY DEF First
<1>7. ASSUME NEW n \in 1 .. 12
      PROVE  Length(<<y, n>>) = IF n = 2 THEN 28 + leap ELSE IF n \in {4, 6, 9, 11} THEN 30 ELSE 31
  BY DEF Length
<1> HIDE DEF y, r, year, before
<1>8. FirstOf(i) = year(y) + before(r + 1) + (IF r + 1 > 2 /\ Leap(y) THEN 1 ELSE 0)
  <2>1. FirstOf(i) = First(<<y, r + 1>>)
    BY <1>2 DEF FirstOf
  <2>2. r + 1 \in 1 .. 12
    BY <1>1
  <2> QED BY <1>1, <1>6, <2>1, <2>2
<1>9. Length(Nth(i)) = IF r + 1 = 2 THEN 28 + leap ELSE IF r + 1 \in {4, 6, 9, 11} THEN 30 ELSE 31
  BY <1>1, <1>2, <1>7
<1>10. CASE r = 11
  <2>1. FirstOf(i + 1) = year(y + 1) + before(1)
    <3>1. FirstOf(i + 1) = First(<<y + 1, 1>>)
      BY <1>3, <1>10 DEF FirstOf
    <3>2. 1 \in 1 .. 12 /\ ~(1 > 2)
      OBVIOUS
    <3>3. First(<<y + 1, 1>>) = year(y + 1) + before(1) + 0
      BY <1>1, <1>6, <3>2
    <3> QED BY <1>4, <1>5, <3>1, <3>3
  <2> QED BY <1>4, <1>5, <1>8, <1>9, <1>10, <2>1
<1>11. CASE r \in 0 .. 10
  <2>1. FirstOf(i + 1) = year(y) + before(r + 2) + (IF r + 2 > 2 /\ Leap(y) THEN 1 ELSE 0)
    <3>1. FirstOf(i + 1) = First(<<y, r + 2>>)
      BY <1>1, <1>3, <1>11 DEF FirstOf
    <3>2. r + 2 \in 1 .. 12
      BY <1>11
    <3> QED BY <1>1, <1>6, <3>1, <3>2
  <2>2. CASE r = 0
    BY <1>4, <1>5, <1>8, <1>9, <2>1, <2>2
  <2>3. CASE r = 1
    BY <1>4, <1>5, <1>8, <1>9, <2>1, <2>3
  <2>4. CASE r = 2
    BY <1>4, <1>5, <1>8, <1>9, <2>1, <2>4
  <2>5. CASE r = 3
    BY <1>4, <1>5, <1>8, <1>9, <2>1, <2>5
  <2>6. CASE r = 4
    BY <1>4, <1>5, <1>8, <1>9, <2>1, <2>6
  <2>7. CASE r = 5
    BY <1>4, <1>5, <1>8, <1>9, <2>1, <2>7
  <2>8. CASE r = 6
    BY <1>4, <1>5, <1>8, <1>9, <2>1, <2>8
  <2>9. CASE r = 7
    BY <1>4, <1>5, <1>8, <1>9, <2>1, <2>9
  <2>10. CASE r = 8
    BY <1>4, <1>5, <1>8, <1>9, <2>1, <2>10
  <2>11. CASE r = 9
    BY <1>4, <1>5, <1>8, <1>9, <2>1, <2>11
  <2>12. CASE r = 10
    BY <1>4, <1>5, <1>8, <1>9, <2>1, <2>12
  <2> QED BY <1>11, <2>2, <2>3, <2>4, <2>5, <2>6, <2>7, <2>8, <2>9, <2>10, <2>11, <2>12
<1> QED BY <1>1, <1>10, <1>11

\* The days are counted from the first month.
LEMMA FirstDayZero == FirstOf(0) = 0
<1>1. 0 \div 12 = 0 /\ 0 % 12 = 0 /\ BaseYear \in Int
  BY CalendarAssumption
<1>2. Nth(0) = <<BaseYear, 1>>
  BY <1>1 DEF Nth
<1>3. LeapsBefore(BaseYear) \in Int
  BY <1>1, YearLeaps
<1> QED BY <1>1, <1>2, <1>3 DEF FirstOf, First

\* i months have between 28 * i and 31 * i days.
LEMMA MonthsBounds ==
  ASSUME NEW i \in Nat
  PROVE  FirstOf(i) \in 28 * i .. 31 * i
<1> DEFINE T == {j \in Nat : FirstOf(j) \notin 28 * j .. 31 * j}
<1>1. ASSUME T # {}
      PROVE  FALSE
  <2>1. PICK j \in T : \A h \in T : j <= h
    BY <1>1, LeastOf
  <2>2. j # 0
    BY <2>1, FirstDayZero
  <2>3. j - 1 \in Nat /\ j - 1 \notin T
    BY <2>1, <2>2
  <2>4. FirstOf(j - 1) \in 28 * (j - 1) .. 31 * (j - 1)
    BY <2>3
  <2>5. FirstOf(j) = FirstOf(j - 1) + Length(Nth(j - 1)) /\ Length(Nth(j - 1)) \in 28 .. 31
    <3>1. (j - 1) + 1 = j /\ j - 1 \in Int
      BY <2>1
    <3> QED BY <3>1, MonthsFollow
  <2>6. FirstOf(j) \in 28 * j .. 31 * j
    BY <2>1, <2>4, <2>5
  <2> QED BY <2>1, <2>6
<1> QED BY <1>1

\* A month begins after every earlier one has ended.
LEMMA MonthsOrdered ==
  ASSUME NEW i \in Nat, NEW j \in Nat, i < j
  PROVE  FirstOf(i + 1) <= FirstOf(j)
<1> DEFINE T == {h \in Nat : i < h /\ ~(FirstOf(i + 1) <= FirstOf(h))}
<1>1. ASSUME T # {}
      PROVE  FALSE
  <2>1. PICK h \in T : \A g \in T : h <= g
    BY <1>1, LeastOf
  <2>2. FirstOf(i + 1) \in Int
    BY MonthsFollow
  <2>3. h # i + 1 /\ i < h
    BY <2>1, <2>2
  <2>4. h - 1 \in Nat /\ i < h - 1 /\ h - 1 \notin T /\ (h - 1) + 1 = h
    BY <2>1, <2>3
  <2>5. FirstOf(i + 1) <= FirstOf(h - 1)
    BY <2>4
  <2>6. FirstOf(h - 1) \in Int /\ FirstOf(h) = FirstOf(h - 1) + Length(Nth(h - 1))
        /\ Length(Nth(h - 1)) \in 28 .. 31
    BY <2>4, MonthsFollow
  <2> HIDE DEF T
  <2>7. FirstOf(i + 1) <= FirstOf(h)
    BY <2>2, <2>5, <2>6
  <2> QED BY <2>1, <2>7 DEF T
<1> QED BY <1>1

-----------------------------------------------------------------------------
(* The month of a day *)

IndexOf(day) == CHOOSE i \in Nat : FirstOf(i) <= day /\ day < FirstOf(i + 1)

\* Every day lies in a month.
LEMMA DayInMonth ==
  ASSUME NEW d \in Nat
  PROVE  /\ IndexOf(d) \in Nat
         /\ FirstOf(IndexOf(d)) \in Int /\ FirstOf(IndexOf(d) + 1) \in Int
         /\ FirstOf(IndexOf(d)) <= d /\ d < FirstOf(IndexOf(d) + 1)
<1> DEFINE T == {i \in Nat : d < FirstOf(i + 1)}
<1>1. d \in T
  <2>1. d + 1 \in Nat
    OBVIOUS
  <2>2. FirstOf(d + 1) \in 28 * (d + 1) .. 31 * (d + 1)
    BY <2>1, MonthsBounds
  <2> QED BY <2>2
<1>2. PICK i \in T : \A j \in T : i <= j
  BY <1>1, LeastOf
<1>3. FirstOf(i) \in Int /\ FirstOf(i + 1) \in Int
  <2>1. i \in Int /\ i + 1 \in Int
    BY <1>2
  <2> QED BY <2>1, MonthsFollow
<1>4. FirstOf(i) <= d
  <2>1. CASE i = 0
    BY <2>1, FirstDayZero
  <2>2. CASE i # 0
    <3>1. i - 1 \in Nat /\ i - 1 \notin T /\ (i - 1) + 1 = i
      BY <1>2, <2>2
    <3>2. ~(d < FirstOf(i))
      BY <3>1
    <3> HIDE DEF T
    <3> QED BY <1>3, <3>2
  <2> QED BY <2>1, <2>2
<1>5. \E j \in Nat : FirstOf(j) <= d /\ d < FirstOf(j + 1)
  BY <1>2, <1>4
<1>6. IndexOf(d) \in Nat /\ FirstOf(IndexOf(d)) <= d /\ d < FirstOf(IndexOf(d) + 1)
  BY <1>5 DEF IndexOf
<1>7. IndexOf(d) \in Int /\ IndexOf(d) + 1 \in Int
  BY <1>6
<1> QED BY <1>6, <1>7, MonthsFollow

\* And in only one.
LEMMA DayInOneMonth ==
  ASSUME NEW d \in Nat, NEW i \in Nat, FirstOf(i) <= d, d < FirstOf(i + 1)
  PROVE  IndexOf(d) = i
<1> DEFINE j == IndexOf(d)
<1>1. j \in Nat /\ FirstOf(j) <= d /\ d < FirstOf(j + 1)
  BY DayInMonth
<1> HIDE DEF j
<1>2. /\ FirstOf(i) \in Int /\ FirstOf(j) \in Int
      /\ FirstOf(i + 1) \in Int /\ FirstOf(j + 1) \in Int
  <2>1. i \in Int /\ j \in Int /\ i + 1 \in Int /\ j + 1 \in Int
    BY <1>1
  <2> QED BY <2>1, MonthsFollow
<1>3. ASSUME i < j PROVE FALSE
  BY <1>1, <1>2, <1>3, MonthsOrdered
<1>4. ASSUME j < i PROVE FALSE
  BY <1>1, <1>2, <1>4, MonthsOrdered
<1>5. j = i
  BY <1>1, <1>3, <1>4
<1> QED BY <1>5 DEF j

\* A later day lies in the same month or a later one.
LEMMA IndexOrdered ==
  ASSUME NEW c \in Nat, NEW d \in Nat, c <= d
  PROVE  IndexOf(c) <= IndexOf(d)
<1> DEFINE i == IndexOf(c)
           j == IndexOf(d)
<1>1. i \in Nat /\ FirstOf(i) <= c /\ FirstOf(i) \in Int
  BY DayInMonth
<1>2. j \in Nat /\ d < FirstOf(j + 1) /\ FirstOf(j + 1) \in Int
  BY DayInMonth
<1> HIDE DEF i, j
<1>3. ASSUME j < i PROVE FALSE
  <2>1. FirstOf(j + 1) <= FirstOf(i)
    BY <1>1, <1>2, <1>3, MonthsOrdered
  <2> QED BY <1>1, <1>2, <2>1
<1>4. i <= j
  BY <1>1, <1>2, <1>3
<1> QED BY <1>4 DEF i, j

\* A month is numbered by its year and its place in it.
LEMMA NthNumber ==
  ASSUME NEW i \in Int
  PROVE  /\ Nth(i)[1] \in Int /\ Nth(i)[2] \in 1 .. 12
         /\ 12 * Nth(i)[1] + Nth(i)[2] - 1 = 12 * BaseYear + i
<1>1. BaseYear \in Int
  BY CalendarAssumption
<1>2. Nth(i)[1] = BaseYear + (i \div 12) /\ Nth(i)[2] = (i % 12) + 1
  BY DEF Nth
<1>3. i \div 12 \in Int /\ i % 12 \in 0 .. 11 /\ 12 * (i \div 12) + (i % 12) = i
  OBVIOUS
<1> QED BY <1>1, <1>2, <1>3

\* Months are counted across the turn of a year.
LEMMA Shifted ==
  ASSUME NEW i \in Int, NEW n \in Int
  PROVE  ShiftMonths(Nth(i), n) = Nth(i + n)
<1> DEFINE a == Nth(i)[1] * 12 + Nth(i)[2] - 1 + n
<1>1. a = 12 * BaseYear + (i + n) /\ BaseYear \in Int
  BY NthNumber, CalendarAssumption
<1>2. a \div 12 = BaseYear + ((i + n) \div 12) /\ a % 12 = (i + n) % 12
  <2> HIDE DEF a
  <2> QED BY <1>1
<1>3. ShiftMonths(Nth(i), n) = <<a \div 12, (a % 12) + 1>>
  BY DEF ShiftMonths
<1> HIDE DEF a
<1> QED BY <1>2, <1>3 DEF Nth

\* MonthOf finds the month of every day among the few that it tries.
LEMMA MonthOfDay ==
  ASSUME NEW d \in Nat
  PROVE  MonthOf(d) = Nth(IndexOf(d))
<1> DEFINE tried == (d \div 31) .. (d \div 28)
           months == {Nth(i) : i \in tried}
           holds(month) == d - First(month) \in 0 .. Length(month) - 1
<1>1. MonthOf(d) = CHOOSE month \in months : holds(month)
  BY DEF MonthOf, Nth
<1>2. ASSUME NEW i \in Nat
      PROVE  holds(Nth(i)) <=> FirstOf(i) <= d /\ d < FirstOf(i + 1)
  <2>1. FirstOf(i) \in Int /\ Length(Nth(i)) \in 28 .. 31 /\ FirstOf(i + 1) = FirstOf(i) + Length(Nth(i))
    BY MonthsFollow
  <2>2. First(Nth(i)) = FirstOf(i)
    BY DEF FirstOf
  <2> QED BY <2>1, <2>2
<1> DEFINE j == IndexOf(d)
<1>3. j \in Nat /\ FirstOf(j) <= d /\ d < FirstOf(j + 1)
  BY DayInMonth
<1> HIDE DEF j
<1>4. j \in tried
  <2>1. FirstOf(j) \in 28 * j .. 31 * j
    BY <1>3, MonthsBounds
  <2>2. FirstOf(j + 1) \in 28 * (j + 1) .. 31 * (j + 1)
    <3>1. j + 1 \in Nat
      BY <1>3
    <3> QED BY <3>1, MonthsBounds
  <2> QED BY <1>3, <2>1, <2>2
<1>5. Nth(j) \in months /\ holds(Nth(j))
  <2>1. holds(Nth(j))
    BY <1>2, <1>3
  <2> HIDE DEF tried
  <2> QED BY <1>4, <2>1
<1>6. ASSUME NEW month \in months, holds(month)
      PROVE  month = Nth(j)
  <2>1. PICK i \in tried : month = Nth(i)
    OBVIOUS
  <2>2. i \in Nat
    BY <2>1
  <2>3. FirstOf(i) <= d /\ d < FirstOf(i + 1)
    BY <1>2, <1>6, <2>1, <2>2
  <2>4. IndexOf(d) = i
    BY <2>2, <2>3, DayInOneMonth
  <2> QED BY <2>1, <2>4 DEF j
<1> HIDE DEF months, holds
<1>7. MonthOf(d) = Nth(j)
  BY <1>1, <1>5, <1>6
<1> QED BY <1>7 DEF j

\* Two days have the same month exactly when they lie in the same one of the row.
LEMMA SameMonth ==
  ASSUME NEW c \in Nat, NEW i \in Nat
  PROVE  MonthOf(c) = Nth(i) <=> IndexOf(c) = i
<1>1. IndexOf(c) \in Int /\ i \in Int
  BY DayInMonth
<1>2. MonthOf(c) = Nth(IndexOf(c))
  BY MonthOfDay
<1>3. BaseYear \in Int
  BY CalendarAssumption
<1>4. 12 * Nth(IndexOf(c))[1] + Nth(IndexOf(c))[2] - 1 = 12 * BaseYear + IndexOf(c)
  BY <1>1, NthNumber
<1>5. 12 * Nth(i)[1] + Nth(i)[2] - 1 = 12 * BaseYear + i
  BY <1>1, NthNumber
<1>6. CASE Nth(IndexOf(c)) = Nth(i)
  <2>1. 12 * BaseYear + IndexOf(c) = 12 * BaseYear + i
    BY <1>4, <1>5, <1>6
  <2> QED BY <1>1, <1>2, <1>3, <2>1
<1>7. CASE Nth(IndexOf(c)) # Nth(i)
  BY <1>2, <1>7
<1> QED BY <1>6, <1>7

-----------------------------------------------------------------------------
(* The window *)

\* The months between two days are those between their places in the row.
LEMMA MonthsBetween ==
  ASSUME NEW c \in Nat, NEW d \in Nat
  PROVE  LET now == MonthOf(c) then == MonthOf(d)
         IN  12 * (now[1] - then[1]) + now[2] - then[2] = IndexOf(c) - IndexOf(d)
<1> DEFINE i == IndexOf(c)
           j == IndexOf(d)
<1>1. i \in Int /\ j \in Int
  BY DayInMonth
<1>2. MonthOf(c) = Nth(i) /\ MonthOf(d) = Nth(j)
  BY MonthOfDay
<1> HIDE DEF i, j
<1>3. /\ Nth(i)[1] \in Int /\ Nth(i)[2] \in Int /\ 12 * Nth(i)[1] + Nth(i)[2] - 1 = 12 * BaseYear + i
      /\ Nth(j)[1] \in Int /\ Nth(j)[2] \in Int /\ 12 * Nth(j)[1] + Nth(j)[2] - 1 = 12 * BaseYear + j
  BY <1>1, NthNumber
<1>4. BaseYear \in Int
  BY CalendarAssumption
<1>5. 12 * (Nth(i)[1] - Nth(j)[1]) + Nth(i)[2] - Nth(j)[2] = i - j
  BY <1>1, <1>3, <1>4
<1> QED BY <1>2, <1>5 DEF i, j

\* So is the window: the months of its days are the HistoryMonths up to today's.
LEMMA InWindowIndex ==
  ASSUME today \in Nat, NEW d \in Nat
  PROVE  InWindow(d) <=> IndexOf(today) - IndexOf(d) \in 0 .. HistoryMonths - 1
BY MonthsBetween DEF InWindow

\* A refresh is never so early that its window begins before the days are counted.
Settled == today \in Nat /\ 31 * HistoryMonths <= today

StartIndex == IndexOf(today) - (HistoryMonths - 1)

\* The window begins with a month, later than the day the days are counted from.
LEMMA WindowStart ==
  ASSUME Settled
  PROVE  /\ StartIndex \in Nat /\ StartMonth = Nth(StartIndex) /\ HistoryStart = FirstOf(StartIndex)
         /\ HistoryStart \in 28 .. today
<1> DEFINE i == IndexOf(today)
           H == HistoryMonths
<1>1. H \in Nat \ {0} /\ today \in Nat
  BY CalendarAssumption DEF Settled
<1>2. i \in Nat /\ FirstOf(i) <= today /\ today < FirstOf(i + 1) /\ FirstOf(i) \in Int
  BY <1>1, DayInMonth
<1>3. MonthOf(today) = Nth(i)
  BY <1>1, MonthOfDay
<1> HIDE DEF i
<1>4. H <= i
  <2>1. FirstOf(i + 1) \in 28 * (i + 1) .. 31 * (i + 1)
    <3>1. i + 1 \in Nat
      BY <1>2
    <3> QED BY <3>1, MonthsBounds
  <2> QED BY <1>1, <1>2, <2>1 DEF Settled
<1> DEFINE w == i - (H - 1)
<1>5. w \in Nat \ {0} /\ w <= i
  BY <1>1, <1>2, <1>4
<1>6. StartMonth = Nth(w)
  <2>1. -(H - 1) \in Int /\ i \in Int /\ i + (-(H - 1)) = w
    BY <1>1, <1>2
  <2>2. ShiftMonths(Nth(i), -(H - 1)) = Nth(w)
    BY <2>1, Shifted
  <2> QED BY <1>3, <2>2 DEF StartMonth
<1>7. FirstOf(w) \in Int /\ FirstOf(w) >= 28 /\ FirstOf(w) <= today
  <2>1. FirstOf(w) \in 28 * w .. 31 * w
    BY <1>5, MonthsBounds
  <2>2. CASE w = i
    BY <1>2, <1>5, <2>1, <2>2
  <2>3. CASE w < i
    <3>1. FirstOf(w + 1) <= FirstOf(i)
      BY <1>2, <1>5, <2>3, MonthsOrdered
    <3>2. FirstOf(w + 1) = FirstOf(w) + Length(Nth(w)) /\ Length(Nth(w)) \in 28 .. 31
      <4>1. w \in Int
        BY <1>5
      <4> QED BY <4>1, MonthsFollow
    <3> HIDE DEF w
    <3> QED BY <1>1, <1>2, <1>5, <2>1, <3>1, <3>2
  <2> HIDE DEF w
  <2> QED BY <1>2, <1>5, <2>2, <2>3
<1>8. w = StartIndex
  BY DEF i, StartIndex
<1>9. HistoryStart = FirstOf(w)
  BY <1>6 DEF HistoryStart, FirstOf
<1> HIDE DEF w
<1> QED BY <1>1, <1>5, <1>6, <1>7, <1>8, <1>9

\* The days of the window are those from its beginning on.
LEMMA InWindowStart ==
  ASSUME Settled, NEW d \in 0 .. today
  PROVE  InWindow(d) <=> HistoryStart <= d
<1> DEFINE i == IndexOf(today)
           j == IndexOf(d)
           w == StartIndex
<1>1. today \in Nat /\ d \in Nat /\ d <= today /\ HistoryMonths \in Nat
  BY CalendarAssumption DEF Settled
<1>2. w \in Nat /\ w = i - (HistoryMonths - 1) /\ HistoryStart = FirstOf(w) /\ HistoryStart \in 28 .. today
  BY WindowStart DEF StartIndex
<1>3. InWindow(d) <=> i - j \in 0 .. HistoryMonths - 1
  BY <1>1, InWindowIndex
<1>4. i \in Nat /\ j \in Nat /\ j <= i /\ FirstOf(j) <= d /\ FirstOf(j) \in Int
  BY <1>1, DayInMonth, IndexOrdered
<1>5. FirstOf(w) \in Nat
  BY <1>1, <1>2
<1>6. FirstOf(w) < FirstOf(w + 1) /\ FirstOf(w + 1) \in Int
  <2>1. FirstOf(w + 1) = FirstOf(w) + Length(Nth(w)) /\ Length(Nth(w)) \in 28 .. 31
    BY <1>2, MonthsFollow
  <2> QED BY <1>5, <2>1
<1>7. IndexOf(FirstOf(w)) = w
  BY <1>2, <1>5, <1>6, DayInOneMonth
<1>8. HistoryStart <= d => w <= j
  BY <1>1, <1>2, <1>5, <1>7, IndexOrdered
<1> HIDE DEF i, j, w
<1>9. w < j => FirstOf(w + 1) <= FirstOf(j)
  BY <1>2, <1>4, MonthsOrdered
<1>10. w <= j => HistoryStart <= d
  BY <1>1, <1>2, <1>4, <1>5, <1>6, <1>9
<1> QED BY <1>1, <1>2, <1>3, <1>4, <1>8, <1>10

-----------------------------------------------------------------------------
(* What a refresh asks for *)

\* No request goes past tomorrow's midnight.
LEMMA WindowsEnd ==
  ASSUME Settled, NEW histories, NEW w \in Windows(histories)
  PROVE  w[1] \in Int /\ w[2] \in Int /\ w[2] <= today + 1
<1> DEFINE monthSets == {{MonthOf(d) : d \in days} : days \in histories}
           months == {ShiftMonths(StartMonth, n) : n \in 0 .. HistoryMonths - 1}
           missing == {m \in months : First(m) < RecentStart /\ \E set \in monthSets : m \notin set}
           next(m) == First(ShiftMonths(m, 1))
<1>1. PICK m \in missing : w = <<First(m), IF next(m) < today + 1 THEN next(m) ELSE today + 1>>
  BY DEF Windows
<1>2. PICK n \in 0 .. HistoryMonths - 1 : m = ShiftMonths(StartMonth, n)
  OBVIOUS
<1> HIDE DEF missing
<1> DEFINE i == StartIndex + n
<1>3. StartIndex \in Int /\ n \in Int /\ i \in Int /\ 1 \in Int
  BY WindowStart
<1>4. m = Nth(i)
  BY <1>2, <1>3, WindowStart, Shifted
<1> HIDE DEF i
<1>5. next(m) = FirstOf(i + 1) /\ First(m) = FirstOf(i)
  BY <1>3, <1>4, Shifted DEF FirstOf
<1>6. FirstOf(i) \in Int /\ FirstOf(i + 1) \in Int
  <2>1. i + 1 \in Int
    BY <1>3
  <2> QED BY <1>3, <2>1, MonthsFollow
<1>7. today \in Int
  BY DEF Settled
<1> QED BY <1>1, <1>5, <1>6, <1>7

\* A day of the window before the recent window is asked for when some history has no point
\* in its month.
LEMMA WindowsCover ==
  ASSUME Settled, NEW histories, NEW days \in histories, NEW d \in Nat,
         HistoryStart <= d, d < RecentStart,
         \A e \in days : e \in Nat /\ IndexOf(e) # IndexOf(d)
  PROVE  \E w \in Windows(histories) : d \in w[1] .. w[2] - 1
<1> DEFINE monthSets == {{MonthOf(e) : e \in h} : h \in histories}
           months == {ShiftMonths(StartMonth, n) : n \in 0 .. HistoryMonths - 1}
           missing == {m \in months : First(m) < RecentStart /\ \E set \in monthSets : m \notin set}
           next(m) == First(ShiftMonths(m, 1))
           j == IndexOf(d)
           m == Nth(j)
<1>1. today \in Nat /\ RecentStart \in Int /\ RecentStart <= today /\ HistoryMonths \in Nat \ {0}
  BY CalendarAssumption DEF Settled, RecentStart
<1>2. j \in Nat /\ FirstOf(j) <= d /\ d < FirstOf(j + 1) /\ FirstOf(j) \in Int /\ FirstOf(j + 1) \in Int
  BY DayInMonth
<1>3. StartIndex \in Nat /\ StartMonth = Nth(StartIndex) /\ StartIndex = IndexOf(today) - (HistoryMonths - 1)
  BY WindowStart DEF StartIndex
<1>4. j - StartIndex \in 0 .. HistoryMonths - 1
  <2>1. d \in 0 .. today
    BY <1>1
  <2>2. IndexOf(today) - j \in 0 .. HistoryMonths - 1
    BY <1>1, <2>1, InWindowStart, InWindowIndex
  <2>3. IndexOf(today) \in Nat
    BY <1>1, DayInMonth
  <2> HIDE DEF j
  <2> QED BY <1>1, <1>2, <1>3, <2>2, <2>3
<1>5. m \in months
  <2>1. ShiftMonths(StartMonth, j - StartIndex) = Nth(j)
    <3>1. StartIndex \in Int /\ j - StartIndex \in Int /\ StartIndex + (j - StartIndex) = j
      BY <1>2, <1>3
    <3> QED BY <1>3, <3>1, Shifted
  <2> QED BY <1>4, <2>1
<1>6. First(m) < RecentStart
  BY <1>1, <1>2 DEF FirstOf
<1>7. m \notin {MonthOf(e) : e \in days}
  BY <1>2, SameMonth
<1>8. m \in missing
  <2>1. {MonthOf(e) : e \in days} \in monthSets
    OBVIOUS
  <2> HIDE DEF months, m, monthSets
  <2> QED BY <1>5, <1>6, <1>7, <2>1
<1> DEFINE w == <<First(m), IF next(m) < today + 1 THEN next(m) ELSE today + 1>>
<1>9. w \in Windows(histories)
  BY <1>8 DEF Windows
<1>10. next(m) = FirstOf(j + 1) /\ First(m) = FirstOf(j)
  <2>1. j \in Int /\ 1 \in Int
    BY <1>2
  <2> QED BY <2>1, Shifted DEF FirstOf
<1>11. d \in First(m) .. (IF next(m) < today + 1 THEN next(m) ELSE today + 1) - 1
  <2> HIDE DEF j, m, next
  <2> QED BY <1>1, <1>2, <1>10
<1> QED BY <1>9, <1>11

\* The series a metric is meant to come from.
Own(metric) == IF metric = "actual" THEN "usage" ELSE "budget"

\* An answer has a series when the portal has a point of it before the end of the request.
LEMMA AnswerSeries ==
  ASSUME NEW w, NEW s
  PROVE  /\ s \in DOMAIN Answer(w) <=> s \in Series /\ begin[s] < w[2]
         /\ s \in DOMAIN Answer(w) => Answer(w)[s] = {d \in w[1] .. w[2] - 1 : begin[s] <= d}
BY DEF Answer

\* A metric is taken from a series of the answer; measured consumption is taken from the
\* budget, and expected consumption from the usage, only as far as the answer decides it.
LEMMA SeriesTaken ==
  ASSUME NEW metric \in Metric, NEW w
  PROVE  /\ SeriesFor(metric, Answer(w)) \subseteq DOMAIN Answer(w)
         /\ Own(metric) \in DOMAIN Answer(w) => SeriesFor(metric, Answer(w)) = {Own(metric)}
         /\ metric = "expected" => "usage" \notin SeriesFor(metric, Answer(w))
         /\ "budget" \in SeriesFor("actual", Answer(w)) => "usage" \notin DOMAIN Answer(w)
BY DEF SeriesFor, UsageSeries, BudgetSeries, Own, Metric

\* A request for a day fetches it for a metric whose series the portal has from then on.
LEMMA DayFetched ==
  ASSUME NEW metric \in Metric, NEW w, w[1] \in Int, w[2] \in Int, begin \in [Series -> Int],
         NEW d \in w[1] .. w[2] - 1, begin[Own(metric)] <= d
  PROVE  /\ Own(metric) \in SeriesFor(metric, Answer(w))
         /\ d \in Answer(w)[Own(metric)]
<1>1. Own(metric) \in Series
  BY DEF Own, Series
<1>2. begin[Own(metric)] < w[2]
  BY <1>1
<1> QED BY <1>1, <1>2, AnswerSeries, SeriesTaken

-----------------------------------------------------------------------------
(* The merge *)

\* Days of a series that answers have of it for a metric.
Fetched(metric, answers, s) == UNION {a[s] : a \in {a \in answers : s \in SeriesFor(metric, a)}}

\* A merge keeps what was stored and adds what was fetched, as far as it ends in the window.
LEMMA MergeDays ==
  ASSUME NEW metric \in Metric, NEW answers, NEW s \in Series, NEW d
  PROVE  d \in Merge(metric, answers)[s] <=>
           /\ d + 1 >= HistoryStart
           /\ \/ d \in Fetched(metric, answers, s)
              \/ /\ d \in history[metric][s]
                 /\ d \notin Fetched(metric, answers, "usage")
                 /\ d \notin Fetched(metric, answers, "budget")
BY DEF Merge, Fetched

RecentAnswer == Answer(RecentWindow)
Available == {k \in Metric : SeriesFor(k, RecentAnswer) # {}}
Answers == {RecentAnswer} \cup {Answer(w) : w \in Windows({Days(k) : k \in Available})}

\* A refresh merges the recent answer and those to the chunks.
LEMMA RefreshParts ==
  ASSUME Refresh
  PROVE  /\ ~fresh /\ fresh' = TRUE /\ UNCHANGED <<today, begin, missed>>
         /\ "actual" \in Available
         /\ \A k \in Metric \ Available : Days(k) = {}
         /\ history' = [k \in Metric |-> IF k \in Available THEN Merge(k, Answers) ELSE NoHistory]
BY DEF Refresh, Available, Answers, RecentAnswer

CalendarType ==
  /\ TypeOK
  /\ history \in [Metric -> [Series -> SUBSET Nat]]
  /\ Settled

\* The days of a metric are those of its two series.
LEMMA DaysOf ==
  ASSUME NEW metric \in Metric, NEW d
  PROVE  d \in Days(metric) <=> d \in history[metric]["usage"] \/ d \in history[metric]["budget"]
BY DEF Days, Series

\* Whatever is fetched is a day up to today, from which on the portal has the series; a metric
\* falls back on the other series only where the portal has no point yet of its own.
LEMMA FetchedDays ==
  ASSUME CalendarType, NEW metric \in Metric, NEW s \in Series, NEW d \in Fetched(metric, Answers, s)
  PROVE  /\ d \in Int /\ d <= today
         /\ s = "usage" => metric = "actual" /\ begin["usage"] <= d
         /\ s = "budget" /\ metric = "actual" => d < begin["usage"]
<1>1. PICK a \in Answers : s \in SeriesFor(metric, a) /\ d \in a[s]
  BY DEF Fetched
<1>2. today \in Nat /\ RecentDays \in Nat /\ begin \in [Series -> Int] /\ "usage" \in Series
  BY CalendarAssumption DEF CalendarType, Settled, TypeOK, Series
<1>3. PICK w : a = Answer(w) /\ w[1] \in Int /\ w[2] \in Int /\ w[2] <= today + 1
  <2>1. CASE a = RecentAnswer
    <3>1. RecentWindow[1] \in Int /\ RecentWindow[2] \in Int /\ RecentWindow[2] <= today + 1
      BY <1>2 DEF RecentWindow, RecentStart
    <3> QED BY <2>1, <3>1 DEF RecentAnswer
  <2>2. CASE a # RecentAnswer
    <3>1. PICK w \in Windows({Days(k) : k \in Available}) : a = Answer(w)
      BY <2>2 DEF Answers
    <3> QED BY <3>1, WindowsEnd DEF CalendarType
  <2> QED BY <2>1, <2>2
<1>4. s \in DOMAIN a
  BY <1>1, <1>3, SeriesTaken
<1>5. d \in w[1] .. w[2] - 1 /\ begin[s] <= d
  BY <1>1, <1>3, <1>4, AnswerSeries
<1>6. s = "usage" => metric = "actual"
  BY <1>1, <1>3, SeriesTaken DEF Metric
<1>7. ASSUME s = "budget", metric = "actual"
      PROVE  d < begin["usage"]
  <2>1. ~(begin["usage"] < w[2])
    BY <1>1, <1>2, <1>3, <1>7, SeriesTaken, AnswerSeries
  <2>2. begin["usage"] \in Int
    BY <1>2
  <2> QED BY <1>3, <1>5, <2>1, <2>2
<1> QED BY <1>2, <1>3, <1>5, <1>6, <1>7

\* A refresh stores days of the window up to today, and each of them once.
LEMMA RefreshType ==
  ASSUME CalendarType, Refresh
  PROVE  CalendarType'
<1>1. today \in Nat /\ begin \in [Series -> Int] /\ HistoryStart \in 28 .. today
  BY WindowStart, CalendarAssumption DEF CalendarType, Settled, TypeOK
<1>2. history \in [Metric -> [Series -> SUBSET Nat]]
  BY DEF CalendarType
<1>3. ASSUME NEW k \in Metric, NEW s \in Series, NEW d \in Merge(k, Answers)[s]
      PROVE  d \in 0 .. today
  <2>1. d + 1 >= HistoryStart /\ (d \in Fetched(k, Answers, s) \/ d \in history[k][s])
    BY <1>3, MergeDays
  <2>2. d \in Int /\ d <= today
    BY <1>1, <1>2, <2>1, FetchedDays DEF CalendarType, TypeOK
  <2> QED BY <1>1, <2>1, <2>2
<1>4. ASSUME NEW k \in Metric, NEW d, d \in Merge(k, Answers)["usage"], d \in Merge(k, Answers)["budget"]
      PROVE  FALSE
  <2>1. "usage" \in Series /\ "budget" \in Series
    BY DEF Series
  <2>2. d \notin history[k]["usage"] \/ d \notin history[k]["budget"]
    BY DEF CalendarType, TypeOK
  <2>3. d \in Fetched(k, Answers, "usage") /\ d \in Fetched(k, Answers, "budget")
    BY <1>4, <2>1, <2>2, MergeDays
  <2>4. k = "actual" /\ begin["usage"] <= d /\ d < begin["usage"] /\ d \in Int
    BY <2>1, <2>3, FetchedDays
  <2>5. begin["usage"] \in Int
    BY <1>1, <2>1
  <2> QED BY <2>4, <2>5
<1>5. \A k \in Metric : Merge(k, Answers) \in [Series -> SUBSET (0 .. today)]
  <2>1. ASSUME NEW k \in Metric
        PROVE  Merge(k, Answers) = [s \in Series |-> Merge(k, Answers)[s]]
    BY DEF Merge
  <2> QED BY <1>3, <2>1
<1>6. NoHistory \in [Series -> SUBSET (0 .. today)] /\ \A s \in Series : NoHistory[s] = {}
  BY DEF NoHistory
<1>7. history' \in [Metric -> [Series -> SUBSET (0 .. today)]]
  BY <1>5, <1>6, RefreshParts
<1>8. history' \in [Metric -> [Series -> SUBSET Nat]]
  BY <1>1, <1>7
<1>9. \A k \in Metric : history'[k]["usage"] \cap history'[k]["budget"] = {}
  <2>1. ASSUME NEW k \in Metric
        PROVE  history'[k]["usage"] \cap history'[k]["budget"] = {}
    <3>1. history'[k] = Merge(k, Answers) \/ history'[k] = NoHistory
      BY RefreshParts
    <3> QED BY <1>4, <1>6, <3>1 DEF Series
  <2> QED BY <2>1
<1>10. \A k \in Metric : \A s \in Series : history'[k][s] \subseteq 0 .. today'
  BY <1>7, RefreshParts
<1>11. TypeOK'
  BY <1>9, <1>10, RefreshParts DEF CalendarType, TypeOK
<1> QED BY <1>8, <1>11, RefreshParts DEF CalendarType, Settled

-----------------------------------------------------------------------------
(* The inductive invariant *)

\* What a refresh will not ask for: a month that has points of a metric has, before the
\* recent window, all the days for which the portal had points, but for those left behind.
StoredMonthsComplete ==
  ~fresh => \A k \in Metric, d \in 0 .. today :
    /\ InWindow(d) /\ d < RecentStart /\ d \notin missed /\ begin[Own(k)] <= d
    /\ \E e \in Days(k) : MonthOf(e) = MonthOf(d)
    => d \in Days(k)

\* WindowFilled, for each metric and the series it is meant to come from.
Filled ==
  fresh => \A k \in Metric, d \in 0 .. today :
    InWindow(d) /\ d \notin missed /\ begin[Own(k)] <= d => d \in Days(k)

CalendarInv == CalendarType /\ StoredMonthsComplete /\ Filled /\ WindowOnly

\* A metric whose series has begun by today is in the recent answer, and what a refresh
\* stores of it has all it fetched and all that was stored of the window.
LEMMA RefreshStores ==
  ASSUME CalendarType, Refresh, NEW k \in Metric, NEW d \in 0 .. today,
         begin[Own(k)] <= d, HistoryStart <= d + 1,
         d \in Days(k) \/ \E a \in Answers : Own(k) \in SeriesFor(k, a) /\ d \in a[Own(k)]
  PROVE  k \in Available /\ d \in Days(k)'
<1>1. today \in Nat /\ RecentDays \in Nat /\ begin \in [Series -> Int] /\ Own(k) \in Series
  BY CalendarAssumption DEF CalendarType, Settled, TypeOK, Own, Series
<1>2. k \in Available
  <2>1. begin[Own(k)] < RecentWindow[2]
    BY <1>1 DEF RecentWindow
  <2>2. Own(k) \in DOMAIN RecentAnswer
    BY <1>1, <2>1, AnswerSeries DEF RecentAnswer
  <2> QED BY <2>2, SeriesTaken DEF Available, RecentAnswer
<1>3. history'[k] = Merge(k, Answers)
  BY <1>2, RefreshParts
<1>4. d + 1 >= HistoryStart
  BY <1>1, WindowStart DEF CalendarType
<1>5. CASE \E s \in Series : d \in Fetched(k, Answers, s)
  <2>1. PICK s \in Series : d \in Merge(k, Answers)[s]
    BY <1>4, <1>5, MergeDays
  <2> QED BY <1>2, <1>3, <2>1 DEF Days
<1>6. CASE \A s \in Series : d \notin Fetched(k, Answers, s)
  <2>1. ~\E a \in Answers : Own(k) \in SeriesFor(k, a) /\ d \in a[Own(k)]
    BY <1>1, <1>6 DEF Fetched
  <2>2. PICK s \in Series : d \in history[k][s]
    BY <2>1 DEF Days
  <2>3. d \in Merge(k, Answers)[s]
    BY <1>4, <1>6, <2>2, MergeDays DEF Series
  <2> QED BY <1>2, <1>3, <2>3 DEF Days
<1> QED BY <1>5, <1>6

\* After a refresh the window is filled.
LEMMA RefreshFills ==
  ASSUME CalendarInv, Refresh
  PROVE  Filled'
<1> SUFFICES ASSUME NEW k \in Metric, NEW d \in 0 .. today, InWindow(d), d \notin missed,
                    begin[Own(k)] <= d
             PROVE  d \in Days(k)'
  BY RefreshParts DEF Filled, InWindow
<1>1. /\ today \in Nat /\ RecentStart \in Int /\ RecentStart <= today
      /\ begin \in [Series -> Int] /\ Own(k) \in Series /\ d \in Nat
  <2>1. today \in Nat /\ RecentDays \in Nat /\ RecentStart \in Int /\ RecentStart <= today
    BY CalendarAssumption DEF CalendarInv, CalendarType, Settled, RecentStart
  <2>2. begin \in [Series -> Int]
    BY CalendarAssumption DEF CalendarInv, CalendarType, TypeOK
  <2>3. Own(k) \in Series
    BY DEF Own, Series
  <2> QED BY <2>1, <2>2, <2>3
<1>2. HistoryStart <= d /\ HistoryStart \in Int
  BY InWindowStart, WindowStart DEF CalendarInv, CalendarType
<1>3. HistoryStart <= d + 1
  BY <1>1, <1>2
<1>4. CASE RecentStart <= d
  <2>1. RecentWindow[1] \in Int /\ RecentWindow[2] \in Int /\ d \in RecentWindow[1] .. RecentWindow[2] - 1
    BY <1>1, <1>4 DEF RecentWindow
  <2>2. Own(k) \in SeriesFor(k, RecentAnswer) /\ d \in RecentAnswer[Own(k)]
    BY <1>1, <2>1, DayFetched DEF RecentAnswer
  <2>3. \E a \in Answers : Own(k) \in SeriesFor(k, a) /\ d \in a[Own(k)]
    BY <2>2 DEF Answers
  <2> QED BY <1>3, <2>3, RefreshStores DEF CalendarInv
<1>5. CASE d < RecentStart /\ \E e \in Days(k) : MonthOf(e) = MonthOf(d)
  <2>1. d \in Days(k)
    BY <1>5, RefreshParts DEF CalendarInv, StoredMonthsComplete
  <2> QED BY <1>3, <2>1, RefreshStores DEF CalendarInv
<1>6. CASE d < RecentStart /\ \A e \in Days(k) : MonthOf(e) # MonthOf(d)
  <2>1. \A e \in Days(k) : e \in Nat /\ IndexOf(e) # IndexOf(d)
    <3>1. \A e \in Days(k) : e \in Nat
      BY DaysOf DEF CalendarInv, CalendarType, Series
    <3> QED BY <1>1, <1>6, <3>1, MonthOfDay
  <2>2. k \in Available
    <3>1. begin[Own(k)] < RecentWindow[2]
      BY <1>1 DEF RecentWindow
    <3>2. Own(k) \in DOMAIN RecentAnswer
      BY <1>1, <3>1, AnswerSeries DEF RecentAnswer
    <3> QED BY <3>2, SeriesTaken DEF Available, RecentAnswer
  <2> DEFINE asked == {Days(j) : j \in Available}
  <2>3. Days(k) \in asked
    BY <2>2
  <2>4. PICK w \in Windows(asked) : d \in w[1] .. w[2] - 1
    <3> HIDE DEF asked
    <3> QED BY <1>1, <1>2, <1>6, <2>1, <2>3, WindowsCover DEF CalendarInv, CalendarType
  <2>5. w[1] \in Int /\ w[2] \in Int
    <3> HIDE DEF asked
    <3> QED BY <2>4, WindowsEnd DEF CalendarInv, CalendarType
  <2>6. Own(k) \in SeriesFor(k, Answer(w)) /\ d \in Answer(w)[Own(k)]
    BY <1>1, <2>4, <2>5, DayFetched
  <2>7. \E a \in Answers : Own(k) \in SeriesFor(k, a) /\ d \in a[Own(k)]
    BY <2>4, <2>6 DEF Answers
  <2> QED BY <1>3, <2>7, RefreshStores DEF CalendarInv
<1> QED BY <1>1, <1>4, <1>5, <1>6

\* And it has nothing but the window and the day that ends where it begins.
LEMMA RefreshPrunes ==
  ASSUME CalendarType, Refresh
  PROVE  WindowOnly'
<1> SUFFICES ASSUME NEW k \in Metric, NEW d \in Days(k)'
             PROVE  InWindow(d) \/ InWindow(d + 1)
  BY RefreshParts DEF WindowOnly, InWindow
<1>1. today \in Nat /\ HistoryStart \in 28 .. today
  BY WindowStart DEF CalendarType, Settled
<1>2. PICK s \in Series : d \in history'[k][s]
  BY DEF Days
<1>3. CalendarType'
  BY RefreshType
<1>4. d \in 0 .. today
  BY <1>2, <1>3, RefreshParts DEF CalendarType, TypeOK
<1>5. history'[k] = Merge(k, Answers)
  <2>1. CASE k \in Available
    BY <2>1, RefreshParts
  <2>2. CASE k \notin Available
    <3>1. history'[k] = NoHistory
      BY <2>2, RefreshParts
    <3> QED BY <1>2, <3>1 DEF NoHistory
  <2> QED BY <2>1, <2>2
<1>6. d + 1 >= HistoryStart
  BY <1>2, <1>5, MergeDays
<1>7. CASE HistoryStart <= d
  BY <1>4, <1>7, InWindowStart DEF CalendarType
<1>8. CASE d + 1 = HistoryStart
  <2>1. d + 1 \in 0 .. today /\ HistoryStart <= d + 1
    BY <1>1, <1>4, <1>8
  <2> QED BY <2>1, InWindowStart DEF CalendarType
<1> QED BY <1>1, <1>4, <1>6, <1>7, <1>8

\* The days between a refresh and the recent window of the next one.
LEMMA LeftBehind ==
  ASSUME NEW a \in Nat, NEW b \in Nat, NEW r \in Nat
  PROVE  /\ \A d \in a + 1 .. b - r - 1 : d \in 0 .. b
         /\ \A d \in Nat : ~(d <= a) /\ d < b - r => d \in a + 1 .. b - r - 1
OBVIOUS

\* A pause leaves the months that have points complete: the days of the window that it adds
\* lie in the month it began in, and are left behind, or in months that have no point yet.
LEMMA WaitKeeps ==
  ASSUME CalendarInv, Wait
  PROVE  CalendarInv'
<1>1. PICK n \in Pause :
        /\ today + n <= LastDay /\ today' = today + n
        /\ missed' = missed \cup {d \in today + 1 .. today' - RecentDays - 1 : MonthOf(d) = MonthOf(today)}
  BY DEF Wait
<1>2. fresh /\ ~fresh' /\ fresh' \in BOOLEAN /\ UNCHANGED <<begin, history>>
  BY DEF Wait
<1>3. /\ today \in Nat /\ n \in Nat \ {0} /\ today' \in Nat /\ today < today' /\ today' <= LastDay
      /\ LastDay \in Nat /\ RecentDays \in Nat /\ HistoryMonths \in Nat /\ begin \in [Series -> Int]
      /\ 31 * HistoryMonths <= today
  <2>1. today \in Nat /\ 31 * HistoryMonths <= today
    BY DEF CalendarInv, CalendarType, Settled
  <2>2. LastDay \in Nat /\ RecentDays \in Nat /\ HistoryMonths \in Nat /\ Pause \subseteq Nat \ {0}
    BY CalendarAssumption
  <2>3. begin \in [Series -> Int]
    BY CalendarAssumption DEF CalendarInv, CalendarType, TypeOK
  <2> QED BY <1>1, <2>1, <2>2, <2>3
<1>4. CalendarType'
  <2>1. missed' \subseteq 0 .. today'
    <3>1. missed \subseteq 0 .. today
      BY DEF CalendarInv, CalendarType, TypeOK
    <3>2. 0 .. today \subseteq 0 .. today'
      BY <1>3
    <3>3. \A d \in today + 1 .. today' - RecentDays - 1 : d \in 0 .. today'
      BY <1>3, LeftBehind
    <3> QED BY <1>1, <3>1, <3>2, <3>3
  <2>2. \A k \in Metric, s \in Series : history[k][s] \subseteq 0 .. today'
    BY <1>3 DEF CalendarInv, CalendarType, TypeOK
  <2>3. today' \in 0 .. LastDay /\ Settled'
    BY <1>3 DEF Settled
  <2>4. TypeOK'
    BY <1>2, <2>1, <2>2, <2>3 DEF CalendarInv, CalendarType, TypeOK
  <2> QED BY <1>2, <2>3, <2>4 DEF CalendarInv, CalendarType
<1>5. ASSUME NEW k \in Metric, NEW d \in 0 .. today', InWindow(d)', (d < RecentStart)', d \notin missed',
             begin[Own(k)] <= d, NEW e \in Days(k), MonthOf(e) = MonthOf(d)
      PROVE  d \in Days(k)
  <2>1. d \in Nat /\ e \in Nat /\ e <= today
    BY <1>3, <1>5, DaysOf DEF CalendarInv, CalendarType, TypeOK, Series
  <2> DEFINE i == IndexOf(today)
             j == IndexOf(d)
             u == IndexOf(today')
  <2>2. i \in Nat /\ j \in Nat /\ u \in Nat /\ i <= u
    BY <1>3, <2>1, DayInMonth, IndexOrdered
  <2>3. IndexOf(e) = j
    BY <1>5, <2>1, <2>2, MonthOfDay, SameMonth
  <2>4. CASE d <= today
    <3>1. u - j \in 0 .. HistoryMonths - 1
      BY <1>3, <1>5, <2>1, MonthsBetween DEF InWindow
    <3>2. j <= i
      BY <1>3, <2>1, <2>4, IndexOrdered
    <3>3. i - j \in 0 .. HistoryMonths - 1
      <4> HIDE DEF i, j, u
      <4> QED BY <1>3, <2>2, <3>1, <3>2
    <3>4. InWindow(d)
      BY <1>3, <2>1, <3>3, InWindowIndex
    <3>5. d \in 0 .. today /\ d \notin missed
      BY <1>1, <1>5, <2>1, <2>4
    <3> QED BY <1>2, <1>5, <3>4, <3>5 DEF CalendarInv, Filled
  <2>5. ASSUME ~(d <= today) PROVE FALSE
    <3>1. IndexOf(e) <= i /\ i <= j
      BY <1>3, <2>1, <2>5, IndexOrdered
    <3>2. i = j
      BY <2>2, <2>3, <3>1
    <3>3. MonthOf(d) = MonthOf(today)
      BY <1>3, <2>1, <3>2, MonthOfDay
    <3>4. d \in today + 1 .. today' - RecentDays - 1
      <4>1. d < today' - RecentDays
        BY <1>5 DEF RecentStart
      <4> QED BY <1>3, <2>1, <2>5, <4>1, LeftBehind
    <3> QED BY <1>1, <1>5, <3>3, <3>4
  <2> QED BY <2>4, <2>5
<1>6. StoredMonthsComplete'
  BY <1>2, <1>5 DEF StoredMonthsComplete, Days
<1> QED BY <1>2, <1>4, <1>6 DEF CalendarInv, Filled, WindowOnly

\* Every step, and every stutter, keeps the invariant.
LEMMA CalendarStep == CalendarInv /\ [Next]_vars => CalendarInv'
<1> SUFFICES ASSUME CalendarInv, [Next]_vars PROVE CalendarInv'
  OBVIOUS
<1>1. CASE Refresh
  BY <1>1, RefreshType, RefreshFills, RefreshPrunes, RefreshParts DEF CalendarInv, StoredMonthsComplete
<1>2. CASE Wait
  BY <1>2, WaitKeeps
<1>3. CASE UNCHANGED vars
  BY <1>3 DEF vars, CalendarInv, CalendarType, TypeOK, Settled, StoredMonthsComplete, Filled, WindowOnly,
              InWindow, RecentStart, Days
<1> QED BY <1>1, <1>2, <1>3 DEF Next

\* Nothing is stored before the first refresh.
LEMMA CalendarInit == Init => CalendarInv
<1> SUFFICES ASSUME Init PROVE CalendarInv
  OBVIOUS
<1>1. today \in Nat /\ today \in 0 .. LastDay /\ 31 * HistoryMonths <= today
  BY CalendarAssumption DEF Init
<1>2. history = [k \in Metric |-> NoHistory] /\ NoHistory \in [Series -> SUBSET Nat]
      /\ \A k \in Metric, s \in Series : history[k][s] = {}
  BY DEF Init, NoHistory
<1>3. TypeOK
  BY <1>1, <1>2 DEF Init, TypeOK, Series
<1>4. \A k \in Metric : Days(k) = {}
  BY <1>2 DEF Days
<1>5. CalendarType
  BY <1>1, <1>2, <1>3 DEF CalendarType, Settled
<1> QED BY <1>4, <1>5 DEF Init, CalendarInv, StoredMonthsComplete, Filled, WindowOnly

-----------------------------------------------------------------------------
(* Theorems *)

\* For every window, pause and beginning of a series: the histories have days of the past, and
\* the months that have points lack nothing that a later refresh would not ask for.
THEOREM CalendarInvariance == Spec => []CalendarInv
BY CalendarInit, CalendarStep, PTL DEF Spec

\* Histories have days up to today, none of them from both series of the answers.
THEOREM CalendarTypeCorrect == Spec => []TypeOK
<1>1. CalendarInv => TypeOK
  BY DEF CalendarInv, CalendarType
<1> QED BY <1>1, CalendarInvariance, PTL

\* However long the months, the window and the pauses: after a refresh whose requests were
\* all answered, month chunks and recent window leave out no day of the window for which the
\* portal has a point, but for those that a long pause has left behind in the month it began in.
THEOREM WindowFilledHolds == Spec => []WindowFilled
<1>1. CalendarInv => WindowFilled
  <2>1. "actual" \in Metric /\ "expected" \in Metric /\ Own("actual") = "usage" /\ Own("expected") = "budget"
    BY DEF Metric, Own
  <2> QED BY <2>1 DEF CalendarInv, Filled, WindowFilled
<1> QED BY <1>1, CalendarInvariance, PTL

\* However long the pauses, no history keeps more than the window and the one day before it.
THEOREM WindowOnlyHolds == Spec => []WindowOnly
<1>1. CalendarInv => WindowOnly
  BY DEF CalendarInv
<1> QED BY <1>1, CalendarInvariance, PTL

=============================================================================
