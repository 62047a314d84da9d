-------------------------- MODULE SourceWindow_proofs --------------------------
(***************************************************************************)
(* The month arithmetic of the source window for every date and not only   *)
(* the years TLC runs through: it agrees with its reference definition,    *)
(* the window never moves back, and it spans 181 to 184 days.              *)
(***************************************************************************)
EXTENDS SourceWindow, TLAPS

\* Going back n months lands in the month n earlier, on a date that exists.
LEMMA MonthsBackIndex ==
  ASSUME NEW d \in Date, NEW n \in Int
  PROVE  /\ SubtractCalendarMonths(d, n) \in Date
         /\ MonthIndex(SubtractCalendarMonths(d, n)) = MonthIndex(d) - n
         /\ SubtractCalendarMonths(d, n).day
              = Smaller(d.day, DaysInMonth(SubtractCalendarMonths(d, n).year,
                                           SubtractCalendarMonths(d, n).month))
<1> DEFINE i == MonthIndex(d) - n
           y == i \div 12
           m == (i % 12) + 1
<1>1. i \in Int /\ d.day \in 1..31
  BY DEF Date, MonthIndex
<1>2. y \in Int /\ m \in 1..12 /\ y * 12 + m - 1 = i
  <2> HIDE DEF i
  <2> QED BY <1>1
<1>3. DaysInMonth(y, m) \in 28..31
  BY DEF DaysInMonth
<1>4. Smaller(d.day, DaysInMonth(y, m)) \in 1..31
         /\ Smaller(d.day, DaysInMonth(y, m)) <= DaysInMonth(y, m)
  BY <1>1, <1>3 DEF Smaller
<1>5. SubtractCalendarMonths(d, n)
        = [year |-> y, month |-> m, day |-> Smaller(d.day, DaysInMonth(y, m))]
  BY DEF SubtractCalendarMonths
<1> HIDE DEF i, y, m
<1>6. MonthIndex(SubtractCalendarMonths(d, n)) = i
  BY <1>2, <1>5 DEF MonthIndex
<1>7. SubtractCalendarMonths(d, n) \in Date
  BY <1>2, <1>4, <1>5 DEF Date
<1> QED BY <1>5, <1>6, <1>7 DEF i

LEMMA YearAndMonthAreDigits ==
  ASSUME NEW x \in Int, NEW y \in Int, NEW p \in 1..12, NEW q \in 1..12,
         x * 12 + p - 1 = y * 12 + q - 1
  PROVE  x = y /\ p = q
OBVIOUS

\* The same month of the same year is reached only from the same month.
LEMMA SameMonth ==
  ASSUME NEW c \in Date, NEW d \in Date, MonthIndex(c) = MonthIndex(d)
  PROVE  c.year = d.year /\ c.month = d.month
<1> DEFINE x == c.year  p == c.month
           y == d.year  q == d.month
<1>1. x \in Int /\ y \in Int /\ p \in 1..12 /\ q \in 1..12
  BY DEF Date
<1>2. x * 12 + p - 1 = y * 12 + q - 1
  BY DEF MonthIndex
<1> HIDE DEF x, y, p, q
<1>3. x = y /\ p = q
  BY <1>1, <1>2, YearAndMonthAreDigits
<1> QED BY <1>3 DEF x, y, p, q

\* Going back keeps the order of dates: a later date never lands before an earlier one.
\* This is what clamping the day buys; letting it run over into the next month would not.
THEOREM MonthsBackKeepsOrder ==
  ASSUME NEW c \in Date, NEW d \in Date, NEW n \in Int, ~Before(d, c)
  PROVE  ~Before(SubtractCalendarMonths(d, n), SubtractCalendarMonths(c, n))
<1> DEFINE sc == SubtractCalendarMonths(c, n)
           sd == SubtractCalendarMonths(d, n)
<1>1. /\ sc \in Date /\ MonthIndex(sc) = MonthIndex(c) - n
      /\ sc.day = Smaller(c.day, DaysInMonth(sc.year, sc.month))
  BY MonthsBackIndex
<1>2. /\ sd \in Date /\ MonthIndex(sd) = MonthIndex(d) - n
      /\ sd.day = Smaller(d.day, DaysInMonth(sd.year, sd.month))
  BY MonthsBackIndex
<1> HIDE DEF sc, sd
<1>3. MonthIndex(c) \in Int /\ MonthIndex(d) \in Int /\ c.day \in 1..31 /\ d.day \in 1..31
  BY DEF Date, MonthIndex
<1>4. CASE MonthIndex(c) = MonthIndex(d)
  <2>1. sc.year = sd.year /\ sc.month = sd.month
    BY <1>1, <1>2, <1>4, SameMonth
  <2>2. c.day <= d.day
    BY <1>3, <1>4 DEF Before
  <2>3. DaysInMonth(sc.year, sc.month) \in 28..31
    BY DEF DaysInMonth
  <2>4. sc.day <= sd.day
    BY <1>1, <1>2, <1>3, <2>1, <2>2, <2>3 DEF Smaller
  <2> QED BY <1>1, <1>2, <1>3, <1>4, <2>3, <2>4 DEF Before, sc, sd, Date
<1>5. CASE MonthIndex(c) < MonthIndex(d)
  BY <1>1, <1>2, <1>3, <1>5 DEF Before, sc, sd
<1>6. MonthIndex(c) <= MonthIndex(d)
  BY <1>3 DEF Before
<1> QED BY <1>3, <1>4, <1>5, <1>6

\* The next date exists and is not before today's.
LEMMA TomorrowIsLater ==
  ASSUME NEW d \in Date
  PROVE  Tomorrow(d) \in Date /\ ~Before(Tomorrow(d), d)
<1>1. d.year \in Int /\ d.month \in 1..12 /\ d.day \in 1..31
      /\ d.day <= DaysInMonth(d.year, d.month)
  BY DEF Date
<1>2. DaysInMonth(d.year, d.month) \in 28..31 /\ DaysInMonth(d.year, d.month + 1) \in 28..31
      /\ DaysInMonth(d.year + 1, 1) \in 28..31
  BY DEF DaysInMonth
<1>3. CASE d.day < DaysInMonth(d.year, d.month)
  <2>1. Tomorrow(d) = [d EXCEPT !.day = d.day + 1]
    BY <1>3 DEF Tomorrow
  <2> QED BY <1>1, <1>2, <1>3, <2>1 DEF Date, Before, MonthIndex
<1>4. CASE ~(d.day < DaysInMonth(d.year, d.month)) /\ d.month < 12
  <2>1. Tomorrow(d) = [d EXCEPT !.month = d.month + 1, !.day = 1]
    BY <1>4 DEF Tomorrow
  <2>a. Tomorrow(d) = [year |-> d.year, month |-> d.month + 1, day |-> 1]
    BY <2>1 DEF Date
  <2>2. Tomorrow(d) \in Date
    BY <1>1, <1>2, <1>4, <2>a DEF Date
  <2>3. MonthIndex(d) < MonthIndex(Tomorrow(d))
    BY <1>1, <2>1 DEF MonthIndex, Date
  <2> QED BY <1>1, <2>1, <2>2, <2>3 DEF Before, MonthIndex
<1>5. CASE ~(d.day < DaysInMonth(d.year, d.month)) /\ ~(d.month < 12)
  <2>1. Tomorrow(d) = [year |-> d.year + 1, month |-> 1, day |-> 1]
    BY <1>5 DEF Tomorrow
  <2> QED BY <1>1, <1>2, <1>5, <2>1 DEF Date, Before, MonthIndex
<1> QED BY <1>3, <1>4, <1>5

LEMMA AsOfIsADate == Spec => [](as_of \in Date)
<1>1. Init => as_of \in Date
  BY YearsAssumption DEF Init, Date, DaysInMonth
<1>2. as_of \in Date /\ [Next]_as_of => (as_of \in Date)'
  BY TomorrowIsLater DEF Next, Midnight
<1> QED BY <1>1, <1>2, PTL DEF Spec

\* six_months_through never gives back a date as the UTC date advances, whatever the year.
THEOREM WindowAdvances == Spec => WindowNeverRegresses
<1>1. as_of \in Date /\ [Next]_as_of =>
        [~Before(SixMonthsThrough(as_of').start_date, SixMonthsThrough(as_of).start_date)]_as_of
  <2> SUFFICES ASSUME as_of \in Date, Midnight
               PROVE  ~Before(SixMonthsThrough(as_of').start_date,
                              SixMonthsThrough(as_of).start_date)
    BY DEF Next
  <2>1. as_of' \in Date /\ ~Before(as_of', as_of)
    BY TomorrowIsLater DEF Midnight
  <2> QED BY <2>1, MonthsBackKeepsOrder DEF SixMonthsThrough, SOURCE_AVAILABILITY_MONTHS
<1> QED BY <1>1, AsOfIsADate, PTL DEF Spec, WindowNeverRegresses

\* Of the dates of the target month that are no later day of the month, exactly one has no
\* later such day, and it is the one _subtract_calendar_months returns.
THEOREM MonthsBackIsTheLastDay == Spec => []MonthsBackIsTheReference
<1>1. ASSUME NEW d \in Date, NEW n \in Int
      PROVE  ReferenceMonthsBack(d, n) = {SubtractCalendarMonths(d, n)}
  <2> DEFINE i == MonthIndex(d) - n
             y == i \div 12
             m == (i % 12) + 1
             last == Smaller(d.day, DaysInMonth(y, m))
  <2>1. d.day \in 1..31 /\ DaysInMonth(y, m) \in 28..31
    BY DEF Date, DaysInMonth
  <2>2. /\ last \in 1..d.day /\ last <= DaysInMonth(y, m)
        /\ \A later \in (last + 1)..d.day : later > DaysInMonth(y, m)
    BY <2>1 DEF Smaller
  <2>3. ASSUME NEW k \in 1..d.day, k <= DaysInMonth(y, m),
               \A later \in (k + 1)..d.day : later > DaysInMonth(y, m)
        PROVE  k = last
    <3>1. CASE k < last
      <4>1. last \in (k + 1)..d.day
        BY <2>1, <2>2, <3>1
      <4> QED BY <2>1, <2>2, <2>3, <4>1
    <3>2. CASE last < k
      <4>1. k \in (last + 1)..d.day
        BY <2>1, <2>2, <3>2
      <4> QED BY <2>1, <2>2, <2>3, <4>1
    <3> QED BY <2>1, <2>2, <3>1, <3>2
  <2>4. SubtractCalendarMonths(d, n) = [year |-> y, month |-> m, day |-> last]
    BY DEF SubtractCalendarMonths
  <2>5. ReferenceMonthsBack(d, n) =
          {p \in [year : {y}, month : {m}, day : 1..d.day] :
             /\ p.day <= DaysInMonth(p.year, p.month)
             /\ \A later \in (p.day + 1)..d.day : later > DaysInMonth(p.year, p.month)}
    BY DEF ReferenceMonthsBack
  <2> HIDE DEF i, y, m, last
  <2>6. [year |-> y, month |-> m, day |-> last] \in ReferenceMonthsBack(d, n)
    BY <2>2, <2>5
  <2>7. ASSUME NEW p \in ReferenceMonthsBack(d, n)
        PROVE  p = [year |-> y, month |-> m, day |-> last]
    <3>1. /\ p \in [year : {y}, month : {m}, day : 1..d.day]
          /\ p.day <= DaysInMonth(p.year, p.month)
          /\ \A later \in (p.day + 1)..d.day : later > DaysInMonth(p.year, p.month)
      BY <2>5
    <3>2. p.year = y /\ p.month = m /\ p.day \in 1..d.day
      BY <3>1
    <3>3. p.day = last
      BY <2>3, <3>1, <3>2
    <3> QED BY <3>1, <3>2, <3>3
  <2> QED BY <2>4, <2>6, <2>7
<1>2. as_of \in Date => MonthsBackIsTheReference
  BY <1>1 DEF MonthsBackIsTheReference
<1> QED BY <1>2, AsOfIsADate, PTL

-----------------------------------------------------------------------------
(* The length of the window.                                               *)

Leap(year) == IF IsLeap(year) THEN 1 ELSE 0

\* Days before the first of January of a year, as date.toordinal() counts them.
DaysBeforeYear(year) ==
  LET y == year - 1 IN y * 365 + y \div 4 - y \div 100 + y \div 400

LEMMA YearLength ==
  ASSUME NEW y \in Int
  PROVE  /\ DaysBeforeYear(y) \in Int
         /\ DaysBeforeYear(y) - DaysBeforeYear(y - 1) = 365 + Leap(y - 1)
<1> DEFINE z == y - 1
<1>1. z \in Int
  OBVIOUS
<1>2. /\ z \div 4 \in Int /\ z \div 100 \in Int /\ z \div 400 \in Int
      /\ (z - 1) \div 4 \in Int /\ (z - 1) \div 100 \in Int /\ (z - 1) \div 400 \in Int
  BY <1>1
<1>3. z \div 4 - (z - 1) \div 4 = IF z % 4 = 0 THEN 1 ELSE 0
  BY <1>1
<1>4. z \div 100 - (z - 1) \div 100 = IF z % 100 = 0 THEN 1 ELSE 0
  BY <1>1
<1>5. z \div 400 - (z - 1) \div 400 = IF z % 400 = 0 THEN 1 ELSE 0
  BY <1>1
<1>6. /\ z % 100 = 0 => z % 4 = 0
      /\ z % 400 = 0 => z % 100 = 0
  BY <1>1
<1>7. DaysBeforeYear(y) = z * 365 + z \div 4 - z \div 100 + z \div 400
      /\ DaysBeforeYear(z) =
           (z - 1) * 365 + (z - 1) \div 4 - (z - 1) \div 100 + (z - 1) \div 400
  BY DEF DaysBeforeYear
<1>8. Leap(z) = IF z % 4 = 0 /\ (z % 100 # 0 \/ z % 400 = 0) THEN 1 ELSE 0
  BY DEF Leap, IsLeap
<1> HIDE DEF z
<1>9. (z - 1) * 365 = z * 365 - 365 /\ z * 365 \in Int
  BY <1>1
<1>10. DaysBeforeYear(y) \in Int /\ DaysBeforeYear(y) - DaysBeforeYear(z) = 365 + Leap(z)
  BY <1>2, <1>3, <1>4, <1>5, <1>6, <1>7, <1>8, <1>9
<1> QED BY <1>10 DEF z

LEMMA OrdinalOfDate ==
  ASSUME NEW y \in Int, NEW m \in 1..12, NEW day \in Int
  PROVE  Ordinal([year |-> y, month |-> m, day |-> day])
           = DaysBeforeYear(y) + DaysBeforeMonth[m] + (IF m > 2 THEN Leap(y) ELSE 0) + day
<1>1. DaysBeforeYear(y) \in Int
  BY YearLength
<1>2. Leap(y) = IF IsLeap(y) THEN 1 ELSE 0
  BY DEF Leap
<1> QED BY <1>1, <1>2 DEF Ordinal, DaysBeforeYear

LEMMA LeapFebruary ==
  \A y \in Int : Leap(y) \in {0, 1} /\ DaysInMonth(y, 2) = 28 + Leap(y)
BY DEF Leap, DaysInMonth

LEMMA WindowLength ==
  ASSUME NEW d \in Date
  PROVE  Ordinal(d) - Ordinal(SubtractCalendarMonths(d, 6)) \in 181..184
<1> DEFINE y   == d.year
           m   == d.month
           day == d.day
           sy  == IF m > 6 THEN y ELSE y - 1
           sm  == IF m > 6 THEN m - 6 ELSE m + 6
           sd  == Smaller(day, DaysInMonth(sy, sm))
<1>1. /\ y \in Int /\ m \in 1..12 /\ day \in 1..31 /\ day <= DaysInMonth(y, m)
      /\ d = [year |-> y, month |-> m, day |-> day]
  BY DEF Date
<1> HIDE DEF y, m, day
<1>2. sy \in Int /\ sm \in 1..12 /\ DaysInMonth(sy, sm) \in 28..31
  BY <1>1 DEF DaysInMonth
<1>3. sd \in Int /\ sd = IF day <= DaysInMonth(sy, sm) THEN day ELSE DaysInMonth(sy, sm)
  BY <1>1, <1>2 DEF Smaller
<1>4. /\ Ordinal(d) = DaysBeforeYear(y) + DaysBeforeMonth[m] + (IF m > 2 THEN Leap(y) ELSE 0) + day
      /\ Ordinal(SubtractCalendarMonths(d, 6))
           = DaysBeforeYear(sy) + DaysBeforeMonth[sm] + (IF sm > 2 THEN Leap(sy) ELSE 0) + sd
  <2>1. SubtractCalendarMonths(d, 6) = [year |-> sy, month |-> sm, day |-> sd]
    <3> DEFINE i == y * 12 + m - 1 - 6
    <3>1. i \div 12 = sy /\ (i % 12) + 1 = sm
      BY <1>1
    <3>2. MonthIndex(d) - 6 = i /\ d.day = day
      BY <1>1 DEF MonthIndex
    <3> HIDE DEF i, sy, sm
    <3> QED BY <3>1, <3>2 DEF SubtractCalendarMonths
  <2>2. Ordinal([year |-> sy, month |-> sm, day |-> sd])
          = DaysBeforeYear(sy) + DaysBeforeMonth[sm] + (IF sm > 2 THEN Leap(sy) ELSE 0) + sd
    <3> HIDE DEF sy, sm, sd
    <3> QED BY <1>2, <1>3, OrdinalOfDate
  <2>3. Ordinal(d) = DaysBeforeYear(y) + DaysBeforeMonth[m] + (IF m > 2 THEN Leap(y) ELSE 0) + day
    BY <1>1, OrdinalOfDate
  <2> HIDE DEF sy, sm, sd
  <2> QED BY <2>1, <2>2, <2>3
<1>5. /\ Leap(y) \in {0, 1} /\ Leap(y - 1) \in {0, 1}
      /\ DaysInMonth(y, 2) = 28 + Leap(y)
  BY <1>1, LeapFebruary
<1>6. /\ DaysBeforeYear(y) \in Int /\ DaysBeforeYear(y - 1) \in Int
      /\ DaysBeforeYear(y) - DaysBeforeYear(y - 1) = 365 + Leap(y - 1)
  BY <1>1, YearLength
<1>7. CASE m > 6
  <2>1. /\ sy = y /\ sm = m - 6
        /\ m = 7 \/ m = 8 \/ m = 9 \/ m = 10 \/ m = 11 \/ m = 12
    BY <1>1, <1>7
  <2>2. Ordinal(d) - Ordinal(SubtractCalendarMonths(d, 6))
          = DaysBeforeMonth[m] - DaysBeforeMonth[m - 6]
              + (IF m - 6 > 2 THEN 0 ELSE Leap(y)) + day - sd
    BY <1>1, <1>3, <1>4, <1>5, <1>6, <2>1 DEF DaysBeforeMonth
  <2> HIDE DEF sd, sy, sm
  <2> QED BY <1>1, <1>3, <1>5, <2>1, <2>2 DEF DaysBeforeMonth, DaysInMonth
<1>8. CASE ~(m > 6)
  <2>1. /\ sy = y - 1 /\ sm = m + 6
        /\ m = 1 \/ m = 2 \/ m = 3 \/ m = 4 \/ m = 5 \/ m = 6
    BY <1>1, <1>8
  <2>2. Ordinal(d) - Ordinal(SubtractCalendarMonths(d, 6))
          = 365 + DaysBeforeMonth[m] - DaysBeforeMonth[m + 6]
              + (IF m > 2 THEN Leap(y) ELSE 0) + day - sd
    BY <1>1, <1>3, <1>4, <1>5, <1>6, <2>1 DEF DaysBeforeMonth
  <2> HIDE DEF sd, sy, sm
  <2> QED BY <1>1, <1>3, <1>5, <2>1, <2>2 DEF DaysBeforeMonth, DaysInMonth
<1> QED BY <1>7, <1>8

\* The window reaches back 181 to 184 days, whatever the year.
THEOREM WindowLengthIsBounded == Spec => []WindowSpansSixMonths
<1>1. as_of \in Date => WindowSpansSixMonths
  BY WindowLength DEF WindowSpansSixMonths, SixMonthsThrough, SOURCE_AVAILABILITY_MONTHS
<1> QED BY <1>1, AsOfIsADate, PTL

=============================================================================
