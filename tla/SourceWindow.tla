----------------------------- MODULE SourceWindow -----------------------------
(***************************************************************************)
(* The six-calendar-month window of source_access.py                       *)
(* (SourceAvailabilityWindow.six_months_through) as the UTC date goes by.  *)
(* SourceScope takes such a window as two day numbers.                     *)
(***************************************************************************)
EXTENDS Integers

CONSTANTS FirstYear, LastYear   \* bound: the years the clock runs through

ASSUME YearsAssumption == FirstYear \in Nat /\ LastYear \in Nat /\ FirstYear > 0

VARIABLE as_of   \* the current UTC date

-----------------------------------------------------------------------------
(* Dates; calendar.monthrange is the standard library's.                   *)

IsLeap(year) == year % 4 = 0 /\ (year % 100 # 0 \/ year % 400 = 0)

DaysInMonth(year, month) ==
  IF month = 2 THEN (IF IsLeap(year) THEN 29 ELSE 28)
  ELSE IF month \in {4, 6, 9, 11} THEN 30 ELSE 31

Date == {d \in [year : Int, month : 1..12, day : 1..31] :
           d.day <= DaysInMonth(d.year, d.month)}

\* Mutant: months are counted from one.
MonthIndexMutant(d) == d.year * 12 + d.month

\* Months since the year 0.
MonthIndex(d) == d.year * 12 + d.month - 1

Before(c, d) ==
  \/ MonthIndex(c) < MonthIndex(d)
  \/ MonthIndex(c) = MonthIndex(d) /\ c.day < d.day

DaysBeforeMonth ==
  <<0, 31, 59, 90, 120, 151, 181, 212, 243, 273, 304, 334>>

\* date.toordinal().
Ordinal(d) ==
  LET y == d.year - 1 IN
  y * 365 + y \div 4 - y \div 100 + y \div 400
    + DaysBeforeMonth[d.month] + (IF d.month > 2 /\ IsLeap(d.year) THEN 1 ELSE 0) + d.day

-----------------------------------------------------------------------------
(* The window.                                                             *)

Smaller(x, y) == IF x <= y THEN x ELSE y

\* Mutant: a day the month lacks runs over into the next month.
SubtractCalendarMonthsMutant(d, months) ==
  LET index == MonthIndex(d) - months
      year  == index \div 12
      month == (index % 12) + 1
      over  == d.day - DaysInMonth(year, month)
  IN  IF over <= 0 THEN [year |-> year, month |-> month, day |-> d.day]
      ELSE [year |-> (index + 1) \div 12, month |-> ((index + 1) % 12) + 1, day |-> over]

SubtractCalendarMonths(d, months) ==
  LET index == MonthIndex(d) - months
      year  == index \div 12
      month == (index % 12) + 1
  IN  [year |-> year, month |-> month, day |-> Smaller(d.day, DaysInMonth(year, month))]

SOURCE_AVAILABILITY_MONTHS == 6

SixMonthsThrough(d) ==
  [start_date |-> SubtractCalendarMonths(d, SOURCE_AVAILABILITY_MONTHS), end_date |-> d]

-----------------------------------------------------------------------------

Tomorrow(d) ==
  IF d.day < DaysInMonth(d.year, d.month) THEN [d EXCEPT !.day = @ + 1]
  ELSE IF d.month < 12 THEN [d EXCEPT !.month = @ + 1, !.day = 1]
  ELSE [year |-> d.year + 1, month |-> 1, day |-> 1]

Init == as_of = [year |-> FirstYear, month |-> 1, day |-> 1]

Midnight == Tomorrow(as_of).year <= LastYear /\ as_of' = Tomorrow(as_of)

Next == Midnight

Spec == Init /\ [][Next]_as_of

-----------------------------------------------------------------------------
(* Properties.                                                             *)

\* Going back any number of months gives the last date of the target month that is not a
\* later day of the month: a real date, and never one of the month after.
ReferenceMonthsBack(d, months) ==
  LET target == MonthIndex(d) - months IN
  {p \in [year : {target \div 12}, month : {(target % 12) + 1}, day : 1..d.day] :
     /\ p.day <= DaysInMonth(p.year, p.month)
     /\ \A later \in (p.day + 1)..d.day : later > DaysInMonth(p.year, p.month)}

MonthsBackIsTheReference ==
  \A months \in 0..24 :
    ReferenceMonthsBack(as_of, months) = {SubtractCalendarMonths(as_of, months)}

\* The window never takes back a date it gave up: its first date does not move backwards
\* from one day to the next, over short months, leap years and year ends.
WindowNeverRegresses ==
  [][~Before(SixMonthsThrough(as_of').start_date, SixMonthsThrough(as_of).start_date)]_as_of

\* The window always reaches back the 181 to 184 days six calendar months have.
WindowSpansSixMonths ==
  LET w == SixMonthsThrough(as_of) IN
  Ordinal(w.end_date) - Ordinal(w.start_date) \in 181..184

=============================================================================
