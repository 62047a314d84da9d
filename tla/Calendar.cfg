\* Every day of seven years, two of them leap years.
SPECIFICATION Spec
CONSTANTS
  FirstYear = 2023
  LastYear = 2029
INVARIANTS MonthsBackIsTheReference WindowSpansSixMonths
PROPERTIES WindowNeverRegresses
CHECK_DEADLOCK FALSE
