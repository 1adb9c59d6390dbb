------------------------------- MODULE Recurrence -------------------------------
(***************************************************************************)
(* When a recurring reminder comes next: the worker's                      *)
(* calculateNextOccurrence.  Instants are minutes in UTC since the start   *)
(* of a year that follows a leap year; AddDate normalises a day the target *)
(* month does not have into the month after it.                            *)
(***************************************************************************)
EXTENDS Naturals, FiniteSets, FiniteSetsExt

CONSTANT Months     \* number of months of the calendar that is laid out

ASSUME MonthsAssumption == Months \in Nat \ {0}

Hour == 60
Day  == 24 * Hour

Units == {"MINUTES", "HOURS", "DAYS", "WEEKS", "MONTHS"}

LeapYear(y) == y % 4 = 3

\* Months are counted from 0, the first January.
DaysIn(k) ==
    IF k % 12 = 1 THEN (IF LeapYear(k \div 12) THEN 29 ELSE 28)
    ELSE IF k % 12 \in {3, 5, 8, 10} THEN 30 ELSE 31

\* The day number of the first of each month.
FirstOf[k \in 0 .. Months] == IF k = 0 THEN 0 ELSE FirstOf[k - 1] + DaysIn(k - 1)

MonthOf(at)      == Max({k \in 0 .. Months : FirstOf[k] * Day <= at})
DayOfMonth(at)   == (at \div Day) - FirstOf[MonthOf(at)] + 1

\* time.AddDate(0, months, 0).
AddMonths(at, months) ==
    FirstOf[MonthOf(at) + months] * Day + (DayOfMonth(at) - 1) * Day + (at % Day)

\* Mutant: a month is thirty days.
NextInThirties(now, value, unit) ==
    CASE unit = "HOURS"  -> now + value * Hour
      [] unit = "WEEKS"  -> now + value * 7 * Day
      [] unit = "MONTHS" -> now + value * 30 * Day
      [] OTHER           -> now + value * Day

\* The worker's switch has no case for minutes; its default adds days.
calculateNextOccurrence(now, value, unit) ==
    CASE unit = "HOURS"  -> now + value * Hour
      [] unit = "WEEKS"  -> now + value * 7 * Day
      [] unit = "MONTHS" -> AddMonths(now, value)
      [] OTHER           -> now + value * Day
================================================================================
