------------------------------ MODULE ScorePoints ------------------------------
(***************************************************************************)
(* The scoring formula of services/scores.go, calculatePoints: what a task *)
(* approved at some instant earns each assignee.  Instants are integers in *)
(* a unit of which DayTicks make a day; the code's float64 division and    *)
(* math.Floor are the exact integer quotient here.                         *)
(***************************************************************************)
EXTENDS Integers

CONSTANT DayTicks

ASSUME DayTicksAssumption == DayTicks \in Nat \ {0}

LatePoints == 3
BasePoints == 10
MaxBonus   == 5

AtLeast(a, b) == IF a < b THEN b ELSE a
AtMost(a, b)  == IF a > b THEN b ELSE a

\* Mutant: no day's minimum (an instant's, so that it still divides).
WindowOfAnyLength(due, created) == AtLeast(due - created, 1)

\* A task window is never counted as shorter than a day, so a due date that
\* precedes the creation of the task still divides by one day.
Window(due, created)     == AtLeast(due - created, DayTicks)
Remaining(approved, due) == AtLeast(due - approved, 0)

Bonus(approved, due, created) ==
    AtMost((MaxBonus * Remaining(approved, due)) \div Window(due, created), MaxBonus)

calculatePoints(approved, due, created) ==
    IF approved > due
    THEN [kind |-> "LATE_COMPLETION", points |-> LatePoints]
    ELSE [kind |-> "ON_TIME_COMPLETION",
          points |-> BasePoints + Bonus(approved, due, created)]
================================================================================
