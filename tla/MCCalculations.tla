---------------------------- MODULE MCCalculations ----------------------------
(***************************************************************************)
(* The pure algorithms of the server over bounded inputs: the instants of  *)
(* a task move under calculatePoints, or a recurring reminder is           *)
(* dispatched on time, again and again, from every day of four years, or   *)
(* the ledger and the teams change under the boards.                       *)
(***************************************************************************)
EXTENDS ScorePoints, Recurrence, Reports, TLC

CONSTANTS
    MaxInstant,     \* bound on the instants of a task
    Values,         \* recurrence values
    StartMonths     \* a chain of occurrences starts in one of the first months

ASSUME CalculationsAssumption ==
    /\ MaxInstant \in Nat /\ StartMonths \in 0 .. Months
    /\ Values \subseteq Nat \ {0}

VARIABLES
    approved, due, created,     \* the task
    at, value, unit             \* the reminder; value 0 while there is none

calculations == <<approved, due, created, at, value, unit>>
vars == <<calculations, reports>>

\* The instance of the reports.
CONSTANTS ada, bob, cyd, north, south

MCFirstName == (ada :> 1) @@ (bob :> 2) @@ (cyd :> 3)
MCTeamOf == [t \in {1, 2} |-> IF t = 1 THEN north ELSE south]

TaskInit ==
    /\ created \in 0 .. MaxInstant
    /\ due \in 0 .. MaxInstant      \* nothing refuses a due date already past
    /\ approved = created
    /\ at = 0 /\ value = 0 /\ unit = "DAYS"

ReminderInit ==
    /\ \E d \in 0 .. FirstOf[StartMonths] - 1 : at = d * Day + 9 * Hour
    /\ value \in Values
    /\ unit \in Units
    /\ approved = 0 /\ due = 0 /\ created = 0

LedgerInit ==
    /\ approved = 0 /\ due = 0 /\ created = 0
    /\ at = 0 /\ value = 0 /\ unit = "LEDGER"

Init == ReportsInit /\ (TaskInit \/ ReminderInit \/ LedgerInit)

Delay ==
    /\ unit = "DAYS" /\ value = 0 /\ approved < MaxInstant
    /\ approved' = approved + 1
    /\ UNCHANGED <<due, created, at, value, unit, reports>>

Extend ==
    /\ unit = "DAYS" /\ value = 0 /\ due < MaxInstant
    /\ due' = due + 1
    /\ UNCHANGED <<approved, created, at, value, unit, reports>>

Recur ==
    /\ value > 0 /\ MonthOf(at) + value < Months
    /\ at' = calculateNextOccurrence(at, value, unit)
    /\ UNCHANGED <<approved, due, created, value, unit, reports>>

Change == unit = "LEDGER" /\ ReportsNext /\ UNCHANGED calculations

Next == Delay \/ Extend \/ Recur \/ Change

Spec == Init /\ [][Next]_vars

--------------------------------------------------------------------------------
(* calculatePoints *)

Award  == calculatePoints(approved, due, created)
Earned == Award.points

\* The bonus counted fifth by fifth: one point for each fifth of the window (of a
\* day, for a shorter one) that was left, five at most.
Fifths ==
    LET window == IF due - created < DayTicks THEN DayTicks ELSE due - created
    IN  Cardinality({k \in 1 .. 5 : 5 * (due - approved) >= k * window})

\* calculatePoints agrees with the count, on time or late, for past due dates and
\* windows shorter than a day too.
PointsAsCounted ==
    Award = IF approved > due THEN [kind |-> "LATE_COMPLETION", points |-> 3]
            ELSE [kind |-> "ON_TIME_COMPLETION", points |-> 10 + Fifths]

--------------------------------------------------------------------------------
(* calculateNextOccurrence *)

\* A monthly reminder keeps its day of the month.  One set past the 28th falls over
\* the end of a short month once, to the first days of the next, and stays there:
\* AddDate counts from the last occurrence, not from the first.
MonthlyKeepsItsDay ==
    [][unit = "MONTHS" =>
        \/ DayOfMonth(at') = DayOfMonth(at)
        \/ DayOfMonth(at) > 28 /\ DayOfMonth(at') <= 3]_vars
================================================================================
