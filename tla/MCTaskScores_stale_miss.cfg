SPECIFICATION Spec
CONSTANTS
    u1 = u1
    u2 = u2
    Tasks = {t1}
    Users = {u1, u2}
    Requests = {r1}
    Pollers = {p1}
    NoDue = NoDue
    DueDates <- DatedPayloads
    AssigneeSets <- FixedAssignees
    DayTicks = 1
    MaxTime = 2
    MaxRows = 2
    MaxStops = 0

INVARIANTS
    NotCreditedAndOverdue

