SPECIFICATION FairSpec
CONSTANTS
    u1 = u1
    u2 = u2
    Tasks = {t1}
    Users = {u1, u2}
    Requests = {r1}
    Pollers = {p1, p2}
    NoDue = NoDue
    DueDates <- DatedPayloads
    AssigneeSets <- FixedAssignees
    DayTicks = 1
    MaxTime = 2
    MaxRows = 2
    MaxStops = 1

INVARIANTS
    OneMissed
PROPERTIES
    MissEventuallyRecorded

