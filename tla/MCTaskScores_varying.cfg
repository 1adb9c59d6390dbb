SPECIFICATION Spec
CONSTANTS
    u1 = u1
    u2 = u2
    Tasks = {t1}
    Users = {u1, u2}
    Requests = {r1, r2}
    Pollers = {p1}
    NoDue = NoDue
    DueDates <- UndatedPayloads
    AssigneeSets <- VaryingAssignees
    DayTicks = 1
    MaxTime = 2
    MaxRows = 2
    MaxStops = 0
SYMMETRY Symmetry
INVARIANTS
    OneVerdict

PROPERTIES
    ImplementsScoreBook
