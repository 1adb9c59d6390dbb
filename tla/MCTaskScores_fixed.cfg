SPECIFICATION Spec
CONSTANTS
    u1 = u1
    u2 = u2
    Tasks = {t1}
    Users = {u1, u2}
    Requests = {r1, r2}
    Pollers = {p1}
    NoDue = NoDue
    DueDates <- DatedPayloads
    AssigneeSets <- FixedAssignees
    DayTicks = 1
    MaxTime = 3
    MaxRows = 2
    MaxStops = 1
SYMMETRY Symmetry
INVARIANTS
    DecisionIsolated
    CreditAgreesWithReview
PROPERTIES
    ScoredWithTheDecision

