SPECIFICATION Spec
CONSTANTS
    People = {p1, p2}
    Orgs = {o1, o2}
    Forms = {f1, f2}
    Browsers = {b1}
    Requests = {r1, r2}
    MaxRequests = 5
    GivenRoles = {"EMPLOYEE"}
    AskedRoles = {"highest", "EMPLOYEE"}
SYMMETRY Symmetry
INVARIANTS
    JoinedHaveCredentials
    GuardPassesMembers
PROPERTY
    OneOnboarding
CHECK_DEADLOCK FALSE
