SPECIFICATION PartsSpec
CONSTANTS
    o1 = o1
    o2 = o2
    t1 = t1
    t2 = t2
    t3 = t3
    ada = ada
    bob = bob
    Orgs = {o1, o2}
    Users = {ada, bob}
    Founder <- TwoFounders
    Teams = {t1, t2, t3}
    OrgOf <- TwoAndOne
    Requests = {r1, r2}
    GivenRoles = {"ADMIN", "EMPLOYEE"}
    Spellings = {"canonical", "other"}
    MaxRequests = 3
    MaxBetween = 2
    MaxFaults = 1
SYMMETRY Symmetry
INVARIANTS
    OrganisationsStayApart
    RoleUnlessUpdating
PROPERTIES
    AdminsGoOnlyUnseen
CHECK_DEADLOCK FALSE
