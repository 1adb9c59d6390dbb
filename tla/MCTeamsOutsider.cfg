SPECIFICATION PartsSpec
CONSTANTS
    o1 = o1
    o2 = o2
    t1 = t1
    t2 = t2
    t3 = t3
    ada = ada
    bob = bob
    Orgs = {o1, o2}
    Users = {ada, bob}
    Founder <- TwoFounders
    Teams = {t1, t2, t3}
    OrgOf <- TwoAndOne
    Requests = {r1}
    GivenRoles = {"ADMIN", "EMPLOYEE"}
    Spellings = {"canonical", "other"}
    MaxRequests = 1
    MaxBetween = 1
    MaxFaults = 0
INVARIANTS
    MembersHaveJoined
CHECK_DEADLOCK FALSE
