SPECIFICATION TimelineSpec
CONSTANTS
    ada = ada
    bob = bob
    cyd = cyd
    People = {ada, bob, cyd}
    Admins = {ada}
    Creator = ada
    Lists <- MCLists
    Mentions <- MCMentions
    Requests = {r1, r2}
    MaxRequests = 3
    MaxMarks = 1
    BellLength = 2
    Attachments = {a1, a2}
    Compatible = {a2}
    Kinds = {"transcode"}
    Pollers = {p1, p2}
    Workers = {w1, w2}
    Limit = 1
    MaxFaults = 1
    MaxStops = 1
    MaxTroubles = 1
INVARIANTS
    AssignedAreTold
    ToldOnceOfWhatExists
    ResultsOutliveFailures
    NothingStranded
PROPERTIES
    MentionsArrive
    SettlesForGood
CHECK_DEADLOCK FALSE
