SPECIFICATION FairSpec
CONSTANTS
    Tasks = {t1}
    Requests = {r1}
    Pollers = {p1, p2}
    DueTimes = {0, 1}
    Intervals = {0, 1}
    MaxTime = 2
    MaxPayload = 1
    MaxRows = 2
    MaxFaults = 1
INVARIANTS
    RunOwnsItsRows
    NotSentTwice
    OneNextOccurrence
    RecursForever
PROPERTIES
    QuietStaysQuiet
    DueIsHandled
