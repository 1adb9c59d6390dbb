SPECIFICATION AnswersSpec
CONSTANTS
    north = north
    south = south
    Teams = {north, south}
    TeamsOf <- MCTeamsOf
    Users = {u1}
    Requests = {r1, r2}
    Photos = {good, bad}
    Matching = {good}
    Minutes = {0, 1, 330, 420, 720}
    MaxDay = 2
    MaxSwitches = 2
    MaxFaults = 2
    Tickets = {j1, j2}
    Things = {yes, no}
    Genuine = {yes}
    Limit = 1
    Window = 2
    Wait = 1
    AnswerTTL = 2
    Grace = 0
    MaxTries = 2
    MaxFailures = 1
INVARIANTS
    MarkedOnItsDay
    AbsentMeansNoShow
    PresentIsProven
    PagesAgree
    AnswersAreOwn
    AtMostTwoWindows
PROPERTIES
    VerdictInTheEnd
    TurnedAwayForAWindow
    JobsEndCleanly
