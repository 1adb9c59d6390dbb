SPECIFICATION PagesSpec
CONSTANTS
    DayTicks = 4
    MaxInstant = 24
    Months = 52
    StartMonths = 48
    Values = {1,2}
    ada = ada
    bob = bob
    cyd = cyd
    north = north
    south = south
    FirstName <- MCFirstName
    Tasks = {1, 2}
    Teams = {north, south}
    TeamOf <- MCTeamOf
    Earnings = {10}
    MaxRows = 2
    CreatedAt <- MCCreatedAt
    TeamName <- MCTeamName
    MaxTasks = 2
    MaxWrites = 3
    Limit = 1
INVARIANTS
    PointsAsCounted
    BoardsAddUp
    RanksAreFair
    BoardsAgree
    WalksAreComplete
PROPERTIES
    MonthlyKeepsItsDay
CHECK_DEADLOCK FALSE
