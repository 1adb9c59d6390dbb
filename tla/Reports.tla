------------------------------- MODULE Reports --------------------------------
(***************************************************************************)
(* What the ledger of scores is read for: a person's breakdown and events, *)
(* the leaderboards of the employees' and the administrators' pages and    *)
(* the downloads (services/scores.go, handlers/scores.go, scores.sql).     *)
(* Rows name the task, and so the team, they were earned in; the boards    *)
(* join them with the teams' members of today.                             *)
(***************************************************************************)
EXTENDS Queries, SequencesExt

CONSTANTS
    FirstName,      \* the people, with a first name of its own for each, as a number
    Tasks, Teams, TeamOf,
    Earnings,       \* what a task done on time has earned
    MaxRows         \* bound on the ledger

Staff == DOMAIN FirstName

ASSUME ReportsAssumption ==
    /\ IsFiniteSet(Staff) /\ FirstName \in [Staff -> Nat]
    /\ \A u, v \in Staff : FirstName[u] = FirstName[v] => u = v
    /\ IsFiniteSet(Teams) /\ "" \notin Teams
    /\ TeamOf \in [Tasks -> Teams]
    /\ Earnings \subseteq Nat /\ MaxRows \in Nat

VARIABLES
    rows,       \* employee_scores, by event_at
    roster,     \* team_members
    visible     \* the teams whose leaderboard_visible is set

reports == <<rows, roster, visible>>

--------------------------------------------------------------------------------
(* A person's ledger *)

Live(u, teams) ==
    {i \in DOMAIN rows : rows[i].live /\ rows[i].user = u /\ TeamOf[rows[i].task] \in teams}

Points(S) == SumOf([i \in DOMAIN rows |-> rows[i].points], S)

Count(S, kinds) == Cardinality({i \in S : rows[i].kind \in kinds})

Breakdown(S) ==
    [total     |-> Points(S),
     onTime    |-> Count(S, {"ON_TIME_COMPLETION"}),
     late      |-> Count(S, {"LATE_COMPLETION"}),
     missed    |-> Count(S, {"MISSED_DEADLINE"}),
     rejection |-> Count(S, {"REJECTION"})]

\* A filter is a team, or empty for all there are.
Filtered(filter) == IF filter = "" THEN Teams ELSE {filter}

GetUserScoreBreakdown(u, filter) == Breakdown(Live(u, Filtered(filter)))

\* The newest first.
GetUserScoreReportData(u) == OrderBy(Live(u, Teams), Latest)

GetUserScoreEvents(u, filter, limit, offset) ==
    Cut(OrderBy(Live(u, Filtered(filter)), Latest), limit, offset)

\* The page of a person: the sums, and a page of the events.
GetUserBreakdown(u, filter, limit, offset) ==
    [sums |-> GetUserScoreBreakdown(u, filter),
     events |-> GetUserScoreEvents(u, filter, limit, offset)]

WriteUserScoreReport(u) ==
    [sums |-> GetUserScoreBreakdown(u, ""), events |-> GetUserScoreReportData(u)]

--------------------------------------------------------------------------------
(* Boards *)

Entry(u, S) == [user |-> u, total |-> Points(S), onTime |-> Count(S, {"ON_TIME_COMPLETION"}),
                completed |-> Count(S, {"ON_TIME_COMPLETION", "LATE_COMPLETION"})]

\* By total_points, the highest first, then by first name.
Above(totals) ==
    [u \in DOMAIN totals |->
        {v \in DOMAIN totals :
            \/ totals[v] > totals[u]
            \/ totals[v] = totals[u] /\ FirstName[v] < FirstName[u]}]

Totals(people, teams) == [u \in people |-> Points(Live(u, teams))]

Board(people, teams) ==
    LET order == OrderBy(people, Above(Totals(people, teams)))
    IN  [k \in DOMAIN order |-> Entry(order[k], Live(order[k], teams))]

GetTeamLeaderboard(t) == Board(roster[t], {t})

\* Mutant: the memberships are not made DISTINCT before the join.
AggregatedByMembership(teams) ==
    LET board == Board(UNION {roster[t] : t \in teams}, teams)
        times(u) == Cardinality({t \in teams : u \in roster[t]})
    IN  [k \in DOMAIN board |-> [board[k] EXCEPT !.total = @ * times(board[k].user)]]

GetAggregatedLeaderboard(teams) == Board(UNION {roster[t] : t \in teams}, teams)

\* Mutant: whoever comes next is one rank down.
DenseRanks(entries) ==
    LET rank[i \in 0 .. Len(entries)] ==
            CASE i = 0 -> 1
              [] i > 1 /\ entries[i].total < entries[i - 1].total -> rank[i - 1] + 1
              [] OTHER -> rank[i - 1]
    IN  [i \in DOMAIN entries |-> [entry |-> entries[i], rank |-> rank[i]]]

\* Equal totals share the rank of the first of them.
assignRanks(entries) ==
    LET rank[i \in 0 .. Len(entries)] ==
            CASE i = 0 -> 1
              [] i > 1 /\ entries[i].total < entries[i - 1].total -> i
              [] OTHER -> rank[i - 1]
    IN  [i \in DOMAIN entries |-> [entry |-> entries[i], rank |-> rank[i]]]

\* One team has a query of its own.
GetLeaderboard(teams) ==
    assignRanks(IF Cardinality(teams) = 1 THEN GetTeamLeaderboard(CHOOSE t \in teams : TRUE)
                ELSE GetAggregatedLeaderboard(teams))

\* A team without a row in team_leaderboard_settings is not shown.
GetLeaderboardVisibilityBulk(teams) == [t \in teams |-> t \in visible]

\* An employee sees the boards of the visible ones of their teams.
GetEmployeeLeaderboard(u, filter) ==
    LET mine  == {t \in Filtered(filter) : u \in roster[t]}
        shown == {t \in mine : GetLeaderboardVisibilityBulk(mine)[t]}
    IN  IF shown = {} THEN <<>> ELSE GetLeaderboard(shown)

\* An administrator sees those of the managed teams, the hidden ones as well.
GetAdminLeaderboard(managed, filter) ==
    LET teams == managed \cap Filtered(filter)
    IN  [entries |-> IF teams = {} THEN <<>> ELSE GetLeaderboard(teams),
         teams   |-> GetLeaderboardVisibilityBulk(managed)]

GetBulkUserScoreBreakdowns(teams) ==
    {[user |-> u, sums |-> Breakdown(Live(u, teams))] : u \in UNION {roster[t] : t \in teams}}

DownloadScoreReport(managed, filter) ==
    GetBulkUserScoreBreakdowns(managed \cap Filtered(filter))

--------------------------------------------------------------------------------
(* What changes them *)

ReportsInit ==
    /\ rows = <<>>
    /\ roster = [t \in Teams |-> {}]
    /\ visible = {}

\* The rows of a task's user that count no more.
SupersedeScoreEvents(ledger, task, u) ==
    [i \in DOMAIN ledger |->
        IF ledger[i].task = task /\ ledger[i].user = u THEN [ledger[i] EXCEPT !.live = FALSE]
        ELSE ledger[i]]

Row(task, u, kind, points) ==
    [task |-> task, user |-> u, kind |-> kind, points |-> points, live |-> TRUE]

\* Approval and rejection, for one assignee.
RecordDecision(task, u) ==
    /\ Len(rows) < MaxRows
    /\ \E award \in ({"ON_TIME_COMPLETION"} \X Earnings)
                    \cup {<<"LATE_COMPLETION", 3>>, <<"REJECTION", 0>>} :
        rows' = Append(SupersedeScoreEvents(rows, task, u), Row(task, u, award[1], award[2]))
    /\ UNCHANGED <<roster, visible>>

\* The poller's insert supersedes nothing; the index lets one of them live.
RecordMiss(task, u) ==
    /\ Len(rows) < MaxRows
    /\ \A i \in DOMAIN rows :
        ~(rows[i].live /\ rows[i].task = task /\ rows[i].user = u /\ rows[i].kind = "MISSED_DEADLINE")
    /\ rows' = Append(rows, Row(task, u, "MISSED_DEADLINE", 0))
    /\ UNCHANGED <<roster, visible>>

\* Bounded like the others: what is reopened last makes no board of its own.
RecordReopen(task, u) ==
    /\ Len(rows) < MaxRows
    /\ rows' = SupersedeScoreEvents(rows, task, u)
    /\ UNCHANGED <<roster, visible>>

\* The rows stay with the team when their user leaves it.
ChangeTeam(t, u) ==
    /\ roster' = [roster EXCEPT ![t] = IF u \in roster[t] THEN roster[t] \ {u} ELSE roster[t] \cup {u}]
    /\ UNCHANGED <<rows, visible>>

ToggleLeaderboardVisibility(t, on) ==
    /\ visible' = IF on THEN visible \cup {t} ELSE visible \ {t}
    /\ UNCHANGED <<rows, roster>>

ReportsNext ==
    \/ \E task \in Tasks, u \in Staff :
        RecordDecision(task, u) \/ RecordMiss(task, u) \/ RecordReopen(task, u)
    \/ \E t \in Teams, u \in Staff : ChangeTeam(t, u)
    \/ \E t \in Teams, on \in BOOLEAN : ToggleLeaderboardVisibility(t, on)

--------------------------------------------------------------------------------
(* Properties *)

\* A person's page, with all the events, tells what the download does, team by team,
\* and event by event.
SumsAgree(u, whole) ==
    /\ whole = WriteUserScoreReport(u)
    /\ whole.sums.total = Points(ToSet(whole.events))
    /\ whole.sums.total = SumOf([t \in Teams |-> GetUserScoreBreakdown(u, t).total], Teams)
    /\ \A filter \in Teams \cup {""} :
        FlattenSeq([k \in 1 .. MaxRows |-> GetUserScoreEvents(u, filter, 1, k - 1)])
            = GetUserScoreEvents(u, filter, MaxRows, 0)

\* An entry of a board of some teams, and a row of their download.
Tells(entry, b, teams) ==
    /\ b.user = entry.user /\ b.sums.total = entry.total
    /\ b.sums.onTime = entry.onTime /\ b.sums.onTime + b.sums.late = entry.completed
    /\ entry.total = SumOf([t \in teams |-> GetUserScoreBreakdown(entry.user, t).total], teams)

BoardTells(board, bulk, teams) ==
    /\ Len(board) = Cardinality(bulk)
    /\ \A k \in DOMAIN board : \E b \in bulk : Tells(board[k].entry, b, teams)

\* Whatever page or download a score is read from, it adds up to the person's own
\* breakdowns team by team and to the events listed under them; everybody is there
\* once, in one team or in two (the seven queries of scores.sql).  None of it depends
\* on what is visible: it is enough to look while nothing is.
BoardsAddUp == visible = {} =>
    /\ \A u \in Staff : SumsAgree(u, GetUserBreakdown(u, "", MaxRows, 0))
    /\ \A teams \in SUBSET Teams \ {{}} :
        BoardTells(GetLeaderboard(teams), DownloadScoreReport(teams, ""), teams)

\* The visible teams of a person, as far as the filter goes.
OpenTo(u, filter) == {t \in visible \cap Filtered(filter) : u \in roster[t]}

RankedFairly(board) ==
    \A k \in DOMAIN board :
        board[k].rank = 1 + Cardinality({j \in DOMAIN board :
                                board[j].entry.total > board[k].entry.total})

ShownTo(u, open, board) ==
    /\ board = GetAdminLeaderboard(open, "").entries
    /\ open # {} => \E k \in DOMAIN board : board[k].entry.user = u
    /\ RankedFairly(board)

\* A rank is one more than the number of those who have more points on the board,
\* on every board anybody may see; and what an employee sees is what an administrator
\* of those teams sees, with nothing of a hidden team or another's in it.
RanksAreFair ==
    \A u \in Staff, filter \in Teams \cup {""} :
        ShownTo(u, OpenTo(u, filter), GetEmployeeLeaderboard(u, filter))
================================================================================
