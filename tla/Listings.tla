------------------------------- MODULE Listings --------------------------------
(***************************************************************************)
(* What the pages list of an organisation: its people, teams and tasks     *)
(* (services/admin.go, tasks.go and their queries).  Several queries tell  *)
(* the same facts in different ways, and the long lists are read a page at *)
(* a time, each page by a query of its own, while requests change them.    *)
(*                                                                         *)
(* A list is the sequence of its rows' keys in the order of the query.     *)
(***************************************************************************)
EXTENDS Queries, SequencesExt

CONSTANTS
    CreatedAt,      \* the people, with the instant of each one's account
    TeamName,       \* the teams, with a name of its own for each, as a number
    MaxTasks,       \* bound on tasks, and on updates of one
    MaxWrites,      \* bound on changes
    Limit           \* rows to a page

People   == DOMAIN CreatedAt
OrgTeams == DOMAIN TeamName

\* No two rows have the same key.
Distinct(key) == \A x, y \in DOMAIN key : key[x] = key[y] => x = y

ASSUME ListingsAssumption ==
    /\ IsFiniteSet(People) /\ CreatedAt \in [People -> Nat] /\ Distinct(CreatedAt)
    /\ IsFiniteSet(OrgTeams) /\ TeamName \in [OrgTeams -> Nat] /\ Distinct(TeamName)
    /\ MaxTasks \in Nat /\ MaxWrites \in Nat /\ Limit \in Nat \ {0}

VARIABLES
    member,     \* org_memberships.status
    teamRole,   \* team_members
    tasks,      \* the tasks, the oldest first, with their team and participants
    updates,    \* how many updates the first task has, and comments the first of those
    walk,       \* somebody who pages through a list
    writes

listings == <<member, teamRole, tasks, updates, walk, writes>>

TeamRoleEnum == {"MEMBER", "TEAM_ADMIN"}
Roles == {"ASSIGNEE", "SUBSCRIBER"}

--------------------------------------------------------------------------------
(* People *)

InTeam(t, p) == teamRole[t][p] # "none"
Manages(p, t) == teamRole[t][p] = "TEAM_ADMIN"

OrgMembers == {p \in People : member[p] # "none"}

\* By created_at, the newest first.
Newer == [p \in People |-> {q \in People : CreatedAt[q] > CreatedAt[p]}]

GetUsersByOrg == OrderBy(OrgMembers, Newer)

\* A filter of "ALL" is none.
HavingStatus(status) == {p \in OrgMembers : status = "ALL" \/ member[p] = status}

GetUsersByOrgPaginated(status) == OrderBy(HavingStatus(status), Newer)

GetTotalUsersByOrg == Cardinality(OrgMembers)

Assigned   == {p \in OrgMembers : \E t \in OrgTeams : InTeam(t, p)}
Unassigned == {p \in OrgMembers : ~\E t \in OrgTeams : InTeam(t, p)}

GetAssignedOrgUsers   == OrderBy(Assigned, Newer)
GetUnassignedOrgUsers == OrderBy(Unassigned, Newer)

--------------------------------------------------------------------------------
(* Teams *)

GetTeamMembersDetails(t) == {p \in People : InTeam(t, p)}

Counted(t) == [team |-> t, members |-> Cardinality(GetTeamMembersDetails(t))]

GetOrgTeams == {Counted(t) : t \in OrgTeams}

\* The join with the managers keeps one row for each member.
GetAdminManagedTeams(a) ==
    {[team |-> t, members |-> Cardinality({a} \X GetTeamMembersDetails(t))] :
        t \in {u \in OrgTeams : Manages(a, u)}}

GetAdminTeamWiseStats(a) == {Counted(t) : t \in {u \in OrgTeams : Manages(a, u)}}

GetTotalUsersInAdminTeams(a) ==
    Cardinality({p \in People : \E t \in OrgTeams : Manages(a, t) /\ InTeam(t, p)})

GetAdminDashboardStats(a) ==
    [total |-> GetTotalUsersInAdminTeams(a), teams |-> GetAdminTeamWiseStats(a)]

GetUserTeams(p) == {t \in OrgTeams : InTeam(t, p)}

GetEmployeeTeams(p) == {Counted(t) : t \in GetUserTeams(p)}

GetUserTeamsWithAdmins(p) ==
    {[team |-> t, admins |-> {q \in People : Manages(q, t)}] : t \in GetUserTeams(p)}

\* By the team's name, and then the newest people.
ByTeam ==
    [r \in OrgTeams \X People |->
        {s \in OrgTeams \X People :
            \/ TeamName[s[1]] < TeamName[r[1]]
            \/ s[1] = r[1] /\ CreatedAt[s[2]] > CreatedAt[r[2]]}]

\* A row for each membership.
TeamEmployees(a) ==
    {r \in OrgTeams \X People : Manages(a, r[1]) /\ InTeam(r[1], r[2]) /\ r[2] \in OrgMembers}

GetTeamEmployeesPaginated(a) == OrderBy(TeamEmployees(a), ByTeam)

ByTeamName == [t \in OrgTeams |-> {u \in OrgTeams : TeamName[u] < TeamName[t]}]

GetAdminTeamNames(a) == OrderBy({t \in OrgTeams : Manages(a, t)}, ByTeamName)

--------------------------------------------------------------------------------
(* Tasks *)

OfTeam(t)     == {i \in DOMAIN tasks : tasks[i].team = t}
Managed(a)    == {i \in DOMAIN tasks : Manages(a, tasks[i].team)}
TakenBy(t, p) == {i \in OfTeam(t) : \E r \in Roles : <<p, r>> \in tasks[i].parts}

\* The newest first.
GetTeamTasks(t) == OrderBy(OfTeam(t), Latest)

GetAdminAllTasks(a) == OrderBy(Managed(a), Latest)

\* Mutant: a row for each role in which they take part.
EmployeeTasksByRole(t, p) ==
    FlattenSeq([k \in DOMAIN GetTeamTasks(t) |-> LET i == GetTeamTasks(t)[k] IN
        [n \in 1..Cardinality({s \in Roles : <<p, s>> \in tasks[i].parts}) |-> i]])

\* DISTINCT: once, whatever the roles in which they take part.
GetEmployeeTasks(t, p) == OrderBy(TakenBy(t, p), Latest)

\* Updates come the newest first, comments the oldest first.
GetTaskUpdates    == OrderBy(1 .. updates.updates, Latest)
GetUpdateComments == OrderBy(1 .. updates.comments, Oldest)

--------------------------------------------------------------------------------
(* Pages *)

\* The total comes with each row, so a page without rows has none.
Paged(rows, limit, offset) == LET cut == Cut(rows, limit, offset) IN
    [rows |-> cut, last |-> Len(rows) <= offset + limit,
     total |-> IF cut = <<>> THEN 0 ELSE Len(rows)]

\* The timeline and its comments come without a total: a short page is the last.
Unpaged(rows, limit, offset) == LET cut == Cut(rows, limit, offset) IN
    [rows |-> cut, last |-> Len(cut) < limit, total |-> 0]

OrgUsersPage(status, limit, offset) == Paged(GetUsersByOrgPaginated(status), limit, offset)

TeamEmployeesPage(a, limit, offset) ==
    Paged(GetTeamEmployeesPaginated(a), limit, offset)

UnassignedUsersPage(limit, offset) == Paged(GetUnassignedOrgUsers, limit, offset)

AssignedUsersPage(limit, offset) == Paged(GetAssignedOrgUsers, limit, offset)

TeamTasksPage(t, limit, offset) == Paged(GetTeamTasks(t), limit, offset)

AdminTasksPage(a, limit, offset) == Paged(GetAdminAllTasks(a), limit, offset)

EmployeeTasksPage(t, p, limit, offset) == Paged(GetEmployeeTasks(t, p), limit, offset)

TaskUpdatesPage(limit, offset) == Unpaged(GetTaskUpdates, limit, offset)

UpdateCommentsPage(limit, offset) == Unpaged(GetUpdateComments, limit, offset)

\* The alert a super admin finds in the bell: the total of a page of one row.
UnassignedAlert == UnassignedUsersPage(1, 0).total

Lists ==
    {[of |-> "users", status |-> s] : s \in {"ALL", "ACTIVE"}}
        \cup {[of |-> l] : l \in {"unassigned", "assigned", "updates", "comments"}}
        \cup {[of |-> l, by |-> p] : l \in {"employees", "adminTasks"}, p \in People}
        \cup {[of |-> "teamTasks", team |-> t] : t \in OrgTeams}
        \cup {[of |-> "myTasks", team |-> t, by |-> p] : t \in OrgTeams, p \in People}

Page(l, limit, offset) ==
    CASE l.of = "users"      -> OrgUsersPage(l.status, limit, offset)
      [] l.of = "unassigned" -> UnassignedUsersPage(limit, offset)
      [] l.of = "assigned"   -> AssignedUsersPage(limit, offset)
      [] l.of = "employees"  -> TeamEmployeesPage(l.by, limit, offset)
      [] l.of = "adminTasks" -> AdminTasksPage(l.by, limit, offset)
      [] l.of = "teamTasks"  -> TeamTasksPage(l.team, limit, offset)
      [] l.of = "myTasks"    -> EmployeeTasksPage(l.team, l.by, limit, offset)
      [] l.of = "updates"    -> TaskUpdatesPage(limit, offset)
      [] OTHER               -> UpdateCommentsPage(limit, offset)

\* What a list is of.
RowSet(l) ==
    CASE l.of = "users"      -> HavingStatus(l.status)
      [] l.of = "unassigned" -> Unassigned
      [] l.of = "assigned"   -> Assigned
      [] l.of = "employees"  -> TeamEmployees(l.by)
      [] l.of = "adminTasks" -> Managed(l.by)
      [] l.of = "teamTasks"  -> OfTeam(l.team)
      [] l.of = "myTasks"    -> TakenBy(l.team, l.by)
      [] l.of = "updates"    -> 1 .. updates.updates
      [] OTHER               -> 1 .. updates.comments

\* Mutant: pages counted from zero.
OffsetFromZero(page) == page * Limit

Offset(page) == (page - 1) * Limit

NoWalk == [page |-> 0, done |-> FALSE]

Founder(p) == Newer[p] = People \ {p}

\* The oldest account has made the teams; the newest person has yet to join.
ListingsInit ==
    /\ member = [p \in People |-> IF Newer[p] = {} /\ ~Founder(p) THEN "none" ELSE "ACTIVE"]
    /\ teamRole = [t \in OrgTeams |-> [p \in People |->
                    IF Founder(p) THEN "TEAM_ADMIN" ELSE "none"]]
    /\ tasks = <<>>
    /\ updates = [updates |-> 0, comments |-> 0]
    /\ walk = NoWalk
    /\ writes = 0

\* steady: rows that have been in the list all along; gone: some have not.
Open(l) ==
    /\ walk = NoWalk
    /\ walk' = [list |-> l, page |-> 1, got |-> <<>>, steady |-> RowSet(l),
                come |-> FALSE, gone |-> FALSE, done |-> FALSE]
    /\ UNCHANGED <<member, teamRole, tasks, updates, writes>>

\* The next page, until the last by the total, or the length, of the page.
Read ==
    /\ walk # NoWalk /\ ~walk.done
    /\ \E page \in {Page(walk.list, Limit, Offset(walk.page))} :
        walk' = [walk EXCEPT !.got = walk.got \o page.rows,
                             !.page = walk.page + 1,
                             !.done = page.last]
    /\ UNCHANGED <<member, teamRole, tasks, updates, writes>>

--------------------------------------------------------------------------------
(* What changes the lists *)

\* Bounds: MaxWrites changes, and none after the reader has finished.
Write ==
    /\ writes < MaxWrites /\ writes' = writes + 1
    /\ ~walk.done
    /\ IF walk = NoWalk THEN walk' = walk
        ELSE \E l \in {walk.list} : \E before \in {RowSet(l)}, after \in {RowSet(l)'} :
            walk' = [walk EXCEPT !.steady = walk.steady \cap after,
                                 !.come = walk.come \/ ~(after \subseteq before),
                                 !.gone = walk.gone \/ ~(before \subseteq after)]

\* InviteUser, AcceptInvite and UpdateUserSystemProfile, for these lists.
SetMember(p, status) ==
    /\ <<member[p], status>> \in
        {<<"none", "INVITED">>, <<"INVITED", "ACTIVE">>, <<"ACTIVE", "SUSPENDED">>}
    /\ member' = [member EXCEPT ![p] = status]
    /\ UNCHANGED <<teamRole, tasks, updates>>
    /\ Write

UpsertTeamMember(t, p, role) ==
    /\ member[p] = "ACTIVE" /\ teamRole[t][p] # role
    /\ teamRole' = [teamRole EXCEPT ![t] = [teamRole[t] EXCEPT ![p] = role]]
    /\ UNCHANGED <<member, tasks, updates>>
    /\ Write

RemoveTeamMember(t, p) ==
    /\ InTeam(t, p)
    /\ \E q \in People \ {p} : Manages(q, t)
    /\ teamRole' = [teamRole EXCEPT ![t] = [teamRole[t] EXCEPT ![p] = "none"]]
    /\ UNCHANGED <<member, tasks, updates>>
    /\ Write

CreateTask(t, parts) ==
    /\ Len(tasks) < MaxTasks
    /\ tasks' = Append(tasks, [team |-> t, parts |-> parts])
    /\ UNCHANGED <<member, teamRole, updates>>
    /\ Write

\* The edit form's participants take the place of the old ones.
SetParticipants(i, parts) ==
    /\ tasks[i].parts # parts
    /\ tasks' = [tasks EXCEPT ![i] = [tasks[i] EXCEPT !.parts = parts]]
    /\ UNCHANGED <<member, teamRole, updates>>
    /\ Write

AddTaskUpdate ==
    /\ tasks # <<>> /\ updates.updates < MaxTasks
    /\ updates' = [updates EXCEPT !.updates = updates.updates + 1]
    /\ UNCHANGED <<member, teamRole, tasks>>
    /\ Write

AddUpdateComment ==
    /\ updates.updates > 0 /\ updates.comments < MaxTasks
    /\ updates' = [updates EXCEPT !.comments = updates.comments + 1]
    /\ UNCHANGED <<member, teamRole, tasks>>
    /\ Write

\* One assignee, in one role or two.
Participants ==
    {{<<p, "ASSIGNEE">>} \cup (s \X {"SUBSCRIBER"}) :
        p \in {q \in People : member[q] = "ACTIVE"},
        s \in {{}} \cup {{q} : q \in {r \in People : member[r] = "ACTIVE"}}}

ListingsNext ==
    \/ \E l \in Lists : Open(l)
    \/ Read
    \/ \E p \in People :
        \/ \E s \in {"INVITED", "ACTIVE", "SUSPENDED"} : SetMember(p, s)
        \/ \E t \in OrgTeams : RemoveTeamMember(t, p) \/ \E r \in TeamRoleEnum : UpsertTeamMember(t, p, r)
    \/ \E parts \in Participants :
        \/ \E t \in OrgTeams : CreateTask(t, parts)
        \/ \E i \in DOMAIN tasks : SetParticipants(i, parts)
    \/ AddTaskUpdate \/ AddUpdateComment

ListingsSpec == ListingsInit /\ [][ListingsNext]_listings

--------------------------------------------------------------------------------
(* Properties *)

TeamsAgree(p) ==
    /\ GetAdminDashboardStats(p).teams = GetAdminManagedTeams(p)
    /\ GetAdminManagedTeams(p) \cup GetEmployeeTeams(p) \subseteq GetOrgTeams
    /\ GetAdminDashboardStats(p).total =
        Cardinality({r[2] : r \in ToSet(GetTeamEmployeesPaginated(p))})
    /\ ToSet(GetAdminTeamNames(p)) = {m.team : m \in GetAdminManagedTeams(p)}
    /\ \A t \in GetUserTeamsWithAdmins(p) :
        p \in t.admins <=> \E m \in GetAdminManagedTeams(p) : m.team = t.team

TasksAgree(t, p) ==
    /\ Cardinality(ToSet(GetEmployeeTasks(t, p))) = Len(GetEmployeeTasks(t, p))
    /\ Manages(p, t) => ToSet(GetEmployeeTasks(t, p)) \subseteq ToSet(GetAdminAllTasks(p))

\* Queries that tell the same fact tell the same: who has a team and who has
\* none, how many there are, who is in a team and whose task is whose, each
\* once (services/admin.go, tasks.go).  Nothing of it is a reader's: it is enough
\* to look where nobody reads.
BoardsAgree == walk = NoWalk =>
    /\ ToSet(GetAssignedOrgUsers) \cup ToSet(GetUnassignedOrgUsers) = ToSet(GetUsersByOrg)
    /\ Len(GetAssignedOrgUsers) + UnassignedAlert = GetTotalUsersByOrg
    /\ \A p \in People : TeamsAgree(p) /\ \A t \in OrgTeams : TasksAgree(t, p)

\* Whoever pages through a list to its end has seen every row that was there all
\* along, unless one left meanwhile; and none of them twice, unless one came as well
\* (LIMIT and OFFSET of every paginated query, read by a statement for each page).
WalksAreComplete ==
    walk # NoWalk /\ walk.done /\ ~walk.gone =>
        /\ walk.steady \subseteq ToSet(walk.got)
        /\ walk.come \/ Cardinality(ToSet(walk.got)) = Len(walk.got)

================================================================================
