--------------------------------- MODULE Teams ---------------------------------
(***************************************************************************)
(* Organisations, the people in them and their teams: memberships, system  *)
(* roles, team rosters (services/admin.go, services/auth.go).  One person  *)
(* may be in several organisations.  Inviting, accepting and creating a    *)
(* team are transactions; a profile update, a change of a roster and a     *)
(* transfer are statements of their own, each committed when it ends.      *)
(***************************************************************************)
EXTENDS Naturals, FiniteSets

CONSTANTS
    Orgs, Users,
    Founder,            \* who registered the organisation
    Teams, OrgOf,       \* team ids, and the organisation each would be created in
    Requests,           \* API requests that may be in progress at a time
    GivenRoles,         \* what a profile update may set
    Spellings,          \* how the id of a user may be written in a request
    MaxRequests, MaxFaults   \* bounds on requests of several statements, and on errors

ASSUME TeamsAssumption ==
    /\ Founder \in [Orgs -> Users] /\ OrgOf \in [Teams -> Orgs]
    /\ GivenRoles \subseteq {"SUPER_ADMIN", "ADMIN", "EMPLOYEE"}
    /\ Spellings \subseteq {"canonical", "other"}
    /\ MaxRequests \in Nat /\ MaxFaults \in Nat

VARIABLES
    member,         \* org_memberships
    roles,          \* user_system_roles
    supers,         \* whose session in the organisation may say SUPER_ADMIN
    teams, roster,  \* teams and team_members
    req,            \* what a request is in the middle of
    unroled,        \* whose update failed between the wipe and the insert
    served, faults

vars == <<member, roles, supers, teams, roster, req, unroled, served, faults>>
people == <<member, roles, supers, unroled>>

SystemRoles == {"SUPER_ADMIN", "ADMIN", "EMPLOYEE"}
Managers    == {"SUPER_ADMIN", "ADMIN"}

Idle == [step |-> "idle"]

Profile  == [step : {"status", "wipe", "insert"}, org : Orgs, user : Users,
             role : GivenRoles, status : {"ACTIVE", "SUSPENDED"}]
\* role "none": a removal.  seen: the admins it has counted.
Manage   == [step : {"count", "write"}, user : Users, spelling : Spellings, team : Teams,
             role : {"none", "MEMBER", "TEAM_ADMIN"}, seen : SUBSET Users]
Transfer == [step : {"countFrom", "leave", "arrive"}, user : Users, spelling : Spellings,
             team : Teams, to : Teams, seen : SUBSET Users]

TypeOK ==
    /\ member \in [Orgs -> [Users -> {"none", "INVITED", "ACTIVE", "SUSPENDED"}]]
    /\ roles \in [Orgs -> [Users -> SUBSET SystemRoles]]
    /\ supers \subseteq Orgs \X Users /\ unroled \subseteq Orgs \X Users
    /\ teams \subseteq Teams
    /\ roster \in [Teams -> [Users -> {"none", "MEMBER", "TEAM_ADMIN"}]]
    /\ req \in [Requests -> {Idle} \cup Profile \cup Manage \cup Transfer]
    /\ served \in Nat /\ faults \in Nat

Admins(t) == {u \in Users : roster[t][u] = "TEAM_ADMIN"}

\* RegisterOrganization, once for each.
Init ==
    /\ member = [o \in Orgs |-> [u \in Users |-> IF u = Founder[o] THEN "ACTIVE" ELSE "none"]]
    /\ roles = [o \in Orgs |-> [u \in Users |-> IF u = Founder[o] THEN {"SUPER_ADMIN"} ELSE {}]]
    /\ supers = {<<o, Founder[o]>> : o \in Orgs}
    /\ teams = {} /\ roster = [t \in Teams |-> [u \in Users |-> "none"]]
    /\ req = [r \in Requests |-> Idle]
    /\ unroled = {} /\ served = 0 /\ faults = 0

Active(o, u) == member[o][u] = "ACTIVE"

\* A route of Super Admins: the organisation and the role from the session, the status
\* in that organisation from the table.
SuperAdmin(o, q) == <<o, q>> \in supers /\ Active(o, q)

Begin(r, request) ==
    /\ req[r] = Idle /\ served < MaxRequests
    /\ served' = served + 1
    /\ req' = [req EXCEPT ![r] = request]

GoTo(r, step) == req' = [req EXCEPT ![r] = [req[r] EXCEPT !.step = step]]
End(r)        == req' = [req EXCEPT ![r] = Idle]

--------------------------------------------------------------------------------
(* Memberships *)

\* Mutant: the transaction forgets the role.
InviteWithoutRole(o, u) ==
    /\ \E q \in Users : SuperAdmin(o, q)
    /\ member[o][u] = "none"
    /\ member' = [member EXCEPT ![o][u] = "INVITED"]
    /\ UNCHANGED <<roles, supers, teams, roster, req, unroled, served, faults>>

\* A membership of any status makes the insert fail, and the transaction with it.
InviteUser(o, u) ==
    /\ \E q \in Users : SuperAdmin(o, q)
    /\ member[o][u] = "none"
    /\ member' = [member EXCEPT ![o][u] = "INVITED"]
    /\ \E role \in {"ADMIN", "EMPLOYEE"} : roles' = [roles EXCEPT ![o][u] = {role}]
    /\ UNCHANGED <<supers, teams, roster, req, unroled, served, faults>>

\* The link stays good for two days, whatever the membership's status is by then.
AcceptInvite(o, u) ==
    /\ u # Founder[o] /\ member[o][u] # "none"
    /\ member' = [member EXCEPT ![o][u] = "ACTIVE"]
    /\ UNCHANGED <<roles, supers, teams, roster, req, unroled, served, faults>>

\* UpdateUserSystemProfile: IsUserInOrg asks for an ACTIVE membership.
CheckProfile(r, o, u) ==
    /\ \E q \in Users : SuperAdmin(o, q)
    /\ Active(o, u)
    /\ \E role \in GivenRoles, status \in {"ACTIVE", "SUSPENDED"} :
        Begin(r, [step |-> "status", org |-> o, user |-> u, role |-> role, status |-> status])
    /\ UNCHANGED <<people, teams, roster, faults>>

UpdateMembershipStatus(r) ==
    /\ req[r].step = "status"
    /\ member' = [member EXCEPT ![req[r].org][req[r].user] = req[r].status]
    /\ GoTo(r, "wipe")
    /\ UNCHANGED <<roles, supers, unroled, teams, roster, served, faults>>

DeleteUserSystemRoles(r) ==
    /\ req[r].step = "wipe"
    /\ roles' = [roles EXCEPT ![req[r].org][req[r].user] = {}]
    /\ GoTo(r, "insert")
    /\ UNCHANGED <<member, supers, unroled, teams, roster, served, faults>>

\* A role that another update has inserted meanwhile is an error.
InsertUserSystemRole(r) ==
    /\ req[r].step = "insert"
    /\ LET o == req[r].org  u == req[r].user  role == req[r].role
       IN  /\ roles' = [roles EXCEPT ![o][u] = @ \cup {role}]
           /\ supers' = IF role = "SUPER_ADMIN" THEN supers \cup {<<o, u>>} ELSE supers
           /\ unroled' = unroled \ {<<o, u>>}
    /\ End(r)
    /\ UNCHANGED <<member, teams, roster, served, faults>>

--------------------------------------------------------------------------------
(* Teams *)

CreateTeam(t, q) ==
    /\ t \notin teams
    /\ SuperAdmin(OrgOf[t], q)
    /\ teams' = teams \cup {t}
    /\ roster' = [roster EXCEPT ![t][q] = "TEAM_ADMIN"]
    /\ UNCHANGED <<people, req, served, faults>>

\* ManageTeamMember: the reads before the count, for the requester q and the user.  The
\* requester's session may be of any organisation.
MayManage(q, t) ==
    /\ Active(OrgOf[t], q)
    /\ "SUPER_ADMIN" \in roles[OrgOf[t]][q] \/ roster[t][q] = "TEAM_ADMIN"

MayJoin(t, u, role) ==
    /\ role # "none" => Active(OrgOf[t], u)
    /\ role = "TEAM_ADMIN" => roles[OrgOf[t]][u] \cap Managers # {}

CheckManage(r, u, t) ==
    /\ t \in teams
    /\ \E q \in Users : MayManage(q, t)
    /\ \E role \in {"none", "MEMBER", "TEAM_ADMIN"}, spelling \in Spellings :
        /\ MayJoin(t, u, role)
        /\ Begin(r, [step |-> IF role = "TEAM_ADMIN" THEN "write" ELSE "count",
                     user |-> u, spelling |-> spelling, team |-> t, role |-> role,
                     seen |-> {}])
    /\ UNCHANGED <<people, teams, roster, faults>>

\* Mutant: the count is compared with zero.
NotTheLastOfNone(q) == ~(Cardinality(Admins(q.team)) < 1 /\ q.user \in Admins(q.team))

\* The only admin's id is compared with the request's as text: an id in upper case or
\* without its dashes is read by ParseUUID all the same, and is not found.
NotTheLast(q) ==
    ~(/\ Cardinality(Admins(q.team)) <= 1
      /\ q.user \in Admins(q.team) /\ q.spelling = "canonical")

Counted(r) == IF req[r].step = "count" THEN "write" ELSE "leave"

\* The count, and who the one admin is, read last of all before the write.
CountAdmins(r) ==
    /\ req[r].step \in {"count", "countFrom"}
    /\ req' = [req EXCEPT ![r] =
            IF NotTheLast(req[r])
            THEN [req[r] EXCEPT !.step = Counted(r), !.seen = Admins(req[r].team)]
            ELSE Idle]
    /\ UNCHANGED <<people, teams, roster, served, faults>>

\* fetchTeamMembers fails where the count is one at most; its error is taken to mean
\* that the user is not the admin.
FailCount(r) ==
    /\ req[r].step \in {"count", "countFrom"}
    /\ Cardinality(Admins(req[r].team)) <= 1
    /\ faults < MaxFaults /\ faults' = faults + 1
    /\ GoTo(r, Counted(r))
    /\ UNCHANGED <<people, teams, roster, served>>

WriteMember(r) ==
    /\ req[r].step = "write"
    /\ roster' = [roster EXCEPT ![req[r].team][req[r].user] = req[r].role]
    /\ End(r)
    /\ UNCHANGED <<people, teams, served, faults>>

\* Mutant: the requester's organisation is compared with the first team's only.
MayTransferAnywhere(q, u, from, to) == Active(OrgOf[from], q) /\ Active(OrgOf[from], u)

\* TransferTeamMember: the requester has to be in the organisations of both teams, the
\* user in that of the first only.
MayTransfer(q, u, from, to) ==
    Active(OrgOf[from], q) /\ Active(OrgOf[to], q) /\ Active(OrgOf[from], u)

\* The user need not be in the team it leaves, and may already be in the one it comes to.
CheckTransfer(r, u, from, to) ==
    /\ from \in teams /\ to \in teams
    /\ \E o \in Orgs, q \in Users :
        SuperAdmin(o, q) /\ MayTransfer(q, u, from, to)
    /\ \E spelling \in Spellings :
        Begin(r, [step |-> "countFrom", user |-> u, spelling |-> spelling, team |-> from,
                  to |-> to, seen |-> {}])
    /\ UNCHANGED <<people, teams, roster, faults>>

LeaveTeam(r) ==
    /\ req[r].step = "leave"
    /\ roster' = [roster EXCEPT ![req[r].team][req[r].user] = "none"]
    /\ GoTo(r, "arrive")
    /\ UNCHANGED <<people, teams, served, faults>>

ArriveInTeam(r) ==
    /\ req[r].step = "arrive"
    /\ roster' = [roster EXCEPT ![req[r].to][req[r].user] = "MEMBER"]
    /\ End(r)
    /\ UNCHANGED <<people, teams, served, faults>>

\* A statement fails and ends its request; what was written before it stays.
Fail(r) ==
    /\ req[r] # Idle
    /\ faults < MaxFaults /\ faults' = faults + 1
    /\ unroled' = IF req[r].step = "insert" THEN unroled \cup {<<req[r].org, req[r].user>>}
                                            ELSE unroled
    /\ End(r)
    /\ UNCHANGED <<member, roles, supers, teams, roster, served>>

--------------------------------------------------------------------------------
Next ==
    \/ \E o \in Orgs, u \in Users : InviteUser(o, u) \/ AcceptInvite(o, u)
    \/ \E t \in Teams, q \in Users : CreateTeam(t, q)
    \/ \E r \in Requests :
        \/ \E u \in Users :
            \/ \E o \in Orgs : CheckProfile(r, o, u)
            \/ \E t \in Teams : CheckManage(r, u, t)
            \/ \E from, to \in Teams : CheckTransfer(r, u, from, to)
        \/ UpdateMembershipStatus(r) \/ DeleteUserSystemRoles(r) \/ InsertUserSystemRole(r)
        \/ CountAdmins(r) \/ FailCount(r) \/ WriteMember(r)
        \/ LeaveTeam(r) \/ ArriveInTeam(r)
        \/ Fail(r)

Spec == Init /\ [][Next]_vars

--------------------------------------------------------------------------------
(* Properties *)

Joined(o, u) == member[o][u] \in {"ACTIVE", "SUSPENDED"}

\* What the organisation guard of a transfer promises: everybody on a roster has joined
\* the organisation of the team.  It fails (CheckTransfer).
MembersHaveJoined ==
    \A t \in Teams, u \in Users : roster[t][u] # "none" => Joined(OrgOf[t], u)

\* A member of the team's organisation, or a colleague of one in another.
WithinReach(t, u) ==
    \/ Joined(OrgOf[t], u)
    \/ \E o \in Orgs, q \in Users : Joined(o, u) /\ Joined(o, q) /\ Joined(OrgOf[t], q)

\* team_members has no foreign key to org_memberships: who is on a roster rests on checks
\* made before the write, and on a status that no request ever takes back to INVITED.
\* Somebody who has not joined the team's organisation is there only if they have joined
\* another, and somebody has joined both: organisations that share nobody stay apart.
OrganisationsStayApart ==
    \A t \in Teams, u \in Users : roster[t][u] # "none" => t \in teams /\ WithinReach(t, u)

\* Everybody in an organisation has a system role there, except while a profile update is
\* between its wipe and its insert, or after one that failed there; two updates of one
\* user may run together, and updates in two organisations.
RoleUnlessUpdating ==
    \A o \in Orgs, u \in Users : member[o][u] # "none" /\ roles[o][u] = {} =>
        \/ <<o, u>> \in unroled
        \/ \E r \in Requests : req[r].step = "insert" /\ req[r].org = o /\ req[r].user = u

\* What the check before a removal is for: a team always has an admin.  It fails, in four
\* ways.
TeamsKeepAnAdmin == \A t \in teams : Admins(t) # {}

\* There is no fifth: a team is left without an admin only by a request that counted
\* admins who are no longer the team's, or could not read who they are, or that looked
\* for the last one under another spelling, or by a transfer that makes its only admin a
\* member.
AdminsGoOnlyUnseen ==
    [][\A t \in Teams : Admins(t) # {} /\ Admins(t)' = {} =>
        \E r \in Requests :
            /\ req[r].step \in {"write", "leave", "arrive"} /\ req'[r] # req[r]
            /\ \/ /\ req[r].step # "arrive" /\ req[r].team = t
                  /\ req[r].seen # Admins(t) \/ req[r].spelling = "other"
               \/ req[r].step = "arrive" /\ req[r].to = t]_vars
================================================================================
