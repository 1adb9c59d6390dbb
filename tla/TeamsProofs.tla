------------------------------ MODULE TeamsProofs ------------------------------
(***************************************************************************)
(* Theorems about Teams for any people, teams, requests and bounds.        *)
(***************************************************************************)
EXTENDS Teams, FiniteSetTheorems, TLAPS

(***************************************************************************)
(* The inductive invariant.  OrganisationsStayApart and RoleUnlessUpdating *)
(* do not stand alone: a request writes on the strength of a check it has  *)
(* left behind, so what it checked must still hold when it writes.         *)
(***************************************************************************)
Updating     == {"status", "wipe", "insert"}
Managing     == {"count", "write"}
Transferring == {"countFrom", "leave", "arrive"}

\* Somebody has joined the organisations of both.
Shared(t, k) == \E q \in Users : Joined(OrgOf[t], q) /\ Joined(OrgOf[k], q)

\* What a request has checked outlives the check.
RequestSound(r) ==
    /\ req[r].step \in Updating => Joined(req[r].org, req[r].user)
    /\ req[r].step \in Managing \cup Transferring => req[r].team \in teams
    /\ req[r].step \in Managing /\ req[r].role # "none" =>
        Joined(OrgOf[req[r].team], req[r].user)
    /\ req[r].step \in Transferring =>
        /\ req[r].to \in teams
        /\ Joined(OrgOf[req[r].team], req[r].user)
        /\ Shared(req[r].team, req[r].to)

\* A request that is let past the count has not seen its user as the only admin, unless
\* it looked for another spelling.
SeenSound(r) ==
    req[r].step \in Managing \cup Transferring /\ req[r].spelling = "canonical" =>
        ~(req[r].user \in req[r].seen /\ Cardinality(req[r].seen) <= 1)

IInv ==
    /\ TypeOK
    /\ OrganisationsStayApart
    /\ RoleUnlessUpdating
    /\ \A r \in Requests : RequestSound(r) /\ SeenSound(r)

(***************************************************************************)
(* Memberships only grow.                                                  *)
(***************************************************************************)

NobodyLeaves == \A o \in Orgs, u \in Users : Joined(o, u) => Joined(o, u)'

\* What a check has found out about memberships stays true.
LEMMA ChecksLast ==
    ASSUME NobodyLeaves, NEW t \in Teams
    PROVE  /\ \A u \in Users : Joined(OrgOf[t], u) => Joined(OrgOf[t], u)'
           /\ \A k \in Teams : Shared(t, k) => Shared(t, k)'
           /\ \A u \in Users : WithinReach(t, u) => WithinReach(t, u)'
<1>1. \A k \in Teams : OrgOf[k] \in Orgs
  BY TeamsAssumption
<1>2. \A u \in Users : Joined(OrgOf[t], u) => Joined(OrgOf[t], u)'
  BY <1>1 DEF NobodyLeaves
<1>3. \A k \in Teams : Shared(t, k) => Shared(t, k)'
  BY <1>1 DEF NobodyLeaves, Shared
<1>4. \A u \in Users : WithinReach(t, u) => WithinReach(t, u)'
  BY <1>1 DEF NobodyLeaves, WithinReach
<1>5. QED
  BY <1>2, <1>3, <1>4

\* Rosters stay in order where none is written.
LEMMA RostersStay ==
    ASSUME IInv, NobodyLeaves, roster' = roster, teams \subseteq teams'
    PROVE  OrganisationsStayApart'
BY ChecksLast DEF IInv, OrganisationsStayApart

(***************************************************************************)
(* Requests.                                                               *)
(***************************************************************************)

\* Which fields a request has follows from its step.
LEMMA RequestCases ==
    ASSUME NEW q \in {Idle} \cup Profile \cup Manage \cup Transfer
    PROVE  /\ q.step \in Updating => q \in Profile
           /\ q.step \in Managing => q \in Manage
           /\ q.step \in Transferring => q \in Transfer
           /\ q = Idle \/ q.step \in Updating \cup Managing \cup Transferring
BY DEF Idle, Profile, Manage, Transfer, Updating, Managing, Transferring

\* A request that is not written stays sound.
LEMMA SoundStays ==
    ASSUME IInv, NobodyLeaves, teams \subseteq teams', NEW s \in Requests, req'[s] = req[s]
    PROVE  (RequestSound(s) /\ SeenSound(s))'
<1>1. req[s] \in {Idle} \cup Profile \cup Manage \cup Transfer
  BY DEF IInv, TypeOK
<1>2. RequestSound(s) /\ SeenSound(s)
  BY DEF IInv
<1>3. req[s].step \in Updating => Joined(req[s].org, req[s].user)'
  <2>1. req[s].step \in Updating => req[s].org \in Orgs /\ req[s].user \in Users
    BY <1>1, RequestCases DEF Profile
  <2>2. QED
    BY <1>2, <2>1 DEF RequestSound, NobodyLeaves
<1>4. req[s].step \in Managing /\ req[s].role # "none" =>
        Joined(OrgOf[req[s].team], req[s].user)'
  <2>1. req[s].step \in Managing => req[s].team \in Teams /\ req[s].user \in Users
    BY <1>1, RequestCases DEF Manage
  <2>2. QED
    BY <1>2, <2>1, ChecksLast DEF RequestSound
<1>5. req[s].step \in Transferring =>
        Joined(OrgOf[req[s].team], req[s].user)' /\ Shared(req[s].team, req[s].to)'
  <2>1. req[s].step \in Transferring =>
            req[s].team \in Teams /\ req[s].to \in Teams /\ req[s].user \in Users
    BY <1>1, RequestCases DEF Transfer
  <2>2. QED
    BY <1>2, <2>1, ChecksLast DEF RequestSound
<1>6. RequestSound(s)'
  BY <1>2, <1>3, <1>4, <1>5 DEF RequestSound
<1>7. SeenSound(s)'
  BY <1>2 DEF SeenSound
<1>8. QED
  BY <1>6, <1>7

\* One request is written, to something as sound as what it was.
LEMMA OneRequest ==
    ASSUME IInv, NEW r \in Requests, NEW q \in {Idle} \cup Profile \cup Manage \cup Transfer,
           req' = [req EXCEPT ![r] = q],
           NobodyLeaves, teams \subseteq teams',
           RequestSound(r)', SeenSound(r)'
    PROVE  /\ req' \in [Requests -> {Idle} \cup Profile \cup Manage \cup Transfer]
           /\ \A s \in Requests : (RequestSound(s) /\ SeenSound(s))'
<1>1. req \in [Requests -> {Idle} \cup Profile \cup Manage \cup Transfer]
  BY DEF IInv, TypeOK
<1>2. ASSUME NEW s \in Requests
      PROVE  (RequestSound(s) /\ SeenSound(s))'
  <2>1. CASE s = r
    BY <2>1
  <2>2. CASE s # r
    <3>1. req'[s] = req[s]
      BY <1>1, <2>2
    <3>2. QED
      BY <3>1, SoundStays
  <2>3. QED
    BY <2>1, <2>2
<1>3. QED
  BY <1>1, <1>2

(***************************************************************************)
(* Memberships.                                                            *)
(***************************************************************************)

\* An empty database with its founder satisfies the invariant.
LEMMA InitIInv == Init => IInv
<1> SUFFICES ASSUME Init PROVE IInv
  OBVIOUS
<1>1. TypeOK
  BY TeamsAssumption DEF Init, TypeOK, SystemRoles
<1>2. \A r \in Requests : req[r].step = "idle"
  BY DEF Init, Idle
<1>3. \A r \in Requests : RequestSound(r) /\ SeenSound(r)
  BY <1>2 DEF RequestSound, SeenSound, Updating, Managing, Transferring
<1>4. OrganisationsStayApart /\ RoleUnlessUpdating
  BY DEF Init, OrganisationsStayApart, RoleUnlessUpdating
<1>5. QED
  BY <1>1, <1>3, <1>4 DEF IInv

\* An invitation gives a membership nobody had, and its role.
LEMMA InviteStep ==
    ASSUME IInv, NEW o \in Orgs, NEW u \in Users, InviteUser(o, u)
    PROVE  IInv'
<1>1. PICK role \in {"ADMIN", "EMPLOYEE"} : roles' = [roles EXCEPT ![o][u] = {role}]
  BY DEF InviteUser
<1>2. TypeOK'
  BY <1>1 DEF IInv, TypeOK, InviteUser, SystemRoles
<1>3. NobodyLeaves
  BY DEF IInv, TypeOK, InviteUser, NobodyLeaves, Joined
<1>4. RoleUnlessUpdating'
  <2> SUFFICES ASSUME NEW k \in Orgs, NEW v \in Users, member'[k][v] # "none", roles'[k][v] = {}
               PROVE  \/ <<k, v>> \in unroled'
                      \/ \E s \in Requests :
                            req'[s].step = "insert" /\ req'[s].org = k /\ req'[s].user = v
    BY DEF RoleUnlessUpdating
  <2>1. ~(k = o /\ v = u) /\ member[k][v] # "none" /\ roles[k][v] = {}
    BY <1>1 DEF IInv, TypeOK, InviteUser
  <2>2. QED
    BY <2>1 DEF IInv, RoleUnlessUpdating, InviteUser
<1>5. OrganisationsStayApart' /\ \A r \in Requests : (RequestSound(r) /\ SeenSound(r))'
  BY <1>3, RostersStay, SoundStays DEF InviteUser
<1>6. QED
  BY <1>2, <1>4, <1>5 DEF IInv

\* An acceptance makes a member, and takes nothing from anybody.
LEMMA AcceptStep ==
    ASSUME IInv, NEW o \in Orgs, NEW u \in Users, AcceptInvite(o, u)
    PROVE  IInv'
<1>1. TypeOK'
  BY DEF IInv, TypeOK, AcceptInvite
<1>2. NobodyLeaves
  BY DEF IInv, TypeOK, AcceptInvite, NobodyLeaves, Joined
<1>3. RoleUnlessUpdating'
  BY DEF IInv, TypeOK, RoleUnlessUpdating, AcceptInvite
<1>4. OrganisationsStayApart' /\ \A r \in Requests : (RequestSound(r) /\ SeenSound(r))'
  BY <1>2, RostersStay, SoundStays DEF AcceptInvite
<1>5. QED
  BY <1>1, <1>3, <1>4 DEF IInv

\* A team is created by somebody who has joined its organisation.
LEMMA CreateTeamStep ==
    ASSUME IInv, NEW t \in Teams, NEW q \in Users, CreateTeam(t, q)
    PROVE  IInv'
<1>1. TypeOK'
  BY DEF IInv, TypeOK, CreateTeam, people
<1>2. NobodyLeaves /\ WithinReach(t, q)'
  BY DEF CreateTeam, people, NobodyLeaves, WithinReach, SuperAdmin, Active, Joined
<1>3. OrganisationsStayApart'
  <2> SUFFICES ASSUME NEW k \in Teams, NEW v \in Users, roster'[k][v] # "none"
               PROVE  k \in teams' /\ WithinReach(k, v)'
    BY DEF OrganisationsStayApart
  <2>1. CASE k = t /\ v = q
    BY <1>2, <2>1 DEF CreateTeam
  <2>2. CASE ~(k = t /\ v = q)
    <3>1. roster[k][v] # "none"
      BY <2>2 DEF IInv, TypeOK, CreateTeam
    <3>2. k \in teams /\ WithinReach(k, v)
      BY <3>1 DEF IInv, OrganisationsStayApart
    <3>3. QED
      BY <1>2, <3>2, ChecksLast DEF CreateTeam
  <2>3. QED
    BY <2>1, <2>2
<1>4. RoleUnlessUpdating'
  BY DEF IInv, TypeOK, RoleUnlessUpdating, CreateTeam, people
<1>5. \A r \in Requests : (RequestSound(r) /\ SeenSound(r))'
  BY <1>2, SoundStays DEF CreateTeam
<1>6. QED
  BY <1>1, <1>3, <1>4, <1>5 DEF IInv

(***************************************************************************)
(* Requests that begin and end.                                            *)
(***************************************************************************)

\* What a request is in the middle of does not matter to the rows, except that a
\* profile update past its wipe answers for a missing role.
LEMMA RowsStay ==
    ASSUME IInv, NEW r \in Requests, NEW q \in {Idle} \cup Profile \cup Manage \cup Transfer,
           req' = [req EXCEPT ![r] = q],
           UNCHANGED <<member, roles, supers, teams, roster>>,
           unroled' \subseteq Orgs \X Users, unroled \subseteq unroled',
           req[r].step = "insert" => <<req[r].org, req[r].user>> \in unroled',
           served' \in Nat, faults' \in Nat,
           RequestSound(r)', SeenSound(r)'
    PROVE  IInv'
<1> NobodyLeaves
  BY DEF NobodyLeaves, Joined
<1>1. /\ req' \in [Requests -> {Idle} \cup Profile \cup Manage \cup Transfer]
      /\ \A s \in Requests : (RequestSound(s) /\ SeenSound(s))'
  BY OneRequest
<1>2. TypeOK'
  BY <1>1 DEF IInv, TypeOK
<1>3. OrganisationsStayApart'
  BY RostersStay
<1>4. RoleUnlessUpdating'
  <2> SUFFICES ASSUME NEW o \in Orgs, NEW u \in Users, member'[o][u] # "none",
                      roles'[o][u] = {}, <<o, u>> \notin unroled'
               PROVE  \E s \in Requests :
                        req'[s].step = "insert" /\ req'[s].org = o /\ req'[s].user = u
    BY DEF RoleUnlessUpdating
  <2>1. PICK s \in Requests : req[s].step = "insert" /\ req[s].org = o /\ req[s].user = u
    BY DEF IInv, RoleUnlessUpdating
  <2>2. CASE s = r
    BY <2>1, <2>2
  <2>3. CASE s # r
    BY <2>1, <2>3 DEF IInv, TypeOK
  <2>4. QED
    BY <2>2, <2>3
<1>5. QED
  BY <1>1, <1>2, <1>3, <1>4 DEF IInv

\* A profile update begins, for a member.
LEMMA CheckProfileStep ==
    ASSUME IInv, NEW r \in Requests, NEW o \in Orgs, NEW u \in Users, CheckProfile(r, o, u)
    PROVE  IInv'
<1>1. PICK role \in GivenRoles, status \in {"ACTIVE", "SUSPENDED"} :
        Begin(r, [step |-> "status", org |-> o, user |-> u, role |-> role,
                  status |-> status])
  BY DEF CheckProfile
<1> DEFINE q == [step |-> "status", org |-> o, user |-> u, role |-> role,
                 status |-> status]
<1>2. q \in Profile
  BY DEF Profile
<1>3. req' = [req EXCEPT ![r] = q] /\ req[r].step = "idle"
  BY <1>1 DEF Begin, Idle
<1>4. req'[r] = q
  BY <1>3 DEF IInv, TypeOK
<1>5. RequestSound(r)' /\ SeenSound(r)'
  BY <1>4 DEF RequestSound, SeenSound, Updating, Managing, Transferring, Joined,
              CheckProfile, people, Active
<1>6. served' \in Nat /\ faults' \in Nat /\ unroled \subseteq Orgs \X Users
  BY <1>1 DEF IInv, TypeOK, Begin, CheckProfile
<1> HIDE DEF q
<1>7. QED
  BY <1>2, <1>3, <1>5, <1>6, RowsStay DEF CheckProfile, people

\* A change of a roster begins, in a team there is, for somebody who may join.
LEMMA CheckManageStep ==
    ASSUME IInv, NEW r \in Requests, NEW u \in Users, NEW t \in Teams, CheckManage(r, u, t)
    PROVE  IInv'
<1>1. PICK role \in {"none", "MEMBER", "TEAM_ADMIN"}, spelling \in Spellings :
        /\ MayJoin(t, u, role)
        /\ Begin(r, [step |-> IF role = "TEAM_ADMIN" THEN "write" ELSE "count",
                     user |-> u, spelling |-> spelling, team |-> t, role |-> role,
                     seen |-> {}])
  BY DEF CheckManage
<1> DEFINE q == [step |-> IF role = "TEAM_ADMIN" THEN "write" ELSE "count",
                 user |-> u, spelling |-> spelling, team |-> t, role |-> role,
                 seen |-> {}]
<1>2. q \in Manage
  BY DEF Manage
<1>3. req' = [req EXCEPT ![r] = q] /\ req[r].step = "idle"
  BY <1>1 DEF Begin, Idle
<1>4. req'[r] = q
  BY <1>3 DEF IInv, TypeOK
<1>5. role # "none" => Joined(OrgOf[t], u)'
  BY <1>1 DEF MayJoin, Active, Joined, CheckManage, people
<1>6. RequestSound(r)' /\ SeenSound(r)'
  BY <1>4, <1>5 DEF RequestSound, SeenSound, Updating, Managing, Transferring, CheckManage
<1>7. served' \in Nat /\ faults' \in Nat /\ unroled \subseteq Orgs \X Users
  BY <1>1 DEF IInv, TypeOK, Begin, CheckManage
<1> HIDE DEF q
<1>8. QED
  BY <1>2, <1>3, <1>6, <1>7, RowsStay DEF CheckManage, people

\* A transfer begins, between teams there are whose organisations the requester has
\* joined, for a member of the first.
LEMMA CheckTransferStep ==
    ASSUME IInv, NEW r \in Requests, NEW u \in Users, NEW from \in Teams, NEW to \in Teams,
           CheckTransfer(r, u, from, to)
    PROVE  IInv'
<1>1. PICK spelling \in Spellings :
        Begin(r, [step |-> "countFrom", user |-> u, spelling |-> spelling, team |-> from,
                  to |-> to, seen |-> {}])
  BY DEF CheckTransfer
<1> DEFINE q == [step |-> "countFrom", user |-> u, spelling |-> spelling, team |-> from,
                 to |-> to, seen |-> {}]
<1>2. q \in Transfer
  BY DEF Transfer
<1>3. req' = [req EXCEPT ![r] = q] /\ req[r].step = "idle"
  BY <1>1 DEF Begin, Idle
<1>4. req'[r] = q
  BY <1>3 DEF IInv, TypeOK
<1>5. Joined(OrgOf[from], u)' /\ Shared(from, to)'
  BY DEF CheckTransfer, MayTransfer, Active, Joined, Shared, people
<1>6. RequestSound(r)' /\ SeenSound(r)'
  BY <1>4, <1>5 DEF RequestSound, SeenSound, Updating, Managing, Transferring, CheckTransfer
<1>7. served' \in Nat /\ faults' \in Nat /\ unroled \subseteq Orgs \X Users
  BY <1>1 DEF IInv, TypeOK, Begin, CheckTransfer
<1> HIDE DEF q
<1>8. QED
  BY <1>2, <1>3, <1>6, <1>7, RowsStay DEF CheckTransfer, people

\* A request that fails ends; a role it has wiped stays wiped, and is accounted for.
LEMMA FailStep ==
    ASSUME IInv, NEW r \in Requests, Fail(r)
    PROVE  IInv'
<1>1. req' = [req EXCEPT ![r] = Idle]
  BY DEF Fail, End
<1>2. req'[r] = Idle
  BY <1>1 DEF IInv, TypeOK
<1>3. RequestSound(r)' /\ SeenSound(r)'
  BY <1>2 DEF Idle, RequestSound, SeenSound, Updating, Managing, Transferring
<1>4. req[r].step = "insert" => req[r].org \in Orgs /\ req[r].user \in Users
  BY RequestCases DEF IInv, TypeOK, Updating, Profile
<1>5. /\ unroled' \subseteq Orgs \X Users /\ unroled \subseteq unroled'
      /\ req[r].step = "insert" => <<req[r].org, req[r].user>> \in unroled'
  BY <1>4 DEF IInv, TypeOK, Fail
<1>6. served' \in Nat /\ faults' \in Nat
  BY DEF IInv, TypeOK, Fail
<1>7. QED
  BY <1>1, <1>3, <1>5, <1>6, RowsStay DEF Fail

(***************************************************************************)
(* Requests that go on.                                                    *)
(***************************************************************************)

\* A request that ends with nothing left to answer for.
LEMMA Ended ==
    ASSUME IInv, NEW r \in Requests, req' = [req EXCEPT ![r] = Idle]
    PROVE  RequestSound(r)' /\ SeenSound(r)'
<1>1. req'[r] = Idle
  BY DEF IInv, TypeOK
<1>2. QED
  BY <1>1 DEF Idle, RequestSound, SeenSound, Updating, Managing, Transferring

\* The count lets a request on that has not seen its user as the only admin.
LEMMA CountAdminsStep ==
    ASSUME IInv, NEW r \in Requests, CountAdmins(r)
    PROVE  IInv'
<1> DEFINE t == req[r].team
           q == [req[r] EXCEPT !.step = Counted(r), !.seen = Admins(t)]
<1>1. /\ req[r].step \in {"count", "countFrom"}
      /\ served' \in Nat /\ faults' \in Nat /\ unroled \subseteq Orgs \X Users
      /\ UNCHANGED <<member, roles, supers, unroled, teams, roster>>
  BY DEF CountAdmins, people, IInv, TypeOK
<1>2. req[r] \in {Idle} \cup Profile \cup Manage \cup Transfer
  BY DEF IInv, TypeOK
<1>3. Admins(t) \in SUBSET Users
  BY DEF Admins
<1>4. CASE ~NotTheLast(req[r])
  <2>1. req' = [req EXCEPT ![r] = Idle]
    BY <1>4 DEF CountAdmins
  <2>2. QED
    BY <1>1, <2>1, Ended, RowsStay
<1>5. CASE NotTheLast(req[r]) /\ req[r].step = "count"
  <2>1. req[r] \in Manage
    BY <1>2, <1>5, RequestCases DEF Managing
  <2>10. Counted(r) = "write"
    BY <1>5 DEF Counted
  <2>2. /\ q \in Manage /\ q.step = "write" /\ q.user = req[r].user /\ q.team = t
        /\ q.role = req[r].role /\ q.spelling = req[r].spelling /\ q.seen = Admins(t)
    BY <1>3, <1>5, <2>1, <2>10 DEF Manage
  <2>3. req' = [req EXCEPT ![r] = q]
    BY <1>5 DEF CountAdmins
  <2> HIDE DEF q
  <2>4. req'[r] = q
    BY <2>3 DEF IInv, TypeOK
  <2>5. RequestSound(r) /\ req[r].user \in Users
    BY <2>1 DEF IInv, Manage
  <2>6. RequestSound(r)'
    BY <1>1, <1>5, <2>2, <2>4, <2>5
    DEF RequestSound, Updating, Managing, Transferring, Joined, Shared
  <2>7. SeenSound(r)'
    BY <1>5, <2>2, <2>4 DEF SeenSound, NotTheLast
  <2>8. req[r].step # "insert"
    BY <1>5
  <2>9. QED
    BY <1>1, <2>2, <2>3, <2>6, <2>7, <2>8, RowsStay
<1>6. CASE NotTheLast(req[r]) /\ req[r].step = "countFrom"
  <2>1. req[r] \in Transfer
    BY <1>2, <1>6, RequestCases DEF Transferring
  <2>10. Counted(r) = "leave"
    BY <1>6 DEF Counted
  <2>2. /\ q \in Transfer /\ q.step = "leave" /\ q.user = req[r].user /\ q.team = t
        /\ q.to = req[r].to /\ q.spelling = req[r].spelling /\ q.seen = Admins(t)
    BY <1>3, <1>6, <2>1, <2>10 DEF Transfer
  <2>3. req' = [req EXCEPT ![r] = q]
    BY <1>6 DEF CountAdmins
  <2> HIDE DEF q
  <2>4. req'[r] = q
    BY <2>3 DEF IInv, TypeOK
  <2>5. RequestSound(r) /\ req[r].user \in Users
    BY <2>1 DEF IInv, Transfer
  <2>6. RequestSound(r)'
    BY <1>1, <1>6, <2>2, <2>4, <2>5
    DEF RequestSound, Updating, Managing, Transferring, Joined, Shared
  <2>7. SeenSound(r)'
    BY <1>6, <2>2, <2>4 DEF SeenSound, NotTheLast
  <2>8. req[r].step # "insert"
    BY <1>6
  <2>9. QED
    BY <1>1, <2>2, <2>3, <2>6, <2>7, <2>8, RowsStay
<1>7. QED
  BY <1>1, <1>4, <1>5, <1>6

\* A count that fails lets a request on that has seen nobody.
LEMMA FailCountStep ==
    ASSUME IInv, NEW r \in Requests, FailCount(r)
    PROVE  IInv'
<1> DEFINE q == [req[r] EXCEPT !.step = Counted(r)]
<1>1. /\ req[r].step \in {"count", "countFrom"}
      /\ served' \in Nat /\ faults' \in Nat /\ unroled \subseteq Orgs \X Users
      /\ UNCHANGED <<member, roles, supers, unroled, teams, roster>>
      /\ req' = [req EXCEPT ![r] = q]
  BY DEF FailCount, GoTo, people, IInv, TypeOK
<1>2. req[r] \in {Idle} \cup Profile \cup Manage \cup Transfer
  BY DEF IInv, TypeOK
<1>3. RequestSound(r) /\ SeenSound(r)
  BY DEF IInv
<1>4. CASE req[r].step = "count"
  <2>1. req[r] \in Manage
    BY <1>2, <1>4, RequestCases DEF Managing
  <2>10. Counted(r) = "write"
    BY <1>4 DEF Counted
  <2>2. /\ q \in Manage /\ q.step = "write" /\ q.user = req[r].user
        /\ q.team = req[r].team /\ q.role = req[r].role /\ q.seen = req[r].seen
        /\ q.spelling = req[r].spelling
    BY <1>4, <2>1, <2>10 DEF Manage
  <2> HIDE DEF q
  <2>3. req'[r] = q
    BY <1>1 DEF IInv, TypeOK
  <2>4. RequestSound(r)'
    BY <1>1, <1>3, <1>4, <2>2, <2>3
    DEF RequestSound, Updating, Managing, Transferring, Joined, Shared
  <2>5. SeenSound(r)'
    BY <1>3, <1>4, <2>2, <2>3 DEF SeenSound, Managing
  <2>6. QED
    BY <1>1, <1>4, <2>2, <2>4, <2>5, RowsStay
<1>5. CASE req[r].step = "countFrom"
  <2>1. req[r] \in Transfer
    BY <1>2, <1>5, RequestCases DEF Transferring
  <2>10. Counted(r) = "leave"
    BY <1>5 DEF Counted
  <2>2. /\ q \in Transfer /\ q.step = "leave" /\ q.user = req[r].user
        /\ q.team = req[r].team /\ q.to = req[r].to /\ q.seen = req[r].seen
        /\ q.spelling = req[r].spelling
    BY <1>5, <2>1, <2>10 DEF Transfer
  <2> HIDE DEF q
  <2>3. req'[r] = q
    BY <1>1 DEF IInv, TypeOK
  <2>4. RequestSound(r)'
    BY <1>1, <1>3, <1>5, <2>2, <2>3
    DEF RequestSound, Updating, Managing, Transferring, Joined, Shared
  <2>5. SeenSound(r)'
    BY <1>3, <1>5, <2>2, <2>3 DEF SeenSound, Transferring
  <2>6. QED
    BY <1>1, <1>5, <2>2, <2>4, <2>5, RowsStay
<1>6. QED
  BY <1>1, <1>4, <1>5

(***************************************************************************)
(* Requests that write.                                                    *)
(***************************************************************************)

\* The status a profile update writes is that of somebody who has joined.
LEMMA UpdateStatusStep ==
    ASSUME IInv, NEW r \in Requests, UpdateMembershipStatus(r)
    PROVE  IInv'
<1> DEFINE q == [req[r] EXCEPT !.step = "wipe"]
           o == req[r].org
           u == req[r].user
<1>1. req[r] \in Profile
  BY RequestCases DEF IInv, TypeOK, UpdateMembershipStatus, Updating
<1>2. /\ o \in Orgs /\ u \in Users /\ req[r].status \in {"ACTIVE", "SUSPENDED"}
      /\ member[o][u] \in {"ACTIVE", "SUSPENDED"} /\ req[r].step = "status"
  BY <1>1 DEF IInv, RequestSound, Joined, UpdateMembershipStatus, Updating, Profile
<1>3. /\ q \in Profile /\ q.step = "wipe" /\ q.org = o /\ q.user = u
  BY <1>1 DEF Profile
<1>4. req' = [req EXCEPT ![r] = q] /\ req'[r] = q
  BY DEF UpdateMembershipStatus, GoTo, IInv, TypeOK
<1> HIDE DEF q
<1>5. /\ member' = [member EXCEPT ![o][u] = req[r].status]
      /\ UNCHANGED <<roles, supers, unroled, teams, roster, served, faults>>
  BY DEF UpdateMembershipStatus
<1> HIDE DEF o, u
<1>6. /\ \A k \in Orgs, v \in Users :
            member'[k][v] = IF k = o /\ v = u THEN req[r].status ELSE member[k][v]
      /\ member' \in [Orgs -> [Users -> {"none", "INVITED", "ACTIVE", "SUSPENDED"}]]
  BY <1>2, <1>5 DEF IInv, TypeOK
<1>7. NobodyLeaves
  BY <1>2, <1>6 DEF NobodyLeaves, Joined
<1>8. RequestSound(r)' /\ SeenSound(r)'
  BY <1>2, <1>3, <1>4, <1>6
  DEF RequestSound, SeenSound, Updating, Managing, Transferring, Joined
<1>9. /\ req' \in [Requests -> {Idle} \cup Profile \cup Manage \cup Transfer]
      /\ \A s \in Requests : (RequestSound(s) /\ SeenSound(s))'
  BY <1>3, <1>4, <1>5, <1>7, <1>8, OneRequest
<1>10. TypeOK'
  BY <1>5, <1>6, <1>9 DEF IInv, TypeOK
<1>11. OrganisationsStayApart'
  BY <1>5, <1>7, RostersStay
<1>12. RoleUnlessUpdating'
  <2> SUFFICES ASSUME NEW k \in Orgs, NEW v \in Users, roles'[k][v] = {},
                      member'[k][v] # "none", <<k, v>> \notin unroled'
               PROVE  \E s \in Requests :
                        req'[s].step = "insert" /\ req'[s].org = k /\ req'[s].user = v
    BY DEF RoleUnlessUpdating
  <2>1. member[k][v] # "none"
    BY <1>2, <1>6
  <2>2. PICK s \in Requests : req[s].step = "insert" /\ req[s].org = k /\ req[s].user = v
    BY <1>5, <2>1 DEF IInv, RoleUnlessUpdating
  <2>3. s # r
    BY <1>2, <2>2
  <2>4. QED
    BY <1>4, <2>2, <2>3 DEF IInv, TypeOK
<1>13. QED
  BY <1>9, <1>10, <1>11, <1>12 DEF IInv

\* Who wipes the roles goes on to insert one.
LEMMA DeleteRolesStep ==
    ASSUME IInv, NEW r \in Requests, DeleteUserSystemRoles(r)
    PROVE  IInv'
<1> DEFINE q == [req[r] EXCEPT !.step = "insert"]
           o == req[r].org
           u == req[r].user
<1>1. req[r] \in Profile
  BY RequestCases DEF IInv, TypeOK, DeleteUserSystemRoles, Updating
<1>2. o \in Orgs /\ u \in Users /\ Joined(o, u) /\ req[r].step = "wipe"
  BY <1>1 DEF IInv, RequestSound, DeleteUserSystemRoles, Updating, Profile
<1>3. q \in Profile /\ q.step = "insert" /\ q.org = o /\ q.user = u
  BY <1>1 DEF Profile
<1>4. req' = [req EXCEPT ![r] = q] /\ req'[r] = q
  BY DEF DeleteUserSystemRoles, GoTo, IInv, TypeOK
<1> HIDE DEF q
<1>5. /\ roles' = [roles EXCEPT ![o][u] = {}]
      /\ UNCHANGED <<member, supers, unroled, teams, roster, served, faults>>
  BY DEF DeleteUserSystemRoles
<1> HIDE DEF o, u
<1>6. /\ roles' \in [Orgs -> [Users -> SUBSET SystemRoles]]
      /\ \A k \in Orgs, v \in Users : ~(k = o /\ v = u) => roles'[k][v] = roles[k][v]
  BY <1>2, <1>5 DEF IInv, TypeOK
<1>7. NobodyLeaves
  BY <1>5 DEF NobodyLeaves, Joined
<1>8. RequestSound(r)' /\ SeenSound(r)'
  BY <1>2, <1>3, <1>4, <1>5
  DEF RequestSound, SeenSound, Updating, Managing, Transferring, Joined
<1>9. /\ req' \in [Requests -> {Idle} \cup Profile \cup Manage \cup Transfer]
      /\ \A s \in Requests : (RequestSound(s) /\ SeenSound(s))'
  BY <1>3, <1>4, <1>5, <1>7, <1>8, OneRequest
<1>10. TypeOK'
  BY <1>5, <1>6, <1>9 DEF IInv, TypeOK
<1>11. OrganisationsStayApart'
  BY <1>5, <1>7, RostersStay
<1>12. RoleUnlessUpdating'
  <2> SUFFICES ASSUME NEW k \in Orgs, NEW v \in Users, roles'[k][v] = {},
                      member'[k][v] # "none", <<k, v>> \notin unroled'
               PROVE  \E s \in Requests :
                        req'[s].step = "insert" /\ req'[s].org = k /\ req'[s].user = v
    BY DEF RoleUnlessUpdating
  <2>1. CASE k = o /\ v = u
    BY <1>3, <1>4, <2>1
  <2>2. CASE ~(k = o /\ v = u)
    <3>1. roles[k][v] = {} /\ member[k][v] # "none" /\ <<k, v>> \notin unroled
      BY <1>5, <1>6, <2>2
    <3>2. PICK s \in Requests : req[s].step = "insert" /\ req[s].org = k /\ req[s].user = v
      BY <3>1 DEF IInv, RoleUnlessUpdating
    <3>3. s # r
      BY <1>2, <3>2
    <3>4. QED
      BY <1>4, <3>2, <3>3 DEF IInv, TypeOK
  <2>3. QED
    BY <2>1, <2>2
<1>13. QED
  BY <1>9, <1>10, <1>11, <1>12 DEF IInv

\* The insert leaves its user with a role, and others with what they had.
LEMMA InsertRoleStep ==
    ASSUME IInv, NEW r \in Requests, InsertUserSystemRole(r)
    PROVE  IInv'
<1> DEFINE o == req[r].org
           u == req[r].user
           role == req[r].role
<1>1. req[r] \in Profile
  BY RequestCases DEF IInv, TypeOK, InsertUserSystemRole, Updating
<1>2. o \in Orgs /\ u \in Users /\ role \in SystemRoles
  BY <1>1, TeamsAssumption DEF Profile, SystemRoles
<1>3. /\ roles' = [roles EXCEPT ![o][u] = @ \cup {role}]
      /\ unroled' = unroled \ {<<o, u>>}
      /\ supers' \in {supers, supers \cup {<<o, u>>}}
      /\ UNCHANGED <<member, teams, roster, served, faults>>
  BY DEF InsertUserSystemRole
<1>4. req' = [req EXCEPT ![r] = Idle]
  BY DEF InsertUserSystemRole, End
<1> HIDE DEF role
<1>5. NobodyLeaves
  BY <1>3 DEF NobodyLeaves, Joined
<1>6. /\ req' \in [Requests -> {Idle} \cup Profile \cup Manage \cup Transfer]
      /\ \A s \in Requests : (RequestSound(s) /\ SeenSound(s))'
  BY <1>3, <1>4, <1>5, Ended, OneRequest
<1>7. /\ roles' \in [Orgs -> [Users -> SUBSET SystemRoles]]
      /\ roles'[o][u] # {}
      /\ \A k \in Orgs, v \in Users : ~(k = o /\ v = u) => roles'[k][v] = roles[k][v]
  BY <1>2, <1>3 DEF IInv, TypeOK
<1>8. TypeOK'
  BY <1>2, <1>3, <1>6, <1>7 DEF IInv, TypeOK
<1>9. OrganisationsStayApart'
  BY <1>3, <1>5, RostersStay
<1>10. RoleUnlessUpdating'
  <2> SUFFICES ASSUME NEW k \in Orgs, NEW v \in Users, roles'[k][v] = {},
                      member'[k][v] # "none", <<k, v>> \notin unroled'
               PROVE  \E s \in Requests :
                        req'[s].step = "insert" /\ req'[s].org = k /\ req'[s].user = v
    BY DEF RoleUnlessUpdating
  <2>1. ~(k = o /\ v = u)
    BY <1>7
  <2>2. roles[k][v] = {} /\ member[k][v] # "none" /\ <<k, v>> \notin unroled
    BY <1>3, <1>7, <2>1
  <2>3. PICK s \in Requests : req[s].step = "insert" /\ req[s].org = k /\ req[s].user = v
    BY <2>2 DEF IInv, RoleUnlessUpdating
  <2>4. s # r
    BY <2>1, <2>3
  <2>5. QED
    BY <1>4, <2>3, <2>4 DEF IInv, TypeOK
<1>11. QED
  BY <1>6, <1>8, <1>9, <1>10 DEF IInv

\* One entry of a roster is written, for somebody within reach or to remove them.
LEMMA RosterWritten ==
    ASSUME IInv, NEW r \in Requests, NEW q \in {Idle} \cup Profile \cup Manage \cup Transfer,
           NEW t \in teams, NEW u \in Users, NEW role \in {"none", "MEMBER", "TEAM_ADMIN"},
           role # "none" => WithinReach(t, u),
           roster' = [roster EXCEPT ![t][u] = role],
           req' = [req EXCEPT ![r] = q], req[r].step # "insert",
           UNCHANGED <<member, roles, supers, unroled, teams, served, faults>>,
           RequestSound(r)', SeenSound(r)'
    PROVE  IInv'
<1>1. NobodyLeaves
  BY DEF NobodyLeaves, Joined
<1>2. /\ req' \in [Requests -> {Idle} \cup Profile \cup Manage \cup Transfer]
      /\ \A s \in Requests : (RequestSound(s) /\ SeenSound(s))'
  BY <1>1, OneRequest
<1>3. t \in Teams
  BY DEF IInv, TypeOK
<1>4. /\ roster' \in [Teams -> [Users -> {"none", "MEMBER", "TEAM_ADMIN"}]]
      /\ \A k \in Teams, v \in Users :
            roster'[k][v] = IF k = t /\ v = u THEN role ELSE roster[k][v]
  BY <1>3 DEF IInv, TypeOK
<1>5. TypeOK'
  BY <1>2, <1>4 DEF IInv, TypeOK
<1>6. OrganisationsStayApart'
  BY <1>1, <1>4, ChecksLast DEF IInv, OrganisationsStayApart
<1>7. RoleUnlessUpdating'
  BY DEF IInv, TypeOK, RoleUnlessUpdating
<1>8. QED
  BY <1>2, <1>5, <1>6, <1>7 DEF IInv

\* What ManageTeamMember writes it has checked.
LEMMA WriteMemberStep ==
    ASSUME IInv, NEW r \in Requests, WriteMember(r)
    PROVE  IInv'
<1>1. req[r] \in Manage /\ req[r].step = "write"
  BY RequestCases DEF IInv, TypeOK, WriteMember, Managing
<1>2. RequestSound(r)
  BY DEF IInv
<1>3. /\ req[r].team \in teams /\ req[r].user \in Users
      /\ req[r].role \in {"none", "MEMBER", "TEAM_ADMIN"}
      /\ req[r].role # "none" => WithinReach(req[r].team, req[r].user)
  BY <1>1, <1>2 DEF RequestSound, Manage, Managing, WithinReach
<1>4. req' = [req EXCEPT ![r] = Idle]
  BY DEF WriteMember, End
<1>5. RequestSound(r)' /\ SeenSound(r)'
  BY <1>4, Ended
<1>6. QED
  BY <1>1, <1>3, <1>4, <1>5, RosterWritten DEF WriteMember, people

\* A transfer takes its user off the roster it counted.
LEMMA LeaveTeamStep ==
    ASSUME IInv, NEW r \in Requests, LeaveTeam(r)
    PROVE  IInv'
<1> DEFINE q == [req[r] EXCEPT !.step = "arrive"]
<1>1. req[r] \in Transfer /\ req[r].step = "leave"
  BY RequestCases DEF IInv, TypeOK, LeaveTeam, Transferring
<1>2. RequestSound(r) /\ SeenSound(r)
  BY DEF IInv
<1>3. req[r].team \in teams /\ req[r].user \in Users
  BY <1>1, <1>2 DEF RequestSound, Transfer, Transferring
<1>4. /\ q \in Transfer /\ q.step = "arrive" /\ q.user = req[r].user
      /\ q.team = req[r].team /\ q.to = req[r].to /\ q.seen = req[r].seen
      /\ q.spelling = req[r].spelling
  BY <1>1 DEF Transfer
<1>5. req' = [req EXCEPT ![r] = q] /\ req'[r] = q
  BY DEF LeaveTeam, GoTo, IInv, TypeOK
<1> HIDE DEF q
<1>6. UNCHANGED <<member, roles, supers, unroled, teams, served, faults>>
  BY DEF LeaveTeam, people
<1>7. RequestSound(r)' /\ SeenSound(r)'
  BY <1>1, <1>2, <1>3, <1>4, <1>5, <1>6
  DEF RequestSound, SeenSound, Updating, Managing, Transferring, Joined, Shared
<1>8. QED
  BY <1>1, <1>3, <1>4, <1>5, <1>6, <1>7, RosterWritten DEF LeaveTeam

\* A transfer puts on the other roster a colleague of somebody who has joined there.
LEMMA ArriveStep ==
    ASSUME IInv, NEW r \in Requests, ArriveInTeam(r)
    PROVE  IInv'
<1>1. req[r] \in Transfer /\ req[r].step = "arrive"
  BY RequestCases DEF IInv, TypeOK, ArriveInTeam, Transferring
<1>2. RequestSound(r)
  BY DEF IInv
<1>3. /\ req[r].to \in teams /\ req[r].user \in Users /\ req[r].team \in Teams
      /\ Joined(OrgOf[req[r].team], req[r].user) /\ Shared(req[r].team, req[r].to)
  BY <1>1, <1>2 DEF RequestSound, Transfer, Transferring
<1>4. WithinReach(req[r].to, req[r].user)
  <2>1. OrgOf[req[r].team] \in Orgs
    BY <1>3, TeamsAssumption
  <2>2. QED
    BY <1>3, <2>1 DEF Shared, WithinReach
<1>5. req' = [req EXCEPT ![r] = Idle]
  BY DEF ArriveInTeam, End
<1>6. RequestSound(r)' /\ SeenSound(r)'
  BY <1>5, Ended
<1>7. QED
  BY <1>1, <1>3, <1>4, <1>5, <1>6, RosterWritten DEF ArriveInTeam, people

\* Every step keeps the invariant.
LEMMA StepIInv == IInv /\ [Next]_vars => IInv'
<1> SUFFICES ASSUME IInv, [Next]_vars PROVE IInv'
  OBVIOUS
<1>1. ASSUME NEW o \in Orgs, NEW u \in Users, InviteUser(o, u) \/ AcceptInvite(o, u)
      PROVE  IInv'
  BY <1>1, InviteStep, AcceptStep
<1>2. ASSUME NEW t \in Teams, NEW q \in Users, CreateTeam(t, q) PROVE IInv'
  BY <1>2, CreateTeamStep
<1>3. ASSUME NEW r \in Requests, NEW u \in Users,
             \/ \E o \in Orgs : CheckProfile(r, o, u)
             \/ \E t \in Teams : CheckManage(r, u, t)
             \/ \E from, to \in Teams : CheckTransfer(r, u, from, to)
      PROVE  IInv'
  BY <1>3, CheckProfileStep, CheckManageStep, CheckTransferStep
<1>4. ASSUME NEW r \in Requests,
             \/ UpdateMembershipStatus(r) \/ DeleteUserSystemRoles(r)
             \/ InsertUserSystemRole(r)
      PROVE  IInv'
  BY <1>4, UpdateStatusStep, DeleteRolesStep, InsertRoleStep
<1>5. ASSUME NEW r \in Requests, CountAdmins(r) \/ FailCount(r) \/ WriteMember(r)
      PROVE  IInv'
  BY <1>5, CountAdminsStep, FailCountStep, WriteMemberStep
<1>6. ASSUME NEW r \in Requests, LeaveTeam(r) \/ ArriveInTeam(r) \/ Fail(r)
      PROVE  IInv'
  BY <1>6, LeaveTeamStep, ArriveStep, FailStep
<1>7. CASE UNCHANGED vars
  <2>1. /\ UNCHANGED <<member, roles, supers, teams, roster, unroled>>
        /\ UNCHANGED <<req, served, faults>>
    BY <1>7 DEF vars
  <2>2. NobodyLeaves
    BY <2>1 DEF NobodyLeaves, Joined
  <2>3. OrganisationsStayApart' /\ \A r \in Requests : (RequestSound(r) /\ SeenSound(r))'
    BY <2>1, <2>2, RostersStay, SoundStays
  <2>4. TypeOK' /\ RoleUnlessUpdating'
    BY <2>1 DEF IInv, TypeOK, RoleUnlessUpdating
  <2>5. QED
    BY <2>3, <2>4 DEF IInv
<1>8. QED
  BY <1>1, <1>2, <1>3, <1>4, <1>5, <1>6, <1>7 DEF Next

(***************************************************************************)
(* The theorems.                                                           *)
(***************************************************************************)

\* Memberships, roles, rosters and the requests between two of their statements stay
\* in step, however the requests interleave and fail.
THEOREM Invariance == Spec => []IInv
<1>1. Init => IInv
  BY InitIInv
<1>2. IInv /\ [Next]_vars => IInv'
  BY StepIInv
<1>3. QED
  BY <1>1, <1>2, PTL DEF Spec

\* Every state is well typed.
THEOREM TypeCorrect == Spec => []TypeOK
<1>1. IInv => TypeOK
  BY DEF IInv
<1>2. QED
  BY <1>1, Invariance, PTL

\* A roster names somebody who has not joined the team's organisation only where they are
\* colleagues, in another, of somebody who has: the checks made before a roster is written
\* keep organisations that share nobody apart.
THEOREM RostersStayApart == Spec => []OrganisationsStayApart
<1>1. IInv => OrganisationsStayApart
  BY DEF IInv
<1>2. QED
  BY <1>1, Invariance, PTL

\* Nobody is without a role but by an update that is between its statements, or has
\* failed there.
THEOREM RolesAreKept == Spec => []RoleUnlessUpdating
<1>1. IInv => RoleUnlessUpdating
  BY DEF IInv
<1>2. QED
  BY <1>1, Invariance, PTL

\* ManageTeamMember's and TransferTeamMember's count keeps a team its last admin, save
\* where it is stale, has failed or looks for another spelling of the admin's id, and save
\* in the team a transfer comes to.
THEOREM AdminsAreKept == Spec => AdminsGoOnlyUnseen
<1> DEFINE Unseen == \A t \in Teams : Admins(t) # {} /\ Admins(t)' = {} =>
        \E r \in Requests :
            /\ req[r].step \in {"write", "leave", "arrive"} /\ req'[r] # req[r]
            /\ \/ /\ req[r].step # "arrive" /\ req[r].team = t
                  /\ req[r].seen # Admins(t) \/ req[r].spelling = "other"
               \/ req[r].step = "arrive" /\ req[r].to = t
<1>1. IInv /\ [Next]_vars => [Unseen]_vars
  <2> SUFFICES ASSUME IInv, Next, NEW t \in Teams, Admins(t) # {}, Admins(t)' = {}
               PROVE  \E r \in Requests :
            /\ req[r].step \in {"write", "leave", "arrive"} /\ req'[r] # req[r]
            /\ \/ /\ req[r].step # "arrive" /\ req[r].team = t
                  /\ req[r].seen # Admins(t) \/ req[r].spelling = "other"
               \/ req[r].step = "arrive" /\ req[r].to = t
    OBVIOUS
  <2>1. PICK a \in Users : roster[t][a] = "TEAM_ADMIN" /\ roster'[t][a] # "TEAM_ADMIN"
    BY DEF Admins
  <2>2. PICK r \in Requests : WriteMember(r) \/ LeaveTeam(r) \/ ArriveInTeam(r)
    <3>1. roster' # roster
      BY <2>1
    <3>2. ASSUME NEW k \in Teams, NEW q \in Users PROVE ~CreateTeam(k, q)
      BY <2>1 DEF IInv, TypeOK, CreateTeam
    <3>3. QED
      BY <3>1, <3>2 DEF Next, InviteUser, AcceptInvite, CheckProfile, CheckManage,
         CheckTransfer, UpdateMembershipStatus, DeleteUserSystemRoles,
         InsertUserSystemRole, CountAdmins, FailCount, Fail
  <2>3. /\ req[r] \in {Idle} \cup Profile \cup Manage \cup Transfer
        /\ SeenSound(r)
    BY DEF IInv, TypeOK
  <2>4. CASE ArriveInTeam(r)
    <3>1. req[r].step = "arrive" /\ req'[r].step = "idle"
      BY <2>4 DEF ArriveInTeam, End, Idle, IInv, TypeOK
    <3>2. req[r].to = t
      BY <2>1, <2>4 DEF ArriveInTeam, IInv, TypeOK
    <3>3. QED
      BY <3>1, <3>2
  <2>5. CASE WriteMember(r) \/ LeaveTeam(r)
    <3> DEFINE u == req[r].user
    <3>1. /\ req[r].step \in {"write", "leave"} /\ req'[r] # req[r]
      <4>1. CASE WriteMember(r)
        BY <4>1 DEF WriteMember, End, Idle, IInv, TypeOK
      <4>2. CASE LeaveTeam(r)
        <5>1. req[r] \in Transfer /\ req[r].step = "leave"
          BY <2>3, <4>2, RequestCases DEF LeaveTeam, Transferring
        <5>2. req'[r].step = "arrive"
          BY <4>2, <5>1 DEF LeaveTeam, GoTo, IInv, TypeOK, Transfer
        <5>3. QED
          BY <5>1, <5>2
      <4>3. QED
        BY <2>5, <4>1, <4>2
    <3>2. req[r] \in Manage \cup Transfer
      BY <2>3, <3>1, RequestCases DEF Managing, Transferring
    <3>3. /\ u \in Users /\ req[r].team \in Teams
          /\ req[r].seen \in SUBSET Users
      BY <3>2 DEF Manage, Transfer
    <3>4. /\ req[r].team = t
          /\ \A v \in Users \ {u} : roster'[t][v] = roster[t][v]
      BY <2>1, <2>5, <3>3 DEF WriteMember, LeaveTeam, IInv, TypeOK
    <3>5. Admins(t) = {u}
      BY <3>3, <3>4 DEF Admins
    <3>6. req[r].seen # {u} \/ req[r].spelling = "other"
      <4>1. Cardinality({u}) = 1
        BY FS_Singleton
      <4>2. req[r].spelling \in {"canonical", "other"}
        BY <3>2, TeamsAssumption DEF Manage, Transfer
      <4>3. QED
        BY <2>3, <3>1, <4>1, <4>2 DEF SeenSound, Managing, Transferring
    <3>7. QED
      BY <3>1, <3>4, <3>5, <3>6
  <2>6. QED
    BY <2>2, <2>4, <2>5
<1>2. QED
  BY <1>1, Invariance, PTL DEF Spec, AdminsGoOnlyUnseen
================================================================================
