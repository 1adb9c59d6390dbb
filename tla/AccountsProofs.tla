---------------------------- MODULE AccountsProofs ----------------------------
(***************************************************************************)
(* Theorems about Accounts for any people, organisations, browsers and     *)
(* requests, and any number of them.                                       *)
(***************************************************************************)
EXTENDS Accounts, TLAPS

(***************************************************************************)
(* The inductive invariant.  A session, and a request on its way to one or *)
(* to a change of status, is for a membership that was accepted; that is   *)
(* true for as long as there is the organisation.                          *)
(***************************************************************************)
Joined(o, p) == member[o][p] \in {"ACTIVE", "SUSPENDED"} \/ orgs[o] = "deleted"

\* An organisation that is not, or no more, has no members.
OnlyLiveHaveMembers ==
    \A o \in Orgs, p \in People : orgs[o] # "live" => member[o][p] = Absent

\* What a request found is still there when it commits.
RequestSound(r) ==
    /\ req[r].step \in {"register", "accept"} /\ req[r].known => password[req[r].who] # Absent
    /\ req[r].step \in {"mint", "status"} => Joined(req[r].org, req[r].who)

SessionsJoined ==
    \A b \in Browsers : session[b] # NoSession => Joined(session[b].org, session[b].who)

\* Passwords come with profiles, and neither goes.
CredentialsHaveProfiles ==
    \A p \in People : password[p] # Absent => profile[p] \notin {Absent, Blank}

IInv ==
    /\ TypeOK
    /\ OnlyLiveHaveMembers
    /\ JoinedHaveCredentials
    /\ CredentialsHaveProfiles
    /\ SessionsJoined
    /\ \A r \in Requests : RequestSound(r)

Reqs == {Idle} \cup Register \cup Accept \cup Mint \cup Profile

(***************************************************************************)
(* Requests.                                                               *)
(***************************************************************************)

\* Which fields a request has follows from its step.
LEMMA RequestCases ==
    ASSUME NEW q \in Reqs
    PROVE  /\ q.step = "register" => q \in Register
           /\ q.step = "accept" => q \in Accept
           /\ q.step = "mint" => q \in Mint
           /\ q.step \in {"status", "wipe", "insert"} => q \in Profile
           /\ q = Idle \/ q.step \in {"register", "accept", "mint", "status", "wipe", "insert"}
BY DEF Reqs, Idle, Register, Accept, Mint, Profile

\* Who a request is for.
LEMMA RequestFields ==
    ASSUME NEW q \in Reqs
    PROVE  /\ q.step \in {"register", "accept"} => q.who \in People /\ q.form \in Forms
           /\ q.step \in {"accept", "mint", "status", "wipe", "insert"} => q.who \in People /\ q.org \in Orgs
           /\ q.step = "mint" => q.browser \in Browsers /\ q.role \in SystemRole \cup {"highest"}
           /\ q.step \in {"status", "wipe", "insert"} =>
                q.role \in SystemRole /\ q.status \in {"ACTIVE", "SUSPENDED"}
BY RequestCases DEF Register, Accept, Mint, Profile

\* The requests stay sound when one of them is written to something sound, no password
\* is taken away and nobody's membership is undone.
LEMMA OneRequest ==
    ASSUME IInv, NEW r \in Requests, NEW q \in Reqs,
           req' = [req EXCEPT ![r] = q],
           \A p \in People : password[p] # Absent => password'[p] # Absent,
           \A o \in Orgs, p \in People : Joined(o, p) => Joined(o, p)',
           RequestSound(r)'
    PROVE  /\ req' \in [Requests -> Reqs]
           /\ \A s \in Requests : RequestSound(s)'
<1>1. req \in [Requests -> Reqs]
  BY DEF IInv, TypeOK, Reqs
<1>2. ASSUME NEW s \in Requests PROVE RequestSound(s)'
  <2>1. CASE s = r
    BY <2>1
  <2>2. CASE s # r
    <3>1. req'[s] = req[s] /\ req[s] \in Reqs
      BY <1>1, <2>2
    <3>2. RequestSound(s)
      BY DEF IInv
    <3>3. /\ req[s].step \in {"register", "accept"} => req[s].who \in People
          /\ req[s].step \in {"mint", "status"} => req[s].who \in People /\ req[s].org \in Orgs
      BY <3>1, RequestFields
    <3>4. QED
      BY <3>1, <3>2, <3>3 DEF RequestSound
  <2>3. QED
    BY <2>1, <2>2
<1>3. QED
  BY <1>1, <1>2

\* The same when no request is written.
LEMMA NoRequest ==
    ASSUME IInv, req' = req,
           \A p \in People : password[p] # Absent => password'[p] # Absent,
           \A o \in Orgs, p \in People : Joined(o, p) => Joined(o, p)'
    PROVE  /\ req' \in [Requests -> Reqs]
           /\ \A s \in Requests : RequestSound(s)'
<1>1. req \in [Requests -> Reqs]
  BY DEF IInv, TypeOK, Reqs
<1>2. ASSUME NEW s \in Requests PROVE RequestSound(s)'
  <2>1. req[s] \in Reqs /\ RequestSound(s)
    BY <1>1 DEF IInv
  <2>2. /\ req[s].step \in {"register", "accept"} => req[s].who \in People
        /\ req[s].step \in {"mint", "status"} => req[s].who \in People /\ req[s].org \in Orgs
    BY <2>1, RequestFields
  <2>3. QED
    BY <2>1, <2>2 DEF RequestSound
<1>3. QED
  BY <1>1, <1>2

(***************************************************************************)
(* What the shared rows, the tokens and the requests each need of a step.  *)
(***************************************************************************)

RowsType ==
    /\ orgs \in [Orgs -> {"unborn", "live", "deleted"}]
    /\ profile \in [People -> Forms \cup {Absent, Blank}]
    /\ password \in [People -> Forms \cup {Absent}]
    /\ member \in [Orgs -> [People -> UserStatus \cup {Absent}]]
    /\ roles \in [Orgs -> [People -> SUBSET SystemRole]]

TokensType ==
    /\ invite \in [Orgs -> [People -> {Absent, "good", "expired"}]]
    /\ reset \in SUBSET People
    /\ pending \in [Browsers -> People \cup {NoOne}]
    /\ session \in [Browsers -> Session \cup {NoSession}]

RowsInv == OnlyLiveHaveMembers /\ JoinedHaveCredentials /\ CredentialsHaveProfiles

\* What no step undoes.
Kept ==
    /\ \A p \in People : password[p] # Absent => password'[p] # Absent
    /\ \A o \in Orgs, p \in People : Joined(o, p) => Joined(o, p)'

\* A step that keeps what was joined and writes no session leaves them all joined.
LEMMA SessionsKept ==
    ASSUME IInv, Kept, session' = session
    PROVE  SessionsJoined'
<1>1. \A b \in Browsers : session[b] # NoSession => session[b].who \in People /\ session[b].org \in Orgs
  BY DEF IInv, TypeOK, Session
<1>2. QED
  BY <1>1 DEF IInv, Kept, SessionsJoined

\* A step that writes no row keeps them.
LEMMA RowsUnwritten ==
    ASSUME IInv, UNCHANGED rows
    PROVE  RowsType' /\ RowsInv' /\ Kept
BY DEF IInv, TypeOK, RowsType, RowsInv, Kept, rows, OnlyLiveHaveMembers, JoinedHaveCredentials,
       CredentialsHaveProfiles, Joined

\* The parts make the invariant.
LEMMA Together ==
    ASSUME RowsType', TokensType', RowsInv', SessionsJoined', served' \in Nat,
           req' \in [Requests -> Reqs], \A s \in Requests : RequestSound(s)'
    PROVE  IInv'
BY DEF IInv, TypeOK, RowsType, TokensType, RowsInv, Reqs

\* The session behind a request that RequireAuth and BlockSuspendedUsers let through is
\* of a live organisation.
LEMMA GuardedIsLive ==
    ASSUME IInv, NEW b \in Browsers, RequireAuth(b), BlockSuspendedUsers(b)
    PROVE  /\ session[b].who \in People /\ session[b].org \in Orgs
           /\ orgs[session[b].org] = "live"
           /\ member[session[b].org][session[b].who] = "ACTIVE"
<1>1. session[b].who \in People /\ session[b].org \in Orgs
  BY DEF IInv, TypeOK, Session, RequireAuth
<1>2. member[session[b].org][session[b].who] \in UserStatus \cup {Absent}
  BY <1>1 DEF IInv, TypeOK
<1>3. Joined(session[b].org, session[b].who)
  BY DEF IInv, SessionsJoined, RequireAuth
<1>4. orgs[session[b].org] \in {"unborn", "live", "deleted"}
  BY <1>1 DEF IInv, TypeOK
<1>5. orgs[session[b].org] # "live" => member[session[b].org][session[b].who] = Absent
  BY <1>1 DEF IInv, OnlyLiveHaveMembers
<1>6. QED
  BY <1>1, <1>2, <1>3, <1>4, <1>5 DEF BlockSuspendedUsers, GetMembershipStatus, Joined, UserStatus, Absent

(***************************************************************************)
(* What the steps that write rows make of them.                            *)
(***************************************************************************)

\* A registration: a person without a password has no profile but by an invitation.
LEMMA RegistrationRows ==
    ASSUME IInv, NEW r \in Requests, NEW o \in Orgs, CommitRegistration(r, o)
    PROVE  RowsType' /\ RowsInv' /\ Kept
<1> DEFINE p == req[r].who
           f == req[r].form
<1>1. req[r] \in Reqs /\ RequestSound(r)
  BY DEF IInv, TypeOK, Reqs
<1>2. p \in People /\ f \in Forms /\ (req[r].known => password[p] # Absent)
  BY <1>1, RequestFields DEF RequestSound, CommitRegistration
<1>3. ~req[r].known => profile[p] = Absent
  BY DEF CommitRegistration, GetUserByEmail
<1>4. RowsType
  BY DEF IInv, TypeOK, RowsType
<1>5. RowsType'
  BY <1>2, <1>4 DEF RowsType, CommitRegistration, CreateUser, CreateUserCredentials, CreateOrgMembership,
     AddUserSystemRole, UserStatus, SystemRole
<1>6. Kept
  BY <1>2, <1>4, MarksAssumption DEF RowsType, Kept, Joined, CommitRegistration, CreateUserCredentials,
     CreateOrgMembership
<1>7. CredentialsHaveProfiles'
  BY <1>2, <1>3, <1>4, MarksAssumption DEF IInv, RowsType, CredentialsHaveProfiles, CommitRegistration,
     CreateUser, CreateUserCredentials
<1>8. OnlyLiveHaveMembers'
  BY <1>2, <1>4 DEF IInv, RowsType, OnlyLiveHaveMembers, CommitRegistration, CreateOrgMembership
<1>9. JoinedHaveCredentials'
  <2>1. ASSUME NEW c \in Orgs, NEW q \in People, member'[c][q] \in {"ACTIVE", "SUSPENDED"}
        PROVE  password'[q] # Absent
    <3>1. CASE q = p
      BY <1>2, <1>4, <3>1, MarksAssumption DEF RowsType, CommitRegistration, CreateUserCredentials
    <3>2. CASE q # p
      <4>1. member[c][q] \in {"ACTIVE", "SUSPENDED"}
        BY <1>2, <1>4, <2>1, <3>2 DEF RowsType, CommitRegistration, CreateOrgMembership
      <4>2. password[q] # Absent
        BY <4>1 DEF IInv, JoinedHaveCredentials
      <4>3. QED
        BY <4>2, <1>6 DEF Kept
    <3>3. QED
      BY <3>1, <3>2
  <2>2. QED
    BY <2>1, <1>7 DEF JoinedHaveCredentials, CredentialsHaveProfiles
<1>10. QED
  BY <1>5, <1>6, <1>7, <1>8, <1>9 DEF RowsInv

\* An invitation: nobody who was a member is, and nobody joins by it.
LEMMA InvitationRows ==
    ASSUME IInv, NEW b \in Browsers, NEW p \in People, InviteUser(b, p)
    PROVE  RowsType' /\ RowsInv' /\ Kept
<1> DEFINE o == session[b].org
<1>1. o \in Orgs /\ orgs[o] = "live"
  BY GuardedIsLive DEF InviteUser, SuperAdmin
<1>2. RowsType
  BY DEF IInv, TypeOK, RowsType
<1>3. RowsType'
  BY <1>1, <1>2 DEF RowsType, InviteUser, CreateInvitedUser, CreateOrgMembership, AddUserSystemRole,
     UserStatus, SystemRole
<1>4. member' = [member EXCEPT ![o] = [member[o] EXCEPT ![p] = "INVITED"]]
      /\ member[o][p] = Absent /\ orgs' = orgs /\ password' = password
  BY DEF InviteUser, CreateOrgMembership
<1>5. Kept
  BY <1>1, <1>2, <1>4 DEF RowsType, Kept, Joined, Absent
<1>6. CredentialsHaveProfiles'
  BY <1>2, <1>4 DEF IInv, RowsType, CredentialsHaveProfiles, InviteUser, CreateInvitedUser, GetUserByEmail
<1>7. OnlyLiveHaveMembers'
  BY <1>1, <1>2, <1>4 DEF IInv, RowsType, OnlyLiveHaveMembers
<1>8. \A c \in Orgs, q \in People :
        member'[c][q] \in {"ACTIVE", "SUSPENDED"} => member[c][q] \in {"ACTIVE", "SUSPENDED"}
  BY <1>1, <1>2, <1>4 DEF RowsType
<1>9. JoinedHaveCredentials'
  BY <1>4, <1>6, <1>8 DEF IInv, JoinedHaveCredentials, CredentialsHaveProfiles
<1>10. QED
  BY <1>3, <1>5, <1>6, <1>7, <1>9 DEF RowsInv

\* An acceptance: whoever had no password gets one with the profile.
LEMMA AcceptanceRows ==
    ASSUME IInv, NEW r \in Requests, CommitAcceptance(r)
    PROVE  RowsType' /\ RowsInv' /\ Kept
<1> DEFINE p == req[r].who
           f == req[r].form
           o == req[r].org
<1>1. req[r] \in Reqs /\ RequestSound(r)
  BY DEF IInv, TypeOK, Reqs
<1>2. p \in People /\ f \in Forms /\ o \in Orgs /\ (req[r].known => password[p] # Absent)
  BY <1>1, RequestFields DEF RequestSound, CommitAcceptance
<1>3. RowsType
  BY DEF IInv, TypeOK, RowsType
<1>4. RowsType'
  BY <1>2, <1>3 DEF RowsType, CommitAcceptance, UpdateUserOnboarding, CreateUserCredentials,
     UpdateMembershipStatus, UserStatus
<1>5. Kept
  BY <1>2, <1>3, MarksAssumption DEF RowsType, Kept, Joined, CommitAcceptance, CreateUserCredentials,
     UpdateMembershipStatus
<1>6. CredentialsHaveProfiles'
  BY <1>2, <1>3, MarksAssumption DEF IInv, RowsType, CredentialsHaveProfiles, CommitAcceptance,
     UpdateUserOnboarding, CreateUserCredentials
<1>7. OnlyLiveHaveMembers'
  BY <1>2, <1>3 DEF IInv, RowsType, OnlyLiveHaveMembers, CommitAcceptance, UpdateMembershipStatus
<1>8. JoinedHaveCredentials'
  <2>1. ASSUME NEW c \in Orgs, NEW q \in People, member'[c][q] \in {"ACTIVE", "SUSPENDED"}
        PROVE  password'[q] # Absent
    <3>1. CASE q = p
      BY <1>2, <1>3, <3>1, MarksAssumption DEF RowsType, CommitAcceptance, CreateUserCredentials
    <3>2. CASE q # p
      <4>1. member[c][q] \in {"ACTIVE", "SUSPENDED"}
        BY <1>2, <1>3, <2>1, <3>2 DEF RowsType, CommitAcceptance, UpdateMembershipStatus
      <4>2. password[q] # Absent
        BY <4>1 DEF IInv, JoinedHaveCredentials
      <4>3. QED
        BY <4>2, <1>5 DEF Kept
    <3>3. QED
      BY <3>1, <3>2
  <2>2. QED
    BY <2>1, <1>6 DEF JoinedHaveCredentials, CredentialsHaveProfiles
<1>9. QED
  BY <1>4, <1>5, <1>6, <1>7, <1>8 DEF RowsInv

\* A reset changes a password there is; a profile is only ever written over.
LEMMA PersonRows ==
    ASSUME IInv, NEW p \in People, NEW f \in Forms,
           \/ ResetPassword(p, f)
           \/ \E b \in Browsers : UpdateMyProfile(b, f)
    PROVE  RowsType' /\ RowsInv' /\ Kept
<1>1. RowsType
  BY DEF IInv, TypeOK, RowsType
<1>2. CASE ResetPassword(p, f)
  <2>1. /\ UNCHANGED <<orgs, profile, member, roles>>
        /\ password' = [password EXCEPT ![p] = IF password[p] # Absent THEN f ELSE Absent]
    BY <1>2 DEF ResetPassword, UpdateUserCredentials, GetUserCredentials
  <2>2. RowsType' /\ Kept
    BY <1>1, <2>1, MarksAssumption DEF RowsType, Kept, Joined
  <2>3. \A q \in People : password'[q] # Absent <=> password[q] # Absent
    BY <1>1, <2>1, MarksAssumption DEF RowsType
  <2>4. QED
    BY <2>1, <2>2, <2>3 DEF IInv, RowsInv, OnlyLiveHaveMembers, JoinedHaveCredentials, CredentialsHaveProfiles
<1>3. ASSUME NEW b \in Browsers, UpdateMyProfile(b, f)
      PROVE  RowsType' /\ RowsInv' /\ Kept
  <2>1. session[b].who \in People
    BY <1>3, GuardedIsLive DEF UpdateMyProfile
  <2>2. /\ UNCHANGED <<orgs, password, member, roles>>
        /\ profile' = [profile EXCEPT ![session[b].who] = f]
    BY <1>3 DEF UpdateMyProfile, UpdateUserProfile
  <2>3. RowsType' /\ Kept
    BY <1>1, <2>1, <2>2 DEF RowsType, Kept, Joined
  <2>4. \A q \in People : profile[q] \notin {Absent, Blank} => profile'[q] \notin {Absent, Blank}
    BY <1>1, <2>1, <2>2, MarksAssumption DEF RowsType
  <2>5. QED
    BY <2>2, <2>3, <2>4 DEF IInv, RowsInv, OnlyLiveHaveMembers, JoinedHaveCredentials, CredentialsHaveProfiles
<1>4. QED
  BY <1>2, <1>3

\* A status is written over another that was joined, or where nothing is.
LEMMA StatusRows ==
    ASSUME IInv, NEW r \in Requests, WriteStatus(r)
    PROVE  RowsType' /\ RowsInv' /\ Kept
<1> DEFINE p == req[r].who
           o == req[r].org
<1>1. req[r] \in Reqs /\ RequestSound(r)
  BY DEF IInv, TypeOK, Reqs
<1>2. p \in People /\ o \in Orgs /\ req[r].status \in {"ACTIVE", "SUSPENDED"} /\ Joined(o, p)
  BY <1>1, RequestFields DEF RequestSound, WriteStatus
<1>3. RowsType
  BY DEF IInv, TypeOK, RowsType
<1>4. /\ UNCHANGED <<orgs, profile, password, roles>>
      /\ member' = IF member[o][p] = Absent THEN member
                   ELSE [member EXCEPT ![o] = [member[o] EXCEPT ![p] = req[r].status]]
  BY DEF WriteStatus, UpdateMembershipStatus
<1>5. RowsType' /\ Kept
  BY <1>2, <1>3, <1>4 DEF RowsType, Kept, Joined, UserStatus
<1>6. OnlyLiveHaveMembers'
  BY <1>2, <1>3, <1>4 DEF IInv, RowsType, OnlyLiveHaveMembers
<1>7. member[o][p] # Absent => member[o][p] \in {"ACTIVE", "SUSPENDED"}
  BY <1>2 DEF IInv, OnlyLiveHaveMembers, Joined
<1>8. \A c \in Orgs, q \in People :
        member'[c][q] \in {"ACTIVE", "SUSPENDED"} => member[c][q] \in {"ACTIVE", "SUSPENDED"}
  BY <1>2, <1>3, <1>4, <1>7 DEF RowsType
<1>9. JoinedHaveCredentials' /\ CredentialsHaveProfiles'
  BY <1>4, <1>8 DEF IInv, JoinedHaveCredentials, CredentialsHaveProfiles
<1>10. QED
  BY <1>5, <1>6, <1>9 DEF RowsInv

\* Writing roles touches nothing else.
LEMMA RoleRows ==
    ASSUME IInv, NEW r \in Requests, DeleteUserSystemRoles(r) \/ InsertUserSystemRole(r)
    PROVE  RowsType' /\ RowsInv' /\ Kept
<1>1. req[r] \in Reqs
  BY DEF IInv, TypeOK, Reqs
<1>2. req[r].who \in People /\ req[r].org \in Orgs /\ req[r].role \in SystemRole
  BY <1>1, RequestFields DEF DeleteUserSystemRoles, InsertUserSystemRole
<1>3. UNCHANGED <<orgs, profile, password, member>>
  BY DEF DeleteUserSystemRoles, InsertUserSystemRole
<1>4. roles' \in [Orgs -> [People -> SUBSET SystemRole]]
  <2>1. roles \in [Orgs -> [People -> SUBSET SystemRole]]
    BY DEF IInv, TypeOK
  <2>2. CASE DeleteUserSystemRoles(r)
    BY <1>2, <2>1, <2>2 DEF DeleteUserSystemRoles
  <2>3. CASE InsertUserSystemRole(r)
    <3>1. roles[req[r].org][req[r].who] \cup {req[r].role} \in SUBSET SystemRole
      BY <1>2, <2>1
    <3>2. roles' = roles \/ roles' = [roles EXCEPT ![req[r].org] =
             [roles[req[r].org] EXCEPT ![req[r].who] = roles[req[r].org][req[r].who] \cup {req[r].role}]]
      BY <2>3 DEF InsertUserSystemRole, AddUserSystemRole
    <3>3. QED
      BY <1>2, <2>1, <3>1, <3>2
  <2>4. QED
    BY <2>2, <2>3
<1>5. QED
  BY <1>3, <1>4 DEF IInv, TypeOK, RowsType, RowsInv, Kept, OnlyLiveHaveMembers, JoinedHaveCredentials,
     CredentialsHaveProfiles, Joined

\* A deletion takes the members with the organisation.
LEMMA DeletionRows ==
    ASSUME IInv, NEW b \in Browsers, DeleteOrganization(b)
    PROVE  RowsType' /\ RowsInv' /\ Kept
<1> DEFINE o == session[b].org
<1>1. o \in Orgs
  BY GuardedIsLive DEF DeleteOrganization, SuperAdmin
<1>2. RowsType
  BY DEF IInv, TypeOK, RowsType
<1>3. /\ orgs' = [orgs EXCEPT ![o] = "deleted"] /\ UNCHANGED <<profile, password>>
      /\ member' = [member EXCEPT ![o] = [p \in People |-> Absent]]
      /\ roles' = [roles EXCEPT ![o] = [p \in People |-> {}]]
  BY DEF DeleteOrganization
<1>4. RowsType'
  BY <1>1, <1>2, <1>3 DEF RowsType
<1>5. Kept
  BY <1>1, <1>2, <1>3 DEF RowsType, Kept, Joined
<1>6. OnlyLiveHaveMembers'
  BY <1>1, <1>2, <1>3 DEF IInv, RowsType, OnlyLiveHaveMembers
<1>7. \A c \in Orgs, p \in People :
        member'[c][p] \in {"ACTIVE", "SUSPENDED"} => member[c][p] \in {"ACTIVE", "SUSPENDED"}
  BY <1>1, <1>2, <1>3 DEF RowsType, Absent
<1>8. JoinedHaveCredentials' /\ CredentialsHaveProfiles'
  BY <1>3, <1>7 DEF IInv, JoinedHaveCredentials, CredentialsHaveProfiles
<1>9. QED
  BY <1>4, <1>5, <1>6, <1>8 DEF RowsInv

(***************************************************************************)
(* What the steps make of the tokens.                                      *)
(***************************************************************************)

\* No step but the last of a login writes a session.
LEMMA TokensWritten ==
    ASSUME IInv, Next
    PROVE  TokensType'
<1>1. TokensType
  BY DEF IInv, TypeOK, TokensType
<1>2. CASE UNCHANGED tokens
  BY <1>1, <1>2 DEF TokensType, tokens
<1>3. ASSUME NEW b \in Browsers, NEW p \in People, InviteUser(b, p)
      PROVE  TokensType'
  <2>1. session[b].org \in Orgs
    BY <1>3, GuardedIsLive DEF InviteUser, SuperAdmin
  <2>2. UNCHANGED <<reset, pending, session>>
    BY <1>3 DEF InviteUser
  <2>3. invite' = invite \/ invite' = [invite EXCEPT ![session[b].org] = [invite[session[b].org] EXCEPT ![p] = "good"]]
    BY <1>3 DEF InviteUser
  <2>4. QED
    BY <1>1, <2>1, <2>2, <2>3 DEF TokensType
<1>4. ASSUME NEW p \in People, NEW o \in Orgs, Mail(p, o) \/ ExpireInvite(p, o)
      PROVE  TokensType'
  BY <1>1, <1>4 DEF TokensType, Mail, ExpireInvite
<1>5. ASSUME NEW b \in Browsers, NEW p \in People, ResendInvite(b, p)
      PROVE  TokensType'
  BY <1>4, <1>5, GuardedIsLive DEF ResendInvite, SuperAdmin
<1>6. ASSUME NEW p \in People, ForgotPassword(p) \/ ExpireReset(p)
      PROVE  TokensType'
  BY <1>1, <1>6 DEF TokensType, ForgotPassword, ExpireReset
<1>7. ASSUME NEW r \in Requests, NEW b \in Browsers, NEW p \in People, CompleteLogin(r, b, p)
      PROVE  TokensType'
  BY <1>1, <1>7 DEF TokensType, CompleteLogin
<1>8. ASSUME NEW b \in Browsers, ExpireSelection(b) \/ Logout(b)
      PROVE  TokensType'
  BY <1>1, <1>8 DEF TokensType, ExpireSelection, Logout
<1>9. ASSUME NEW r \in Requests, IssueAccessToken(r)
      PROVE  TokensType'
  <2>1. req[r] \in Reqs
    BY DEF IInv, TypeOK, Reqs
  <2>2. req[r].who \in People /\ req[r].org \in Orgs /\ req[r].role \in SystemRole \cup {"highest"}
    BY <1>9, <2>1, RequestFields DEF IssueAccessToken
  <2>3. PICK role \in SystemRole :
            session' = [session EXCEPT ![req[r].browser] =
                            [who |-> req[r].who, org |-> req[r].org, role |-> role]]
    BY <1>9, <2>2 DEF IssueAccessToken, Highest, SystemRole
  <2>4. [who |-> req[r].who, org |-> req[r].org, role |-> role] \in Session
    BY <2>2 DEF Session
  <2>5. UNCHANGED <<invite, reset, pending>>
    BY <1>9 DEF IssueAccessToken
  <2>6. QED
    BY <1>1, <2>3, <2>4, <2>5 DEF TokensType
<1>10. ASSUME NEW p \in People, NEW o \in Orgs, ResendPublicInvite(p, o)
       PROVE  TokensType'
  BY <1>4, <1>10 DEF ResendPublicInvite
<1>11. QED
  BY <1>2, <1>3, <1>4, <1>5, <1>6, <1>7, <1>8, <1>9, <1>10 DEF Next, CheckRegistration, CommitRegistration,
     Fail, CheckAcceptance, CommitAcceptance, SelectOrg, SwitchRole, CheckProfile, WriteStatus,
     DeleteUserSystemRoles, InsertUserSystemRole, UpdateMyProfile, DeleteOrganization, ResetPassword, tokens

\* A session is for whom the request was sound for.
LEMMA SessionsWritten ==
    ASSUME IInv, Next, Kept
    PROVE  SessionsJoined'
<1>1. CASE UNCHANGED session
  BY <1>1, SessionsKept
<1>2. ASSUME NEW r \in Requests, IssueAccessToken(r)
      PROVE  SessionsJoined'
  <2>1. req[r] \in Reqs /\ RequestSound(r)
    BY DEF IInv, TypeOK, Reqs
  <2>2. req[r].who \in People /\ req[r].org \in Orgs /\ Joined(req[r].org, req[r].who)
    BY <1>2, <2>1, RequestFields DEF RequestSound, IssueAccessToken
  <2>3. ASSUME NEW b \in Browsers, session'[b] # NoSession
        PROVE  Joined(session[b].org, session[b].who)'
    <3>1. CASE b = req[r].browser
      <4>1. session'[b].who = req[r].who /\ session'[b].org = req[r].org
        BY <1>2, <3>1 DEF IInv, TypeOK, IssueAccessToken
      <4>2. UNCHANGED <<member, orgs>>
        BY <1>2 DEF IssueAccessToken, rows
      <4>3. QED
        BY <2>2, <4>1, <4>2 DEF Joined
    <3>2. CASE b # req[r].browser
      <4>1. session'[b] = session[b]
        BY <1>2, <3>2 DEF IInv, TypeOK, IssueAccessToken
      <4>2. Joined(session[b].org, session[b].who) /\ UNCHANGED <<member, orgs>>
        BY <1>2, <2>3, <4>1 DEF IInv, SessionsJoined, IssueAccessToken, rows
      <4>3. QED
        BY <4>1, <4>2 DEF Joined
    <3>3. QED
      BY <3>1, <3>2
  <2>4. QED
    BY <2>3 DEF SessionsJoined
<1>3. ASSUME NEW c \in Browsers, Logout(c)
      PROVE  SessionsJoined'
  <2>1. \A b \in Browsers : session'[b] # NoSession => session'[b] = session[b]
    BY <1>3 DEF IInv, TypeOK, Logout
  <2>2. \A b \in Browsers : session[b] # NoSession => session[b].who \in People /\ session[b].org \in Orgs
    BY DEF IInv, TypeOK, Session
  <2>3. QED
    BY <2>1, <2>2 DEF IInv, Kept, SessionsJoined
<1>4. QED
  BY <1>1, <1>2, <1>3 DEF Next, CheckRegistration, CommitRegistration, InviteUser, ResendInvite,
     ResendPublicInvite, Mail, Fail, CheckAcceptance, CommitAcceptance, ForgotPassword, ResetPassword,
     UpdateMyProfile, CompleteLogin, SelectOrg, SwitchRole, ExpireInvite, ExpireReset, ExpireSelection,
     CheckProfile, WriteStatus, DeleteUserSystemRoles, InsertUserSystemRole, DeleteOrganization, tokens

(***************************************************************************)
(* What the steps make of the requests.                                    *)
(***************************************************************************)

\* A request that begins with something sound.
LEMMA Begun ==
    ASSUME IInv, Kept, UNCHANGED rows, NEW r \in Requests, NEW q \in Reqs, Begin(r, q),
           q.step \in {"register", "accept"} /\ q.known => password[q.who] # Absent,
           q.step \in {"mint", "status"} => Joined(q.org, q.who)
    PROVE  /\ req' \in [Requests -> Reqs] /\ served' \in Nat
           /\ \A s \in Requests : RequestSound(s)'
<1>1. req' = [req EXCEPT ![r] = q] /\ served' = served + 1
  BY DEF Begin
<1>2. req'[r] = q
  BY <1>1 DEF IInv, TypeOK
<1>3. RequestSound(r)'
  BY <1>2 DEF RequestSound, Joined, rows
<1>4. served' \in Nat
  BY <1>1 DEF IInv, TypeOK
<1>5. QED
  BY <1>1, <1>3, <1>4, OneRequest DEF Kept

\* A request that ends.
LEMMA Ended ==
    ASSUME IInv, Kept, NEW r \in Requests, End(r)
    PROVE  /\ req' \in [Requests -> Reqs]
           /\ \A s \in Requests : RequestSound(s)'
<1>1. req' = [req EXCEPT ![r] = Idle] /\ Idle \in Reqs
  BY DEF End, Reqs
<1>2. req'[r] = Idle
  BY <1>1 DEF IInv, TypeOK
<1>3. RequestSound(r)'
  BY <1>2 DEF RequestSound, Idle
<1>4. QED
  BY <1>1, <1>3, OneRequest DEF Kept

\* A change of profile that goes on, past the status.
LEMMA GoneOn ==
    ASSUME IInv, Kept, NEW r \in Requests, req[r].step \in {"status", "wipe"},
           NEW step \in {"wipe", "insert"}, GoTo(r, step)
    PROVE  /\ req' \in [Requests -> Reqs]
           /\ \A s \in Requests : RequestSound(s)'
<1> DEFINE q == [req[r] EXCEPT !.step = step]
<1>1. req[r] \in Profile
  BY RequestCases DEF IInv, TypeOK, Reqs
<1>2. q \in Profile /\ q.step = step
  BY <1>1 DEF Profile
<1>3. q \in Reqs
  BY <1>2 DEF Reqs
<1>4. req' = [req EXCEPT ![r] = q]
  BY DEF GoTo
<1>5. req'[r] = q
  BY <1>4 DEF IInv, TypeOK
<1> HIDE DEF q
<1>6. RequestSound(r)'
  BY <1>2, <1>5 DEF RequestSound
<1>7. QED
  BY <1>3, <1>4, <1>6, OneRequest DEF Kept

\* A membership that is ACTIVE has been joined, and so has that of a session.
LEMMA ActiveJoined ==
    ASSUME NEW o, NEW p, IsUserInOrg(p, o)
    PROVE  Joined(o, p)
BY DEF IsUserInOrg, Joined

\* What each kind of request begins with.
LEMMA RequestsBegun ==
    ASSUME IInv, Kept, NEW r \in Requests,
           \/ \E p \in People, f \in Forms : CheckRegistration(r, p, f)
           \/ \E p \in People, o \in Orgs, f \in Forms : CheckAcceptance(r, p, o, f)
           \/ \E b \in Browsers, o \in Orgs : SelectOrg(r, b, o)
           \/ \E b \in Browsers, o \in Orgs, role \in AskedRoles : SwitchRole(r, b, o, role)
           \/ \E b \in Browsers, p \in People, role \in GivenRoles, status \in {"ACTIVE", "SUSPENDED"} :
                CheckProfile(r, b, p, role, status)
    PROVE  /\ req' \in [Requests -> Reqs] /\ served' \in Nat
           /\ \A s \in Requests : RequestSound(s)'
<1>1. ASSUME NEW p \in People, NEW f \in Forms, CheckRegistration(r, p, f)
      PROVE  /\ req' \in [Requests -> Reqs] /\ served' \in Nat
             /\ \A s \in Requests : RequestSound(s)'
  <2> DEFINE q == [step |-> "register", who |-> p, form |-> f, known |-> GetUserByEmail(p)]
  <2>1. q \in Reqs /\ q.step = "register" /\ q.who = p /\ (q.known => password[p] # Absent)
    BY <1>1 DEF Reqs, Register, CheckRegistration, GetUserByEmail, GetUserCredentials
  <2>2. Begin(r, q) /\ UNCHANGED rows
    BY <1>1 DEF CheckRegistration
  <2> HIDE DEF q
  <2>3. QED
    BY <2>1, <2>2, Begun
<1>2. ASSUME NEW p \in People, NEW o \in Orgs, NEW f \in Forms, CheckAcceptance(r, p, o, f)
      PROVE  /\ req' \in [Requests -> Reqs] /\ served' \in Nat
             /\ \A s \in Requests : RequestSound(s)'
  <2> DEFINE q == [step |-> "accept", who |-> p, org |-> o, form |-> f, known |-> GetUserCredentials(p)]
  <2>1. q \in Reqs /\ q.step = "accept" /\ q.who = p /\ (q.known => password[p] # Absent)
    BY <1>2 DEF Reqs, Accept, GetUserCredentials
  <2>2. Begin(r, q) /\ UNCHANGED rows
    BY <1>2 DEF CheckAcceptance
  <2> HIDE DEF q
  <2>3. QED
    BY <2>1, <2>2, Begun
<1>3. ASSUME NEW b \in Browsers, NEW o \in Orgs, SelectOrg(r, b, o)
      PROVE  /\ req' \in [Requests -> Reqs] /\ served' \in Nat
             /\ \A s \in Requests : RequestSound(s)'
  <2> DEFINE q == [step |-> "mint", browser |-> b, who |-> pending[b], org |-> o, role |-> "highest"]
  <2>1. pending[b] \in People /\ Joined(o, pending[b])
    BY <1>3, ActiveJoined DEF IInv, TypeOK, SelectOrg, ParseOrgSelectionToken
  <2>2. q \in Reqs /\ q.step = "mint" /\ q.org = o /\ q.who = pending[b]
    BY <2>1 DEF Reqs, Mint
  <2>3. Begin(r, q) /\ UNCHANGED rows
    BY <1>3 DEF SelectOrg
  <2> HIDE DEF q
  <2>4. QED
    BY <2>1, <2>2, <2>3, Begun
<1>4. ASSUME NEW b \in Browsers, NEW o \in Orgs, NEW role \in AskedRoles, SwitchRole(r, b, o, role)
      PROVE  /\ req' \in [Requests -> Reqs] /\ served' \in Nat
             /\ \A s \in Requests : RequestSound(s)'
  <2> DEFINE q == [step |-> "mint", browser |-> b, who |-> session[b].who, org |-> o, role |-> role]
  <2>1. session[b].who \in People
    BY <1>4 DEF IInv, TypeOK, Session, SwitchRole, RequireAuth
  <2>2. Joined(o, session[b].who)
    BY <1>4, ActiveJoined DEF IInv, SessionsJoined, SwitchRole, RequireAuth
  <2>3. q \in Reqs /\ q.step = "mint" /\ q.org = o /\ q.who = session[b].who
    BY <2>1, AccountsAssumption DEF Reqs, Mint, SystemRole
  <2>4. Begin(r, q) /\ UNCHANGED rows
    BY <1>4 DEF SwitchRole
  <2> HIDE DEF q
  <2>5. QED
    BY <2>2, <2>3, <2>4, Begun
<1>5. ASSUME NEW b \in Browsers, NEW p \in People, NEW role \in GivenRoles,
             NEW status \in {"ACTIVE", "SUSPENDED"}, CheckProfile(r, b, p, role, status)
      PROVE  /\ req' \in [Requests -> Reqs] /\ served' \in Nat
             /\ \A s \in Requests : RequestSound(s)'
  <2> DEFINE q == [step |-> "status", who |-> p, org |-> session[b].org, role |-> role, status |-> status]
  <2>1. session[b].org \in Orgs /\ Joined(session[b].org, p)
    BY <1>5, GuardedIsLive, ActiveJoined DEF CheckProfile, SuperAdmin
  <2>2. q \in Reqs /\ q.step = "status" /\ q.org = session[b].org /\ q.who = p
    BY <2>1, AccountsAssumption DEF Reqs, Profile, SystemRole
  <2>3. Begin(r, q) /\ UNCHANGED rows
    BY <1>5 DEF CheckProfile
  <2> HIDE DEF q
  <2>4. QED
    BY <2>1, <2>2, <2>3, Begun
<1>6. QED
  BY <1>1, <1>2, <1>3, <1>4, <1>5

\* A login, for the one organisation there is.
LEMMA LoginBegun ==
    ASSUME IInv, Kept, NEW r \in Requests, NEW b \in Browsers, NEW p \in People, CompleteLogin(r, b, p)
    PROVE  /\ req' \in [Requests -> Reqs] /\ served' \in Nat
           /\ \A s \in Requests : RequestSound(s)'
<1>1. CASE UNCHANGED <<req, served>>
  BY <1>1, NoRequest DEF IInv, TypeOK, Kept
<1>2. ASSUME NEW o \in Orgs, GetUserOrgMemberships(p) = {o},
             Begin(r, [step |-> "mint", browser |-> b, who |-> p, org |-> o, role |-> "highest"])
      PROVE  /\ req' \in [Requests -> Reqs] /\ served' \in Nat
             /\ \A s \in Requests : RequestSound(s)'
  <2> DEFINE q == [step |-> "mint", browser |-> b, who |-> p, org |-> o, role |-> "highest"]
  <2>1. o \in GetUserOrgMemberships(p)
    BY <1>2
  <2>2. Joined(o, p)
    BY <2>1 DEF GetUserOrgMemberships, Joined
  <2>3. q \in Reqs /\ q.step = "mint" /\ q.org = o /\ q.who = p
    BY DEF Reqs, Mint
  <2>4. Begin(r, q) /\ UNCHANGED rows
    BY <1>2 DEF CompleteLogin
  <2> HIDE DEF q
  <2>5. QED
    BY <2>2, <2>3, <2>4, Begun
<1>3. QED
  BY <1>1, <1>2 DEF CompleteLogin

(***************************************************************************)
(* Every step.                                                             *)
(***************************************************************************)

\* No row is written but by the steps above.
LEMMA RowsWritten ==
    ASSUME IInv, Next
    PROVE  RowsType' /\ RowsInv' /\ Kept
<1>1. CASE UNCHANGED rows
  BY <1>1, RowsUnwritten
<1>2. ASSUME NEW r \in Requests,
             \/ \E o \in Orgs : CommitRegistration(r, o)
             \/ CommitAcceptance(r) \/ WriteStatus(r)
             \/ DeleteUserSystemRoles(r) \/ InsertUserSystemRole(r)
      PROVE  RowsType' /\ RowsInv' /\ Kept
  BY <1>2, RegistrationRows, AcceptanceRows, StatusRows, RoleRows
<1>3. ASSUME NEW b \in Browsers,
             (\E p \in People : InviteUser(b, p)) \/ DeleteOrganization(b)
      PROVE  RowsType' /\ RowsInv' /\ Kept
  BY <1>3, InvitationRows, DeletionRows
<1>4. ASSUME NEW b \in Browsers, NEW f \in Forms, UpdateMyProfile(b, f)
      PROVE  RowsType' /\ RowsInv' /\ Kept
  <2>1. session[b].who \in People
    BY <1>4, GuardedIsLive DEF UpdateMyProfile
  <2>2. QED
    BY <1>4, <2>1, PersonRows
<1>5. ASSUME NEW p \in People, NEW f \in Forms, ResetPassword(p, f)
      PROVE  RowsType' /\ RowsInv' /\ Kept
  BY <1>5, PersonRows
<1>6. QED
  BY <1>1, <1>2, <1>3, <1>4, <1>5 DEF Next, CheckRegistration, ResendInvite, ResendPublicInvite, Mail,
     Fail, CheckAcceptance, ForgotPassword, CompleteLogin, SelectOrg, SwitchRole, IssueAccessToken,
     Logout, ExpireInvite, ExpireReset, ExpireSelection, CheckProfile

\* A request is written by its own steps alone.
LEMMA RequestsWritten ==
    ASSUME IInv, Next, Kept
    PROVE  /\ req' \in [Requests -> Reqs] /\ served' \in Nat
           /\ \A s \in Requests : RequestSound(s)'
<1>1. CASE UNCHANGED <<req, served>>
  BY <1>1, NoRequest DEF IInv, TypeOK, Kept
<1>2. ASSUME NEW r \in Requests, End(r), UNCHANGED served
      PROVE  /\ req' \in [Requests -> Reqs] /\ served' \in Nat
             /\ \A s \in Requests : RequestSound(s)'
  BY <1>2, Ended DEF IInv, TypeOK
<1>3. ASSUME NEW r \in Requests,
             \/ Fail(r) \/ CommitAcceptance(r) \/ IssueAccessToken(r) \/ InsertUserSystemRole(r)
             \/ \E o \in Orgs : CommitRegistration(r, o)
      PROVE  /\ req' \in [Requests -> Reqs] /\ served' \in Nat
             /\ \A s \in Requests : RequestSound(s)'
  <2>1. End(r) /\ UNCHANGED served
    BY <1>3 DEF Fail, CommitAcceptance, IssueAccessToken, InsertUserSystemRole, CommitRegistration
  <2>2. QED
    BY <1>2, <2>1
<1>4. ASSUME NEW r \in Requests, WriteStatus(r) \/ DeleteUserSystemRoles(r)
      PROVE  /\ req' \in [Requests -> Reqs] /\ served' \in Nat
             /\ \A s \in Requests : RequestSound(s)'
  <2>1. req[r].step \in {"status", "wipe"} /\ UNCHANGED served
        /\ \E step \in {"wipe", "insert"} : GoTo(r, step)
    BY <1>4 DEF WriteStatus, DeleteUserSystemRoles
  <2>2. QED
    BY <2>1, GoneOn DEF IInv, TypeOK
<1>5. QED
  BY <1>1, <1>3, <1>4, RequestsBegun, LoginBegun DEF Next, InviteUser, ResendInvite, ResendPublicInvite,
     Mail, ForgotPassword, ResetPassword, UpdateMyProfile, ExpireInvite, ExpireReset, ExpireSelection,
     Logout, DeleteOrganization, tokens

\* The invariant holds at the start: there is nobody and nothing.
LEMMA InitInv == Init => IInv
<1>1. ASSUME Init PROVE TypeOK
  BY <1>1 DEF Init, TypeOK, Session, UserStatus
<1>2. ASSUME Init PROVE OnlyLiveHaveMembers /\ JoinedHaveCredentials /\ CredentialsHaveProfiles
  BY <1>2 DEF Init, OnlyLiveHaveMembers, JoinedHaveCredentials, CredentialsHaveProfiles, Absent
<1>3. ASSUME Init PROVE SessionsJoined /\ \A r \in Requests : RequestSound(r)
  BY <1>3 DEF Init, SessionsJoined, RequestSound, Idle
<1>4. QED
  BY <1>1, <1>2, <1>3 DEF IInv

\* The invariant is kept by every step.
LEMMA Inductive == IInv /\ [Next]_vars => IInv'
<1> SUFFICES ASSUME IInv, [Next]_vars PROVE IInv'
  OBVIOUS
<1>1. CASE Next
  <2>1. RowsType' /\ RowsInv' /\ Kept
    BY <1>1, RowsWritten
  <2>2. TokensType' /\ SessionsJoined'
    BY <1>1, <2>1, TokensWritten, SessionsWritten
  <2>3. /\ req' \in [Requests -> Reqs] /\ served' \in Nat
        /\ \A s \in Requests : RequestSound(s)'
    BY <1>1, <2>1, RequestsWritten
  <2>4. QED
    BY <2>1, <2>2, <2>3, Together
<1>2. CASE UNCHANGED vars
  <2>1. UNCHANGED rows /\ UNCHANGED <<tokens, req, served>>
    BY <1>2 DEF vars
  <2>2. RowsType' /\ RowsInv' /\ Kept
    BY <2>1, RowsUnwritten
  <2>3. TokensType' /\ SessionsJoined'
    BY <2>1, <2>2, SessionsKept DEF IInv, TypeOK, TokensType, tokens
  <2>4. /\ req' \in [Requests -> Reqs] /\ served' \in Nat
        /\ \A s \in Requests : RequestSound(s)'
    BY <2>1, <2>2, NoRequest DEF IInv, TypeOK, Kept
  <2>5. QED
    BY <2>2, <2>3, <2>4, Together
<1>3. QED
  BY <1>1, <1>2

(***************************************************************************)
(* The theorems.                                                           *)
(***************************************************************************)

\* The invariant holds in every state of every behaviour.
THEOREM Invariance == Spec => []IInv
BY InitInv, Inductive, PTL DEF Spec

\* The types of the variables.
THEOREM TypeCorrect == Spec => []TypeOK
<1>1. IInv => TypeOK
  BY DEF IInv
<1>2. QED
  BY <1>1, Invariance, PTL

\* Every member who has joined can sign in, whichever way he joined, however many forms
\* were sent at the same time.
THEOREM JoinedCanSignIn == Spec => []JoinedHaveCredentials
<1>1. IInv => JoinedHaveCredentials
  BY DEF IInv
<1>2. QED
  BY <1>1, Invariance, PTL

\* What BlockSuspendedUsers lets through are ACTIVE members: no session is for an
\* invitation that is open.
THEOREM OnlyActivePass == Spec => []GuardPassesMembers
<1>1. IInv => GuardPassesMembers
  BY GuardedIsLive DEF GuardPassesMembers, IsUserInOrg
<1>2. QED
  BY <1>1, Invariance, PTL

\* One step of the onboarding: what writes a first password writes the profile by the
\* same form, and what writes a later one has a reset link or a session.
LEMMA OnboardingStep ==
    ASSUME IInv, Next, NEW p \in People
    PROVE  IF password[p] = Absent
           THEN password'[p] # Absent => profile'[p] = password'[p]
           ELSE /\ password'[p] # password[p] => p \in reset
                /\ profile'[p] # profile[p] =>
                       \E b \in Browsers : RequireAuth(b) /\ session[b].who = p
<1> DEFINE Good == IF password[p] = Absent
                   THEN password'[p] # Absent => profile'[p] = password'[p]
                   ELSE /\ password'[p] # password[p] => p \in reset
                        /\ profile'[p] # profile[p] =>
                               \E b \in Browsers : RequireAuth(b) /\ session[b].who = p
<1>1. RowsType
  BY DEF IInv, TypeOK, RowsType
<1>2. CASE UNCHANGED <<profile, password>>
  BY <1>2
<1>3. ASSUME NEW r \in Requests, NEW o \in Orgs, CommitRegistration(r, o)
      PROVE  Good
  <2>1. req[r] \in Reqs
    BY DEF IInv, TypeOK, Reqs
  <2>2. req[r].who \in People /\ req[r].form \in Forms
    BY <1>3, <2>1, RequestFields DEF CommitRegistration
  <2>3. ~req[r].known => profile[req[r].who] = Absent
    BY <1>3 DEF CommitRegistration, GetUserByEmail
  <2>4. ~req[r].known => password[req[r].who] = Absent
    BY <2>2, <2>3 DEF IInv, CredentialsHaveProfiles
  <2>5. /\ profile' = IF req[r].known THEN profile ELSE [profile EXCEPT ![req[r].who] = req[r].form]
        /\ password' = IF req[r].known THEN password ELSE [password EXCEPT ![req[r].who] = req[r].form]
    BY <1>3 DEF CommitRegistration, CreateUser, CreateUserCredentials
  <2>6. QED
    BY <1>1, <2>2, <2>4, <2>5 DEF RowsType
<1>4. ASSUME NEW r \in Requests, CommitAcceptance(r)
      PROVE  Good
  <2>1. req[r] \in Reqs
    BY DEF IInv, TypeOK, Reqs
  <2>2. req[r].who \in People /\ req[r].form \in Forms
    BY <1>4, <2>1, RequestFields DEF CommitAcceptance
  <2>3. ~req[r].known => password[req[r].who] = Absent
    BY <1>4 DEF CommitAcceptance, FitsCredentials, GetUserCredentials
  <2>4. /\ profile' = IF req[r].known THEN profile ELSE [profile EXCEPT ![req[r].who] = req[r].form]
        /\ password' = IF req[r].known THEN password ELSE [password EXCEPT ![req[r].who] = req[r].form]
    BY <1>4 DEF CommitAcceptance, UpdateUserOnboarding, CreateUserCredentials
  <2>5. QED
    BY <1>1, <2>2, <2>3, <2>4 DEF RowsType
<1>5. ASSUME NEW b \in Browsers, NEW q \in People, InviteUser(b, q)
      PROVE  Good
  <2>1. password' = password
    BY <1>5 DEF InviteUser
  <2>2. profile' = profile \/ (profile[q] = Absent /\ profile' = [profile EXCEPT ![q] = Blank])
    BY <1>5 DEF InviteUser, CreateInvitedUser, GetUserByEmail
  <2>3. password[p] # Absent => profile[p] # Absent
    BY DEF IInv, CredentialsHaveProfiles
  <2>4. QED
    BY <1>1, <2>1, <2>2, <2>3 DEF RowsType
<1>6. ASSUME NEW q \in People, NEW f \in Forms, ResetPassword(q, f)
      PROVE  Good
  <2>1. q \in reset /\ profile' = profile
        /\ password' = [password EXCEPT ![q] = IF password[q] # Absent THEN f ELSE Absent]
    BY <1>6 DEF ResetPassword, ParsePasswordResetToken, UpdateUserCredentials, GetUserCredentials
  <2>2. QED
    BY <1>1, <2>1 DEF RowsType
<1>7. ASSUME NEW b \in Browsers, NEW f \in Forms, UpdateMyProfile(b, f)
      PROVE  Good
  <2>1. session[b].who \in People
    BY <1>7, GuardedIsLive DEF UpdateMyProfile
  <2>2. RequireAuth(b) /\ password' = password /\ profile' = [profile EXCEPT ![session[b].who] = f]
    BY <1>7 DEF UpdateMyProfile, UpdateUserProfile
  <2>3. p # session[b].who => profile'[p] = profile[p]
    BY <1>1, <2>1, <2>2 DEF RowsType
  <2>4. QED
    BY <2>2, <2>3
<1>8. QED
  BY <1>2, <1>3, <1>4, <1>5, <1>6, <1>7 DEF Next, CheckRegistration, ResendInvite, ResendPublicInvite,
     Mail, Fail, CheckAcceptance, ForgotPassword, CompleteLogin, SelectOrg, SwitchRole, IssueAccessToken,
     Logout, ExpireInvite, ExpireReset, ExpireSelection, CheckProfile, WriteStatus, DeleteUserSystemRoles,
     InsertUserSystemRole, DeleteOrganization, rows

\* A person goes through the onboarding once: two forms for one person never mix, and
\* neither a registration nor an acceptance touches an account there is.
THEOREM OnboardedOnce == Spec => OneOnboarding
<1>1. IInv /\ [Next]_vars => [\A p \in People :
        IF password[p] = Absent
        THEN password'[p] # Absent => profile'[p] = password'[p]
        ELSE /\ password'[p] # password[p] => p \in reset
             /\ profile'[p] # profile[p] =>
                    \E b \in Browsers : RequireAuth(b) /\ session[b].who = p]_vars
  BY OnboardingStep
<1>2. QED
  BY <1>1, Invariance, PTL DEF Spec, OneOnboarding
================================================================================
