-------------------------------- MODULE Accounts --------------------------------
(***************************************************************************)
(* One identity per email, shared by every organisation that invites it:   *)
(* its profile and password, its memberships and roles organisation by     *)
(* organisation, the links it is mailed and the session of each browser    *)
(* (services/auth.go, handlers/auth.go, services/admin.go, user.go).       *)
(* Teams has what people do inside their organisations; this module what   *)
(* organisations share.                                                    *)
(***************************************************************************)
EXTENDS Naturals, FiniteSets

CONSTANTS
    People,             \* identities: emails, lower-cased and trimmed
    Orgs,
    Forms,              \* what a person types: a name, a phone, a password
    Browsers,
    GivenRoles,         \* what a profile update may set
    AskedRoles,         \* what a switch of role may ask for, "highest" when it names none
    Requests,           \* API requests that may be in progress at a time
    MaxRequests         \* bound on the requests of several statements

ASSUME AccountsAssumption ==
    /\ GivenRoles \subseteq {"SUPER_ADMIN", "ADMIN", "EMPLOYEE"}
    /\ AskedRoles \subseteq {"SUPER_ADMIN", "ADMIN", "EMPLOYEE", "highest"}
    /\ MaxRequests \in Nat

VARIABLES
    orgs,               \* organizations
    profile,            \* users: "none" before the row, "blank" before the onboarding
    password,           \* user_credentials
    member, roles,      \* org_memberships, user_system_roles
    invite, reset,      \* links mailed: invitations, and who has a reset link that is good
    pending,            \* whose org-selection token a browser holds
    session,            \* the access_token cookie
    req, served

rows    == <<orgs, profile, password, member, roles>>
tokens  == <<invite, reset, pending, session>>
vars    == <<rows, tokens, req, served>>

SystemRole == {"SUPER_ADMIN", "ADMIN", "EMPLOYEE"}
UserStatus == {"INVITED", "ACTIVE", "SUSPENDED"}
Absent  == "none"
Blank   == "blank"          \* the row an invitation inserts for a person it has never met
NoOne   == "nobody"
NoSession == [who |-> NoOne]
Idle    == [step |-> "idle"]

\* What people type and are called by is none of the marks above.
ASSUME MarksAssumption == Absent \notin Forms /\ Blank \notin Forms /\ NoOne \notin People

Session  == [who : People, org : Orgs, role : SystemRole]
\* known: the password was found (register), the credentials were found (accept).
Register == [step : {"register"}, who : People, form : Forms, known : BOOLEAN]
Accept   == [step : {"accept"}, who : People, org : Orgs, form : Forms, known : BOOLEAN]
Mint     == [step : {"mint"}, browser : Browsers, who : People, org : Orgs,
             role : SystemRole \cup {"highest"}]
Profile  == [step : {"status", "wipe", "insert"}, who : People, org : Orgs,
             role : SystemRole, status : {"ACTIVE", "SUSPENDED"}]

TypeOK ==
    /\ orgs \in [Orgs -> {"unborn", "live", "deleted"}]
    /\ profile \in [People -> Forms \cup {Absent, Blank}]
    /\ password \in [People -> Forms \cup {Absent}]
    /\ member \in [Orgs -> [People -> UserStatus \cup {Absent}]]
    /\ roles \in [Orgs -> [People -> SUBSET SystemRole]]
    /\ invite \in [Orgs -> [People -> {Absent, "good", "expired"}]]
    /\ reset \in SUBSET People
    /\ pending \in [Browsers -> People \cup {NoOne}]
    /\ session \in [Browsers -> Session \cup {NoSession}]
    /\ req \in [Requests -> {Idle} \cup Register \cup Accept \cup Mint \cup Profile]
    /\ served \in Nat

Init ==
    /\ orgs = [o \in Orgs |-> "unborn"]
    /\ profile = [p \in People |-> Absent] /\ password = [p \in People |-> Absent]
    /\ member = [o \in Orgs |-> [p \in People |-> Absent]]
    /\ roles = [o \in Orgs |-> [p \in People |-> {}]]
    /\ invite = [o \in Orgs |-> [p \in People |-> Absent]] /\ reset = {}
    /\ pending = [b \in Browsers |-> NoOne] /\ session = [b \in Browsers |-> NoSession]
    /\ req = [r \in Requests |-> Idle] /\ served = 0

--------------------------------------------------------------------------------
(* Queries *)

GetUserByEmail(p)       == profile[p] # Absent
GetUserCredentials(p)   == password[p] # Absent
GetUserOrgMemberships(p) == {o \in Orgs : member[o][p] = "ACTIVE"}
IsUserInOrg(p, o)       == member[o][p] = "ACTIVE"
GetUserSystemRoles(p, o) == roles[o][p]
GetMembershipStatus(p, o) == member[o][p]

\* The join with the roles leaves out a member whose roles are being rewritten.
GetInvitedMembership(p, o)  == member[o][p] # Absent /\ roles[o][p] # {}
GetPendingInvitedUser(p, o) == member[o][p] # Absent /\ roles[o][p] # {}

\* What writes a row.
CreateUser(p, f)           == [profile EXCEPT ![p] = f]
CreateInvitedUser(p)       == [profile EXCEPT ![p] = Blank]
UpdateUserOnboarding(p, f) == [profile EXCEPT ![p] = f]
UpdateUserProfile(p, f)    == [profile EXCEPT ![p] = f]
CreateUserCredentials(p, f) == [password EXCEPT ![p] = f]
CreateOrgMembership(p, o, status) == [member EXCEPT ![o] = [member[o] EXCEPT ![p] = status]]
AddUserSystemRole(p, o, role) == [roles EXCEPT ![o] = [roles[o] EXCEPT ![p] = roles[o][p] \cup {role}]]

\* An UPDATE writes nothing where there is no row.
UpdateMembershipStatus(p, o, status) ==
    IF member[o][p] = Absent THEN member
    ELSE [member EXCEPT ![o] = [member[o] EXCEPT ![p] = status]]
UpdateUserCredentials(p, f) ==
    [password EXCEPT ![p] = IF GetUserCredentials(p) THEN f ELSE Absent]

\* The links, signed: nothing of them is in the database.
ParseInviteToken(p, o)             == invite[o][p] = "good"
ParseInviteTokenAllowExpired(p, o) == invite[o][p] # Absent
ParsePasswordResetToken(p)         == p \in reset
ParseOrgSelectionToken(b)          == pending[b] # NoOne

\* RequireAuth and BlockSuspendedUsers before the handler; a missing row is an error.
RequireAuth(b) == session[b] # NoSession
BlockSuspendedUsers(b) ==
    GetMembershipStatus(session[b].who, session[b].org) \notin {Absent, "SUSPENDED"}
RequireRole(b, allowed) == session[b].role \in allowed
SuperAdmin(b) ==
    RequireAuth(b) /\ BlockSuspendedUsers(b) /\ RequireRole(b, {"SUPER_ADMIN"})

--------------------------------------------------------------------------------
(* Requests of several statements *)

Begin(r, request) ==
    /\ req[r] = Idle /\ served < MaxRequests
    /\ served' = served + 1
    /\ req' = [req EXCEPT ![r] = request]
GoTo(r, step) == req' = [req EXCEPT ![r] = [req[r] EXCEPT !.step = step]]
End(r)        == req' = [req EXCEPT ![r] = Idle]

\* An error, or a check that fails late, ends the request: a transaction leaves nothing
\* (the unique email or domain of a registration), other statements what they wrote.
Fail(r) ==
    /\ req[r] # Idle
    /\ End(r)
    /\ UNCHANGED <<rows, tokens, served>>

--------------------------------------------------------------------------------
(* Organisations and invitations *)

\* RegisterOrganization up to its transaction: an email that exists needs its password.
CheckRegistration(r, p, f) ==
    /\ GetUserByEmail(p) => GetUserCredentials(p) /\ password[p] = f
    /\ Begin(r, [step |-> "register", who |-> p, form |-> f, known |-> GetUserByEmail(p)])
    /\ UNCHANGED <<rows, tokens>>

\* The transaction; it fails for an identity born meanwhile.
CommitRegistration(r, o) ==
    /\ req[r].step = "register" /\ orgs[o] = "unborn"
    /\ LET p == req[r].who  f == req[r].form
       IN  /\ req[r].known \/ ~GetUserByEmail(p)
           /\ orgs' = [orgs EXCEPT ![o] = "live"]
           /\ profile' = IF req[r].known THEN profile ELSE CreateUser(p, f)
           /\ password' = IF req[r].known THEN password ELSE CreateUserCredentials(p, f)
           /\ member' = CreateOrgMembership(p, o, "ACTIVE")
           /\ roles' = AddUserSystemRole(p, o, "SUPER_ADMIN")
    /\ End(r)
    /\ UNCHANGED <<tokens, served>>

\* One transaction, then the link: its message may fail to be queued.
InviteUser(b, p) ==
    /\ SuperAdmin(b)
    /\ LET o == session[b].org
       IN  /\ member[o][p] = Absent
           /\ profile' = IF GetUserByEmail(p) THEN profile ELSE CreateInvitedUser(p)
           /\ member' = CreateOrgMembership(p, o, "INVITED")
           /\ \E role \in {"ADMIN", "EMPLOYEE"} : roles' = AddUserSystemRole(p, o, role)
           /\ \E queued \in BOOLEAN :
                invite' = IF queued THEN [invite EXCEPT ![o] = [invite[o] EXCEPT ![p] = "good"]]
                                    ELSE invite
    /\ UNCHANGED <<orgs, password, reset, pending, session, req, served>>

Mail(p, o) ==
    /\ invite' = [invite EXCEPT ![o] = [invite[o] EXCEPT ![p] = "good"]]
    /\ UNCHANGED <<rows, reset, pending, session, req, served>>

ResendInvite(b, p) ==
    /\ SuperAdmin(b)
    /\ GetInvitedMembership(p, session[b].org)
    /\ member[session[b].org][p] = "INVITED"
    /\ Mail(p, session[b].org)

\* From a link that has expired, or has not.
ResendPublicInvite(p, o) ==
    /\ ParseInviteTokenAllowExpired(p, o)
    /\ GetPendingInvitedUser(p, o) /\ member[o][p] # "ACTIVE"
    /\ Mail(p, o)

\* Mutant: a membership is taken for an account.
CheckAcceptanceByStatus(r, p, o, f) ==
    /\ ParseInviteToken(p, o)
    /\ Begin(r, [step |-> "accept", who |-> p, org |-> o, form |-> f,
                 known |-> \E c \in Orgs \ {o} : member[c][p] # Absent])
    /\ UNCHANGED <<rows, tokens>>

\* AcceptInvite reads inside its transaction, and commits what it has read.
CheckAcceptance(r, p, o, f) ==
    /\ ParseInviteToken(p, o) /\ GetUserByEmail(p)
    /\ Begin(r, [step |-> "accept", who |-> p, org |-> o, form |-> f,
                 known |-> GetUserCredentials(p)])
    /\ UNCHANGED <<rows, tokens>>

\* Mutant: the insert overwrites, as an upsert would.
UpsertsCredentials(r) == TRUE

\* The primary key of the credentials undoes a first acceptance when another has
\* inserted them meanwhile.
FitsCredentials(r) == req[r].known \/ ~GetUserCredentials(req[r].who)

CommitAcceptance(r) ==
    /\ req[r].step = "accept" /\ FitsCredentials(r)
    /\ LET p == req[r].who  f == req[r].form
       IN  /\ profile' = IF req[r].known THEN profile ELSE UpdateUserOnboarding(p, f)
           /\ password' = IF req[r].known THEN password ELSE CreateUserCredentials(p, f)
           /\ member' = UpdateMembershipStatus(p, req[r].org, "ACTIVE")
    /\ End(r)
    /\ UNCHANGED <<orgs, roles, tokens, served>>

--------------------------------------------------------------------------------
(* Passwords and profiles *)

ForgotPassword(p) ==
    /\ GetUserByEmail(p)
    /\ reset' = reset \cup {p}
    /\ UNCHANGED <<rows, invite, pending, session, req, served>>

\* The link may be used again until it expires.
ResetPassword(p, f) ==
    /\ ParsePasswordResetToken(p)
    /\ password' = UpdateUserCredentials(p, f)
    /\ UNCHANGED <<orgs, profile, member, roles, tokens, req, served>>

UpdateMyProfile(b, f) ==
    /\ RequireAuth(b) /\ BlockSuspendedUsers(b)
    /\ profile' = UpdateUserProfile(session[b].who, f)
    /\ UNCHANGED <<orgs, password, member, roles, tokens, req, served>>

--------------------------------------------------------------------------------
(* Sessions *)

\* Login and LoginWithGoogle meet in completeLogin: a session for one organisation, a
\* token to choose with for several, an error for none.
CompleteLogin(r, b, p) ==
    /\ GetUserByEmail(p) /\ GetUserCredentials(p)
    /\ \/ \E o \in Orgs :
            /\ GetUserOrgMemberships(p) = {o}
            /\ Begin(r, [step |-> "mint", browser |-> b, who |-> p, org |-> o, role |-> "highest"])
            /\ UNCHANGED pending
       \/ /\ Cardinality(GetUserOrgMemberships(p)) > 1
          /\ pending' = [pending EXCEPT ![b] = p]
          /\ UNCHANGED <<req, served>>
    /\ UNCHANGED <<rows, invite, reset, session>>

SelectOrg(r, b, o) ==
    /\ ParseOrgSelectionToken(b) /\ IsUserInOrg(pending[b], o)
    /\ Begin(r, [step |-> "mint", browser |-> b, who |-> pending[b], org |-> o, role |-> "highest"])
    /\ UNCHANGED <<rows, tokens>>

\* Mutant: the organisation is not looked at.
SwitchRoleAnywhere(r, b, o, role) ==
    /\ RequireAuth(b)
    /\ Begin(r, [step |-> "mint", browser |-> b, who |-> session[b].who, org |-> o, role |-> role])
    /\ UNCHANGED <<rows, tokens>>

\* Behind RequireAuth only; the membership is looked at for another organisation.
SwitchRole(r, b, o, role) ==
    /\ RequireAuth(b)
    /\ o # session[b].org => IsUserInOrg(session[b].who, o)
    /\ Begin(r, [step |-> "mint", browser |-> b, who |-> session[b].who, org |-> o, role |-> role])
    /\ UNCHANGED <<rows, tokens>>

Highest(held) ==
    IF "SUPER_ADMIN" \in held THEN "SUPER_ADMIN"
    ELSE IF "ADMIN" \in held THEN "ADMIN" ELSE "EMPLOYEE"

\* A role inherits those below it.
Privileged(held, role) ==
    role \in held \/ "SUPER_ADMIN" \in held \/ ("ADMIN" \in held /\ role = "EMPLOYEE")

IssueAccessToken(r) ==
    /\ req[r].step = "mint"
    /\ LET held == GetUserSystemRoles(req[r].who, req[r].org)
           role == IF req[r].role = "highest" THEN Highest(held) ELSE req[r].role
       IN  /\ held # {} /\ Privileged(held, role)
           /\ session' = [session EXCEPT ![req[r].browser] =
                                [who |-> req[r].who, org |-> req[r].org, role |-> role]]
    /\ End(r)
    /\ UNCHANGED <<rows, invite, reset, pending, served>>

Logout(b) ==
    /\ session[b] # NoSession
    /\ session' = [session EXCEPT ![b] = NoSession]
    /\ UNCHANGED <<rows, invite, reset, pending, req, served>>

\* 48 hours, 15 minutes, 5 minutes; the day of a session ends as Logout does.
ExpireInvite(p, o) ==
    /\ ParseInviteToken(p, o)
    /\ invite' = [invite EXCEPT ![o] = [invite[o] EXCEPT ![p] = "expired"]]
    /\ UNCHANGED <<rows, reset, pending, session, req, served>>
ExpireReset(p) ==
    /\ ParsePasswordResetToken(p) /\ reset' = reset \ {p}
    /\ UNCHANGED <<rows, invite, pending, session, req, served>>
ExpireSelection(b) ==
    /\ ParseOrgSelectionToken(b) /\ pending' = [pending EXCEPT ![b] = NoOne]
    /\ UNCHANGED <<rows, invite, reset, session, req, served>>

--------------------------------------------------------------------------------
(* A Super Admin's changes *)

CheckProfile(r, b, p, role, status) ==
    /\ SuperAdmin(b)
    /\ IsUserInOrg(p, session[b].org)
    /\ Begin(r, [step |-> "status", who |-> p, org |-> session[b].org,
                 role |-> role, status |-> status])
    /\ UNCHANGED <<rows, tokens>>

WriteStatus(r) ==
    /\ req[r].step = "status"
    /\ member' = UpdateMembershipStatus(req[r].who, req[r].org, req[r].status)
    /\ GoTo(r, "wipe")
    /\ UNCHANGED <<orgs, profile, password, roles, tokens, served>>

DeleteUserSystemRoles(r) ==
    /\ req[r].step = "wipe"
    /\ roles' = [roles EXCEPT ![req[r].org] = [roles[req[r].org] EXCEPT ![req[r].who] = {}]]
    /\ GoTo(r, "insert")
    /\ UNCHANGED <<orgs, profile, password, member, tokens, served>>

\* The foreign key refuses an organisation deleted meanwhile.
InsertUserSystemRole(r) ==
    /\ req[r].step = "insert"
    /\ LET o == req[r].org  p == req[r].who
       IN  roles' = IF orgs[o] = "live" THEN AddUserSystemRole(p, o, req[r].role) ELSE roles
    /\ End(r)
    /\ UNCHANGED <<orgs, profile, password, member, tokens, served>>

\* Memberships and roles go with the organisation; identities stay.
DeleteOrganization(b) ==
    /\ SuperAdmin(b)
    /\ LET o == session[b].org
       IN  /\ orgs' = [orgs EXCEPT ![o] = "deleted"]
           /\ member' = [member EXCEPT ![o] = [p \in People |-> Absent]]
           /\ roles' = [roles EXCEPT ![o] = [p \in People |-> {}]]
    /\ UNCHANGED <<profile, password, tokens, req, served>>

--------------------------------------------------------------------------------
Next ==
    \/ \E r \in Requests :
        \/ \E p \in People, f \in Forms : CheckRegistration(r, p, f)
        \/ \E o \in Orgs : CommitRegistration(r, o)
        \/ Fail(r)
        \/ \E p \in People, o \in Orgs, f \in Forms : CheckAcceptance(r, p, o, f)
        \/ CommitAcceptance(r)
        \/ \E b \in Browsers :
            \/ \E p \in People : CompleteLogin(r, b, p)
            \/ \E o \in Orgs : SelectOrg(r, b, o)
            \/ \E o \in Orgs, role \in AskedRoles : SwitchRole(r, b, o, role)
            \/ \E p \in People, role \in GivenRoles, status \in {"ACTIVE", "SUSPENDED"} :
                CheckProfile(r, b, p, role, status)
        \/ IssueAccessToken(r)
        \/ WriteStatus(r) \/ DeleteUserSystemRoles(r) \/ InsertUserSystemRole(r)
    \/ \E b \in Browsers :
        \/ \E p \in People : InviteUser(b, p) \/ ResendInvite(b, p)
        \/ \E f \in Forms : UpdateMyProfile(b, f)
        \/ Logout(b) \/ ExpireSelection(b) \/ DeleteOrganization(b)
    \/ \E p \in People :
        \/ \E o \in Orgs : ResendPublicInvite(p, o) \/ ExpireInvite(p, o)
        \/ ForgotPassword(p) \/ ExpireReset(p)
        \/ \E f \in Forms : ResetPassword(p, f)

Spec == Init /\ [][Next]_vars

--------------------------------------------------------------------------------
(* Properties *)

\* Whoever has joined an organisation, by registering it, by an invitation, or as an
\* account that had joined others before, can sign in: there is a password, and a
\* profile with it.
JoinedHaveCredentials ==
    \A o \in Orgs, p \in People : member[o][p] \in {"ACTIVE", "SUSPENDED"} =>
        password[p] # Absent /\ profile[p] \notin {Absent, Blank}

\* auth.go, "left untouched": a profile and a password are first written together, by
\* one form; after that registering or accepting anywhere changes neither.
OneOnboarding ==
    [][\A p \in People :
        IF password[p] = Absent
        THEN password'[p] # Absent => profile'[p] = password'[p]
        ELSE /\ password'[p] # password[p] => p \in reset
             /\ profile'[p] # profile[p] =>
                    \E b \in Browsers : RequireAuth(b) /\ session[b].who = p]_vars

\* BlockSuspendedUsers refuses one status, SUSPENDED: whoever it lets through is an
\* ACTIVE member because no session is ever made for an invitation not yet accepted.
GuardPassesMembers ==
    \A b \in Browsers : RequireAuth(b) /\ BlockSuspendedUsers(b) =>
        IsUserInOrg(session[b].who, session[b].org)
================================================================================
