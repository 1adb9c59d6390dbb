------------------------------ MODULE TaskThreads ------------------------------
(***************************************************************************)
(* The conversation about a task: who takes part in it, its timeline of    *)
(* updates and their comments, and the bell notifications and pop-up cards *)
(* it sends (services/tasks.go, handlers/notifications.go).                *)
(*                                                                         *)
(* The handlers that decide or edit update the task's row first, so what   *)
(* follows, up to their commit, is one step; an update posted to the       *)
(* timeline takes no such lock, and a comment sends its notifications      *)
(* from a goroutine, after the commit and one statement at a time.         *)
(***************************************************************************)
EXTENDS Naturals, FiniteSets

CONSTANTS
    People, Admins,     \* the organisation, and those who may decide and edit
    Creator,            \* tasks.created_by
    Lists,              \* the participants a form may name
    Mentions,           \* whom an entry may mention
    Requests,           \* requests that may be in progress at a time
    MaxRequests,        \* bound on requests in all
    MaxMarks,           \* bound on reads, dismissals and clearings
    BellLength          \* LIMIT of GetUserNotifications

\* An entry of a request's list of ids: whose it is, whether it is spelled as uuid.String
\* would, which is what the handlers' maps go by, and which of several equal ones it is.
Entry == [who : People, spelling : {"canonical", "other"}, nr : Nat]

ASSUME ThreadsAssumption ==
    /\ Admins \subseteq People /\ Creator \in Admins
    /\ Lists \subseteq [assignees : SUBSET Entry, subscribers : SUBSET Entry]
    /\ Mentions \subseteq SUBSET Entry
    /\ \A m \in Mentions : \A x \in m : [x EXCEPT !.nr = 1] \in m
    /\ MaxRequests \in Nat /\ MaxMarks \in Nat /\ BellLength \in Nat

VARIABLES
    review,         \* tasks.review_status, or that the task is not there yet
    participants,   \* task_participants
    updates,        \* task_updates: the event that wrote each, and its author
    comments,       \* task_update_comments, by the event that wrote them
    sent,           \* every notification ever written
    read, dismissed, cleared,   \* what has become of them
    request,        \* what each request is in the middle of
    clock,          \* requests begun so far; NOW() in a transaction is its start
    marks,
    since,          \* the event that made an assignee of a newcomer
    lost            \* comments whose notifications were cut short

table == <<review, participants, updates, comments>>
bell  == <<read, dismissed, cleared, marks>>
vars  == <<table, sent, bell, request, clock, since, lost>>

ParticipantRole == {"ASSIGNEE", "SUBSCRIBER"}
Decisions == {"APPROVED", "REJECTED", "REOPENED"}
CardKinds == Decisions \cup {"ASSIGNED", "REVIEW", "none"}

\* A card is a notification whose card_kind is not NULL.  as: why it was sent.
Notification ==
    [to : Entry, as : ParticipantRole \cup {"MENTION", "AUTHOR", "CREATOR"},
     kind : CardKinds, event : 1..MaxRequests, stamp : 1..MaxRequests]

Idle == [step |-> "idle"]

Call ==
    [op : {"edit"}, who : Admins, list : Lists]
        \cup [op : Decisions, who : Admins, note : BOOLEAN]
        \cup [op : {"submit"}, who : People]
        \cup [op : {"post"}, who : People, mentions : Mentions]
        \cup [op : {"comment"}, who : People, mentions : Mentions, on : 1..MaxRequests]

Running ==
    [step : {"begun", "telling"}, event : 1..MaxRequests,
     seen : SUBSET (People \X ParticipantRole), call : Call]

Named(list) == {x.who : x \in list}

\* ON CONFLICT DO NOTHING: a participant is one row for each role, however often named.
Inserted(list) ==
    (Named(list.assignees) \X {"ASSIGNEE"}) \cup (Named(list.subscribers) \X {"SUBSCRIBER"})

TypeOK ==
    /\ review \in {"none", "UNSUBMITTED", "PENDING", "APPROVED", "REJECTED"}
    /\ participants \subseteq People \X ParticipantRole
    /\ updates \subseteq [event : 1..MaxRequests, author : People]
    /\ comments \subseteq [event : 1..MaxRequests, mentions : SUBSET Entry]
    /\ sent \subseteq Notification
    /\ read \subseteq sent /\ dismissed \subseteq sent /\ cleared \subseteq sent
    /\ request \in [Requests -> Running \cup {Idle}]
    /\ clock \in 0..MaxRequests /\ marks \in 0..MaxMarks
    /\ since \in [People -> 0..MaxRequests]
    /\ lost \subseteq {c.event : c \in comments}

Init ==
    /\ review = "none"
    /\ participants = {} /\ updates = {} /\ comments = {}
    /\ sent = {} /\ read = {} /\ dismissed = {} /\ cleared = {}
    /\ request = [r \in Requests |-> Idle]
    /\ clock = 0 /\ marks = 0
    /\ since = [p \in People |-> 0]
    /\ lost = {}

--------------------------------------------------------------------------------
(* Transactions *)

\* seen: GetTaskParticipants, for the calls that read them before they wait.
Begin(r, call) ==
    /\ request[r] = Idle /\ clock < MaxRequests
    /\ clock' = clock + 1
    /\ request' = [request EXCEPT ![r] =
                    [step |-> "begun", event |-> clock + 1, seen |-> participants, call |-> call]]
    /\ UNCHANGED <<table, sent, bell, since, lost>>

At(r, op) == request[r].step = "begun" /\ request[r].call.op = op

End(r) == request' = [request EXCEPT ![r] = Idle] /\ UNCHANGED <<bell, clock, lost>>

\* INSERT INTO notifications; created_at is the start of the transaction.
Notify(e, x, as, kind) == [to |-> x, as |-> as, kind |-> kind, event |-> e, stamp |-> e]

\* Somebody the database names.
Id(p) == [who |-> p, spelling |-> "canonical", nr |-> 1]

\* The instance stops, or a statement fails: nothing of the transaction is left.
Rollback(r) ==
    /\ request[r].step = "begun"
    /\ End(r) /\ UNCHANGED <<table, sent, since>>

--------------------------------------------------------------------------------
(* Who takes part *)

\* Not in oldMap, where ids are spelled as the database does.
Newcomers(list, old) == {x \in list : x.spelling = "other" \/ x.who \notin old}

\* A card for each entry of the assignees and a line for each of the subscribers, unless
\* they are seen to have taken part already.
Welcome(e, list, old) ==
    {Notify(e, x, "ASSIGNEE", "ASSIGNED") : x \in Newcomers(list.assignees, old)}
        \cup {Notify(e, x, "SUBSCRIBER", "none") : x \in Newcomers(list.subscribers, old)}

\* Bookkeeping of since, from the rows as they change.
Joins(e, list) ==
    LET old == {p[1] : p \in participants} IN
    since' = [p \in People |->
                IF p \in old /\ p \in Named(list.assignees \cup list.subscribers) THEN since[p]
                ELSE IF p \in Named(list.assignees) \ old THEN e ELSE 0]

CreateTask(list) ==
    /\ review = "none" /\ clock < MaxRequests
    /\ clock' = clock + 1
    /\ review' = "UNSUBMITTED"
    /\ participants' = Inserted(list)
    /\ sent' = sent \cup Welcome(clock + 1, list, {})
    /\ Joins(clock + 1, list)
    /\ UNCHANGED <<updates, comments, bell, request, lost>>

\* Mutant: read before the row is locked.
OldMapAtBegin(r) == {p[1] : p \in request[r].seen}

\* oldMap: read in the transaction, once it has the task's row.
OldMap(r) == {p[1] : p \in participants}

UpdateTaskDetails(r) ==
    /\ At(r, "edit")
    /\ LET list == request[r].call.list IN
        /\ participants' = Inserted(list)
        /\ sent' = sent \cup Welcome(request[r].event, list, OldMap(r))
        /\ Joins(request[r].event, list)
    /\ End(r) /\ UNCHANGED <<review, updates, comments>>

--------------------------------------------------------------------------------
(* Review *)

AddTaskUpdate(e, p) == updates' = updates \cup {[event |-> e, author |-> p]}

\* Assignees get the card, except whoever acts; everyone else gets the line.
notifyParticipantsWithCard(e, actor, kind) ==
    {Notify(e, Id(p[1]), p[2], IF p[2] = "ASSIGNEE" /\ p[1] # actor THEN kind ELSE "none") :
        p \in participants}

IsTaskAssignee(p) == <<p, "ASSIGNEE">> \in participants

SubmitTaskForReview(r) ==
    /\ At(r, "submit")
    /\ review' = "PENDING"
    /\ AddTaskUpdate(request[r].event, request[r].call.who)
    /\ sent' = sent \cup {Notify(request[r].event, Id(Creator), "CREATOR", "REVIEW")}
    /\ End(r) /\ UNCHANGED <<participants, comments, since>>

\* ApproveTask, and both actions of ActionTask; only a note, or an approval,
\* leaves an update behind.
Decide(r, kind) ==
    /\ At(r, kind)
    /\ review' = IF kind = "REOPENED" THEN "UNSUBMITTED" ELSE kind
    /\ IF kind = "APPROVED" \/ request[r].call.note
        THEN AddTaskUpdate(request[r].event, request[r].call.who)
        ELSE UNCHANGED updates
    /\ sent' = sent \cup
            notifyParticipantsWithCard(request[r].event, request[r].call.who, kind)
    /\ End(r) /\ UNCHANGED <<participants, comments, since>>

--------------------------------------------------------------------------------
(* The timeline *)

\* Mutant: participants are told, mentioned or not.
OthersAndMentioned(r) == {p \in request[r].seen : p[1] # request[r].call.who}

\* Those the request mentions in the database's spelling.
mentionedMap(r) == Named({x \in request[r].call.mentions : x.spelling = "canonical"})

\* The other participants but the author.
Others(r) ==
    {p \in request[r].seen : p[1] # request[r].call.who /\ p[1] \notin mentionedMap(r)}

PostTaskUpdate(r) ==
    /\ At(r, "post")
    /\ LET e == request[r].event IN
        /\ AddTaskUpdate(e, request[r].call.who)
        /\ sent' = sent \cup {Notify(e, x, "MENTION", "none") : x \in request[r].call.mentions}
                        \cup {Notify(e, Id(p[1]), p[2], "none") : p \in Others(r)}
    /\ End(r) /\ UNCHANGED <<review, participants, comments, since>>

InsertComment(r) ==
    comments' = comments \cup {[event |-> request[r].event, mentions |-> request[r].call.mentions]}

\* Mutant: the goroutine has the request's context, which ends with it.
PostUpdateCommentInRequest(r) ==
    /\ At(r, "comment")
    /\ InsertComment(r)
    /\ End(r) /\ UNCHANGED <<review, participants, updates, sent, since>>

PostUpdateComment(r) ==
    /\ At(r, "comment")
    /\ InsertComment(r)
    /\ request' = [request EXCEPT ![r].step = "telling"]
    /\ UNCHANGED <<review, participants, updates, sent, bell, clock, since, lost>>

\* Here, unlike in PostTaskUpdate, equal entries are told once.
uniqueMentionedIds(r) == {x \in request[r].call.mentions : x.nr = 1}

Told(r) == {n.to : n \in {m \in sent : m.event = request[r].event}}

\* The goroutine; every insert is a transaction of its own.
TellMentioned(r) ==
    /\ request[r].step = "telling"
    /\ \E x \in uniqueMentionedIds(r) \ Told(r) :
        sent' = sent \cup {[Notify(request[r].event, x, "MENTION", "none") EXCEPT !.stamp = clock]}
    /\ UNCHANGED <<table, bell, request, clock, since, lost>>

\* GetTaskUpdateAuthor, told unless it is their own comment or they know.
Author(r) ==
    {u.author : u \in {v \in updates : v.event = request[r].call.on}}
        \ ({request[r].call.who} \cup mentionedMap(r))

TellAuthor(r) ==
    /\ request[r].step = "telling"
    /\ uniqueMentionedIds(r) \subseteq Told(r)
    /\ sent' = sent \cup
            {[Notify(request[r].event, Id(p), "AUTHOR", "none") EXCEPT !.stamp = clock] :
                p \in Author(r)}
    /\ End(r) /\ UNCHANGED <<table, since>>

\* The instance stops under the goroutine, or one of its inserts fails.
CutShort(r) ==
    /\ request[r].step = "telling"
    /\ request' = [request EXCEPT ![r] = Idle]
    /\ lost' = lost \cup {request[r].event}
    /\ UNCHANGED <<table, sent, bell, clock, since>>

--------------------------------------------------------------------------------
(* What people do with their notifications *)

Mine(p) == {n \in sent \ cleared : n.to.who = p}

\* The newest ones; ties are broken at will.
GetUserNotifications(p) ==
    {n \in Mine(p) : Cardinality({m \in Mine(p) : m.stamp > n.stamp}) < BellLength}

GetUserTaskCards(p) == {n \in Mine(p) \ dismissed : n.kind # "none"}

Mark == marks < MaxMarks /\ marks' = marks + 1
        /\ UNCHANGED <<table, sent, request, clock, since, lost>>

MarkNotificationsRead(p) ==
    /\ Mark /\ read' = read \cup Mine(p) /\ UNCHANGED <<dismissed, cleared>>

MarkOneNotificationRead(p) ==
    /\ Mark /\ \E n \in GetUserNotifications(p) : read' = read \cup {n}
    /\ UNCHANGED <<dismissed, cleared>>

DismissTaskCard(p) ==
    /\ Mark /\ \E n \in GetUserTaskCards(p) : dismissed' = dismissed \cup {n}
    /\ UNCHANGED <<read, cleared>>

ClearNotifications(p) ==
    /\ Mark /\ cleared' = cleared \cup Mine(p) /\ UNCHANGED <<read, dismissed>>

--------------------------------------------------------------------------------
Starts(r) ==
    \/ \E p \in Admins, list \in Lists : Begin(r, [op |-> "edit", who |-> p, list |-> list])
    \/ \E p \in Admins, kind \in Decisions, note \in BOOLEAN :
        Begin(r, [op |-> kind, who |-> p, note |-> note])
    \/ \E p \in People : IsTaskAssignee(p) /\ Begin(r, [op |-> "submit", who |-> p])
    \/ \E p \in People, m \in Mentions : Begin(r, [op |-> "post", who |-> p, mentions |-> m])
    \/ \E p \in People, m \in Mentions, u \in updates :
        Begin(r, [op |-> "comment", who |-> p, mentions |-> m, on |-> u.event])

Tell(r) == TellMentioned(r) \/ TellAuthor(r)

Next ==
    \/ \E list \in Lists : CreateTask(list)
    \/ \E r \in Requests :
        \/ review # "none" /\ Starts(r)
        \/ UpdateTaskDetails(r) \/ SubmitTaskForReview(r) \/ PostTaskUpdate(r)
        \/ PostUpdateComment(r) \/ Tell(r) \/ CutShort(r) \/ Rollback(r)
        \/ \E kind \in Decisions : Decide(r, kind)
    \/ \E p \in People :
        \/ MarkNotificationsRead(p) \/ MarkOneNotificationRead(p)
        \/ DismissTaskCard(p) \/ ClearNotifications(p)

Fairness == \A r \in Requests : WF_vars(Tell(r))

Spec == Init /\ [][Next]_vars /\ Fairness

--------------------------------------------------------------------------------
(* Properties *)

\* Whoever comes to a task as an assignee has been sent the card that says so,
\* whatever edits overlapped (the diff of UpdateTaskDetails).  A subscriber
\* who is made an assignee is not among them: the code calls them known.
AssignedAreTold ==
    \A p \in People : since[p] # 0 =>
        \E n \in sent : n.to.who = p /\ n.kind = "ASSIGNED" /\ n.event = since[p]

SameId(n, m) == n.to.who = m.to.who /\ n.to.spelling = m.to.spelling

\* One event tells one id twice only as a participant in two roles, or where the list of a
\* form or the mentions of an update repeat it; a comment's mentions may, and tell it once,
\* and nobody is told as a participant or as the author whom the request mentions by that
\* id.  What is told of is there to be read (notifyParticipantsWithCard, CreateTask,
\* UpdateTaskDetails, PostTaskUpdate, PostUpdateComment).
ToldOnceOfWhatExists ==
    /\ \A n, m \in sent : n # m /\ n.event = m.event /\ SameId(n, m) =>
        \/ {n.as, m.as} = ParticipantRole
        \/ /\ n.as = m.as /\ n.to.nr # m.to.nr
           /\ n.as = "MENTION" => n.event \in {u.event : u \in updates}
    /\ \A n \in sent : n.as = "AUTHOR" => n.event \in {c.event : c \in comments}
    /\ \A n \in sent : n.as = "MENTION" =>
        n.event \in {c.event : c \in comments} \cup {u.event : u \in updates}

\* A comment's mentions all reach the bell, although they are sent after the
\* commit, unless an instance stops or an insert fails (PostUpdateComment).
MentionsArrive ==
    \A e \in 1..MaxRequests :
        (\E c \in comments : c.event = e) ~>
            (e \in lost \/ \A c \in comments : c.event = e =>
                \A x \in c.mentions : \E n \in sent : n.event = e /\ n.to = [x EXCEPT !.nr = 1])

================================================================================
