------------------------------ MODULE TaskScores ------------------------------
(***************************************************************************)
(* The task lifecycle and the score ledger it drives.                      *)
(*                                                                         *)
(* API requests (services/tasks.go, services/scores.go) run beside the     *)
(* worker's missed-deadline poller (worker/tasks/missed_deadlines.go) on   *)
(* one Postgres database at READ COMMITTED.  What the interleavings turn   *)
(* on is kept apart:                                                       *)
(*   - a decision (approve, reject, reopen) is a transaction whose first   *)
(*     statement updates, and so locks, the task's row; what its           *)
(*     SupersedeScoreEvents statements see is fixed while it holds the     *)
(*     lock, and nothing is visible to others before it commits;           *)
(*   - SubmitTaskForReview checks the caller before its transaction;       *)
(*   - the poller reads its candidates once, then inserts a row for each   *)
(*     with no transaction and no lock on the task.                        *)
(* UpdateTaskDetails and CreateTask are transactions with no step another  *)
(* actor could come between, so each is one action.                        *)
(*                                                                         *)
(* Reminders, cards, attachments and progress posts written by the same    *)
(* handlers touch none of this state and are left to their own modules.    *)
(***************************************************************************)
EXTENDS Naturals, Sequences, FiniteSets, ScorePoints

CONSTANTS
    Tasks, Users, Requests, Pollers,
    NoDue,          \* the NULL due_date
    DueDates,       \* due dates a payload may carry, NoDue if it may omit one
    AssigneeSets,   \* assignee lists a payload may carry
    MaxTime,        \* bound on the clock
    MaxRows,        \* bound on ledger rows per task and user a decision starts from
    MaxStops        \* bound on worker restarts

Free == "free"  \* a row nobody has locked

ASSUME TaskScoresAssumption ==
    /\ NoDue \notin Nat
    /\ Free \notin Requests
    /\ DueDates \subseteq Nat \cup {NoDue}
    /\ AssigneeSets \subseteq SUBSET Users
    /\ MaxTime \in Nat /\ MaxRows \in Nat /\ MaxStops \in Nat

VARIABLES
    now,        \* the database clock
    task,       \* tasks: the committed row of each task
    assignees,  \* task_participants with role ASSIGNEE
    lock,       \* the request holding the row lock of a task, or Free
    req,        \* what each API request is in the middle of
    book,       \* employee_scores: rows of each (task, user) in commit order
    poll,       \* the candidates a poller has read and not inserted yet
    stops       \* worker restarts so far

vars == <<now, task, assignees, lock, req, book, poll, stops>>

--------------------------------------------------------------------------------
(* Rows *)

Statuses     == {"OPEN", "CLOSED"}
Fulfillments == {"PENDING", "COMPLETED"}
Reviews      == {"UNSUBMITTED", "PENDING", "APPROVED", "REJECTED"}

TaskRow == [live : BOOLEAN, status : Statuses, fulfillment : Fulfillments,
            review : Reviews, due : Nat \cup {NoDue}, created : Nat]

Completions == {"ON_TIME_COMPLETION", "LATE_COMPLETION"}
Verdicts    == Completions \cup {"REJECTION"}
Kinds       == Verdicts \cup {"MISSED_DEADLINE"}

ScoreRow == [kind : Kinds, points : 0 .. BasePoints + MaxBonus, superseded : BOOLEAN]

Score(kind, points) == [kind |-> kind, points |-> points, superseded |-> FALSE]

\* The rows of a sequence of score rows that count: every query of scores.sql
\* has superseded = false.
Active(rows, kinds) ==
    {i \in 1 .. Len(rows) : rows[i].kind \in kinds /\ ~rows[i].superseded}

\* Mutant: the newest row seen is missed.
SupersedeAllButLast(rows, n) ==
    [i \in 1 .. Len(rows) |-> [rows[i] EXCEPT !.superseded = @ \/ i < n]]
\* UPDATE ... SET superseded = true over the rows the statement saw, the first
\* n; rows committed after its snapshot are left as they are.
SupersedeScoreEvents(rows, n) ==
    [i \in 1 .. Len(rows) |->
        [rows[i] EXCEPT !.superseded = @ \/ i <= n]]

--------------------------------------------------------------------------------
(* Requests *)

Idle == [pc |-> "idle"]

Decisions == {"APPROVE", "REJECT", "REOPEN"}

Submitting == [pc : {"submitting"}, task : Tasks, user : Users]

Deciding == [pc : {"deciding"}, op : Decisions, task : Tasks, after : TaskRow,
             targets : SUBSET Users, award : Seq(ScoreRow),
             seen : [Users -> Nat]]

TypeOK ==
    /\ now \in Nat
    /\ task \in [Tasks -> TaskRow]
    /\ assignees \in [Tasks -> SUBSET Users]
    /\ lock \in [Tasks -> Requests \cup {Free}]
    /\ req \in [Requests -> {Idle} \cup Submitting \cup Deciding]
    /\ book \in [Tasks -> [Users -> Seq(ScoreRow)]]
    /\ poll \in [Pollers -> SUBSET (Tasks \X Users)]
    /\ stops \in Nat

Unborn == [live |-> FALSE, status |-> "OPEN", fulfillment |-> "PENDING",
           review |-> "UNSUBMITTED", due |-> NoDue, created |-> 0]

Init ==
    /\ now = 0
    /\ task = [t \in Tasks |-> Unborn]
    /\ assignees = [t \in Tasks |-> {}]
    /\ lock = [t \in Tasks |-> Free]
    /\ req = [r \in Requests |-> Idle]
    /\ book = [t \in Tasks |-> [u \in Users |-> <<>>]]
    /\ poll = [p \in Pollers |-> {}]
    /\ stops = 0

Tick ==
    /\ now < MaxTime
    /\ now' = now + 1
    /\ UNCHANGED <<task, assignees, lock, req, book, poll, stops>>

--------------------------------------------------------------------------------
(* Handlers that are one step *)

CreateTask(t) ==
    /\ ~task[t].live
    /\ \E due \in DueDates, users \in AssigneeSets :
        /\ task' = [task EXCEPT ![t] = [Unborn EXCEPT !.live = TRUE, !.due = due,
                                                      !.created = now]]
        /\ assignees' = [assignees EXCEPT ![t] = users]
    /\ UNCHANGED <<now, lock, req, book, poll, stops>>

\* Mutant: the transaction does not begin by updating the task's row.
WritableUnlocked(t) == task[t].live

\* A statement that writes the task's row waits for its lock.
Writable(t) == task[t].live /\ lock[t] = Free

UpdateTaskStatus(t, status) ==
    /\ Writable(t)
    /\ task' = [task EXCEPT ![t].status = status]
    /\ UNCHANGED <<now, assignees, lock, req, book, poll, stops>>

\* The due date and the whole participant list are replaced; the ledger is not
\* touched, whatever state the task is in.
UpdateTaskDetails(t, due, users) ==
    /\ Writable(t)
    /\ task' = [task EXCEPT ![t].due = due]
    /\ assignees' = [assignees EXCEPT ![t] = users]
    /\ UNCHANGED <<now, lock, req, book, poll, stops>>

--------------------------------------------------------------------------------
(* SubmitTaskForReview: the check of the caller, then the transaction *)

SubmitCheck(r, t, u) ==
    /\ req[r] = Idle
    /\ task[t].live
    /\ u \in assignees[t]
    /\ req' = [req EXCEPT ![r] = [pc |-> "submitting", task |-> t, user |-> u]]
    /\ UNCHANGED <<now, task, assignees, lock, book, poll, stops>>

SubmitTaskForReview(r) ==
    /\ req[r].pc = "submitting"
    /\ Writable(req[r].task)
    /\ task' = [task EXCEPT ![req[r].task].fulfillment = "COMPLETED",
                            ![req[r].task].review = "PENDING"]
    /\ req' = [req EXCEPT ![r] = Idle]
    /\ UNCHANGED <<now, assignees, lock, book, poll, stops>>

--------------------------------------------------------------------------------
(* Decisions: ApproveTask and ActionTask *)

\* Mutant: a reopening leaves the scores of the assignees as they are.
TargetsNotReopened(op, t, after) ==
    IF op = "REOPEN" \/ after.due = NoDue THEN {} ELSE assignees[t]

\* RecordApprovalTx / RecordRejectionTx / RecordReopenTx on the task's row as
\* the transaction has just updated it: whose rows are superseded, and the row
\* each of those users gets.  The first two return early without a due date.
Targets(op, t, after) ==
    IF op # "REOPEN" /\ after.due = NoDue THEN {} ELSE assignees[t]

Award(op, after) ==
    IF op = "REOPEN" \/ after.due = NoDue THEN <<>>
    ELSE IF op = "REJECT" THEN <<Score("REJECTION", 0)>>
    ELSE LET p == calculatePoints(now, after.due, after.created)
         IN  <<Score(p.kind, p.points)>>

\* The first statement locks the row; the supersede statements then see the
\* ledger as committed at that point.
Decide(r, op, t, after) ==
    /\ req[r] = Idle
    /\ Writable(t)
    /\ \A u \in Users : Len(book[t][u]) < MaxRows
    /\ lock' = [lock EXCEPT ![t] = r]
    /\ req' = [req EXCEPT ![r] =
                [pc |-> "deciding", op |-> op, task |-> t, after |-> after,
                 targets |-> Targets(op, t, after), award |-> Award(op, after),
                 seen |-> [u \in Users |-> Len(book[t][u])]]]
    /\ UNCHANGED <<now, task, assignees, book, poll, stops>>

ApprovedRow(row) == [row EXCEPT !.status = "CLOSED", !.review = "APPROVED"]

\* Mutant: the fulfillment column is not reset.
SentBackCompleted(row, review, due) ==
    [row EXCEPT !.status = "OPEN", !.review = review, !.due = due]

SentBackRow(row, review, due) ==
    [row EXCEPT !.status = "OPEN", !.fulfillment = "PENDING", !.review = review,
                !.due = due]

ApproveTask(r, t) == Decide(r, "APPROVE", t, ApprovedRow(task[t]))

\* ActionTask with the action REJECT, and with any other.
RejectTask(r, t, due) == Decide(r, "REJECT", t, SentBackRow(task[t], "REJECTED", due))
ReopenTask(r, t, due) == Decide(r, "REOPEN", t, SentBackRow(task[t], "UNSUBMITTED", due))

\* Mutant: the scores are committed without the task's row.
CommitScoresOnly(r) ==
    /\ req[r].pc = "deciding"
    /\ LET q == req[r] IN
        /\ book' = [book EXCEPT ![q.task] = [u \in Users |->
                        IF u \in q.targets
                        THEN SupersedeScoreEvents(@[u], q.seen[u]) \o q.award
                        ELSE @[u]]]
        /\ lock' = [lock EXCEPT ![q.task] = Free]
    /\ req' = [req EXCEPT ![r] = Idle]
    /\ UNCHANGED <<now, task, assignees, poll, stops>>

Commit(r) ==
    /\ req[r].pc = "deciding"
    /\ LET q == req[r] IN
        /\ task' = [task EXCEPT ![q.task] = q.after]
        /\ book' = [book EXCEPT ![q.task] = [u \in Users |->
                        IF u \in q.targets
                        THEN SupersedeScoreEvents(@[u], q.seen[u]) \o q.award
                        ELSE @[u]]]
        /\ lock' = [lock EXCEPT ![q.task] = Free]
    /\ req' = [req EXCEPT ![r] = Idle]
    /\ UNCHANGED <<now, assignees, poll, stops>>

\* A failed statement, a timed-out request or a lost connection rolls the whole
\* transaction back; a request between its check and its transaction just ends.
Abort(r) ==
    /\ req[r] # Idle
    /\ lock' = IF req[r].pc = "deciding" THEN [lock EXCEPT ![req[r].task] = Free]
                                         ELSE lock
    /\ req' = [req EXCEPT ![r] = Idle]
    /\ UNCHANGED <<now, task, assignees, book, poll, stops>>

--------------------------------------------------------------------------------
(* The missed-deadline poller *)

HasMissed(t, u) == Active(book[t][u], {"MISSED_DEADLINE"}) # {}

\* Mutant: a rejected or pending task is never looked at.
OverdueUnsubmitted(t) ==
    /\ task[t].live
    /\ task[t].due # NoDue /\ task[t].due < now
    /\ task[t].status = "OPEN"
    /\ task[t].review = "UNSUBMITTED"

Overdue(t) ==
    /\ task[t].live
    /\ task[t].due # NoDue /\ task[t].due < now
    /\ task[t].status = "OPEN"
    /\ task[t].review # "APPROVED"

GetMissedDeadlineCandidates ==
    {c \in Tasks \X Users : /\ Overdue(c[1])
                            /\ c[2] \in assignees[c[1]]
                            /\ ~HasMissed(c[1], c[2])}

PollMissedDeadlines(p) ==
    /\ poll[p] = {}
    /\ GetMissedDeadlineCandidates # {}
    /\ poll' = [poll EXCEPT ![p] = GetMissedDeadlineCandidates]
    /\ UNCHANGED <<now, task, assignees, lock, req, book, stops>>

\* Mutant: no unique index.
InsertMissedAgain(p, t, u) ==
    /\ <<t, u>> \in poll[p]
    /\ poll' = [poll EXCEPT ![p] = @ \ {<<t, u>>}]
    /\ book' = [book EXCEPT ![t][u] = Append(@, Score("MISSED_DEADLINE", 0))]
    /\ UNCHANGED <<now, task, assignees, lock, req, stops>>

\* The unique index on active MISSED_DEADLINE rows refuses a second one; the
\* poller logs the error and goes on.
InsertMissed(p, t, u) ==
    /\ <<t, u>> \in poll[p]
    /\ poll' = [poll EXCEPT ![p] = @ \ {<<t, u>>}]
    /\ book' = IF HasMissed(t, u) THEN book
               ELSE [book EXCEPT ![t][u] = Append(@, Score("MISSED_DEADLINE", 0))]
    /\ UNCHANGED <<now, task, assignees, lock, req, stops>>

\* The worker stops between two inserts.
StopWorker(p) ==
    /\ poll[p] # {}
    /\ stops < MaxStops
    /\ stops' = stops + 1
    /\ poll' = [poll EXCEPT ![p] = {}]
    /\ UNCHANGED <<now, task, assignees, lock, req, book>>

--------------------------------------------------------------------------------
Request(r) ==
    \/ SubmitTaskForReview(r)
    \/ Commit(r)
    \/ Abort(r)
    \/ \E t \in Tasks :
        \/ \E u \in Users : SubmitCheck(r, t, u)
        \/ ApproveTask(r, t)
        \/ \E due \in DueDates : RejectTask(r, t, due) \/ ReopenTask(r, t, due)

Worker(p) ==
    \/ PollMissedDeadlines(p)
    \/ \E t \in Tasks, u \in Users : InsertMissed(p, t, u)

Next ==
    \/ Tick
    \/ \E t \in Tasks :
        \/ CreateTask(t)
        \/ \E status \in Statuses : UpdateTaskStatus(t, status)
        \/ \E due \in DueDates, users \in AssigneeSets : UpdateTaskDetails(t, due, users)
    \/ \E r \in Requests : Request(r)
    \/ \E p \in Pollers : Worker(p) \/ StopWorker(p)

Spec == Init /\ [][Next]_vars

\* Onion runs poll_missed_deadlines every five minutes and a run goes through its
\* whole list; a transaction commits or is rolled back.  Nothing else is promised.
Fairness ==
    /\ \A p \in Pollers : WF_vars(Worker(p))
    /\ \A r \in Requests : WF_vars(Commit(r) \/ Abort(r))

FairSpec == Spec /\ Fairness

--------------------------------------------------------------------------------
(* Safety *)

\* However approvals, rejections and reopenings of a task race with each other,
\* a user has at most one decision on it that counts: no double award.
OneVerdict ==
    \A t \in Tasks, u \in Users :
        \A i, j \in Active(book[t][u], Verdicts) : i = j

\* Why: a decision is alone on its task from its first statement to its commit,
\* and the rows its supersede statements saw are all the decisions there are.
DecisionIsolated ==
    \A r \in Requests : req[r].pc = "deciding" =>
        /\ lock[req[r].task] = r
        /\ \A u \in Users :
            \A i \in Active(book[req[r].task][u], Verdicts) : i <= req[r].seen[u]

\* Overlapping poller runs never leave two missed-deadline rows that count.
OneMissed ==
    \A t \in Tasks, u \in Users :
        \A i, j \in Active(book[t][u], {"MISSED_DEADLINE"}) : i = j

Credited(t, u) == Active(book[t][u], Completions) # {}

\* The leaderboard agrees with the task: everyone assigned to an approved task
\* has an award for it, and nobody assigned to a task that is rejected or was
\* never (re)submitted has one.  True while every payload carries a due date
\* and the assignees of a task do not change.  And so do the two columns that
\* different handlers write: what waits for review is completed, and what is
\* completed waits for review or was approved.
CreditAgreesWithReview ==
    \A t \in Tasks : \A u \in assignees[t] :
        /\ task[t].review = "APPROVED" => Credited(t, u)
        /\ task[t].review \in {"UNSUBMITTED", "REJECTED"} => ~Credited(t, u)
        /\ task[t].review = "PENDING" => task[t].fulfillment = "COMPLETED"
        /\ task[t].fulfillment = "COMPLETED" => task[t].review \in {"PENDING", "APPROVED"}

--------------------------------------------------------------------------------
(* Action properties *)

NewVerdict(t, u) ==
    \E i \in 1 .. Len(book'[t][u]) :
        i > Len(book[t][u]) /\ book'[t][u][i].kind \in Verdicts

\* Scoring is part of the transaction that decides (README, scoring): the step
\* that gives one assignee a decision row gives all of them one, leaves the task
\* in the review state the rows speak of, and does so from the row's lock.
ScoredWithTheDecision ==
    [][\A t \in Tasks : (\E u \in Users : NewVerdict(t, u)) =>
        /\ lock[t] # Free
        /\ \A u \in assignees[t] : NewVerdict(t, u)
        /\ \A u \in assignees[t] :
            task'[t].review = IF book'[t][u][Len(book'[t][u])].kind = "REJECTION"
                              THEN "REJECTED" ELSE "APPROVED"]_vars

--------------------------------------------------------------------------------
(* Liveness *)

MissOwed(t, u) ==
    /\ task[t].live /\ task[t].status = "OPEN" /\ task[t].review # "APPROVED"
    /\ task[t].due # NoDue /\ task[t].due < now
    /\ u \in assignees[t]
    /\ Active(book[t][u], {"MISSED_DEADLINE"}) = {}

\* A deadline missed on a task that stays open does get recorded, across worker
\* restarts in the middle of a run and decisions that wipe the record.
MissEventuallyRecorded ==
    \A t \in Tasks, u \in Users : MissOwed(t, u) ~> ~MissOwed(t, u)

--------------------------------------------------------------------------------
(* What the documentation says, and the code does not do *)

\* README: "the leaderboard always reflects the current state of a task, not
\* stale intermediate states": nobody is at once credited and overdue.
NotCreditedAndOverdue ==
    \A t \in Tasks, u \in Users : ~(Credited(t, u) /\ HasMissed(t, u))

--------------------------------------------------------------------------------
(* Refinement *)

NoStanding == [kind |-> "NONE", points |-> 0]
Conflict   == [kind |-> "CONFLICT", points |-> 0]

Standing(rows) ==
    LET active == Active(rows, Verdicts)
    IN  IF active = {} THEN NoStanding
        ELSE IF Cardinality(active) > 1 THEN Conflict
        ELSE LET row == rows[CHOOSE i \in active : TRUE]
             IN  [kind |-> row.kind, points |-> row.points]

Book == INSTANCE ScoreBook WITH
    Awards <- [kind : {"ON_TIME_COMPLETION"}, points : BasePoints .. BasePoints + MaxBonus]
              \cup {[kind |-> "LATE_COMPLETION", points |-> LatePoints],
                    [kind |-> "REJECTION", points |-> 0]},
    standing <- [t \in Tasks |-> [u \in Users |-> Standing(book[t][u])]],
    missed <- [t \in Tasks |-> [u \in Users |-> HasMissed(t, u)]]

\* The ledger keeps the abstract promise, with every decision and poller run
\* interleaved statement by statement.
ImplementsScoreBook == Book!Spec
================================================================================
