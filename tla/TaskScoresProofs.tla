--------------------------- MODULE TaskScoresProofs ---------------------------
(***************************************************************************)
(* Theorems about TaskScores for any tasks, users, requests, pollers and   *)
(* bounds.                                                                 *)
(***************************************************************************)
EXTENDS TaskScores, SequenceTheorems, FiniteSetTheorems, TLAPS

(***************************************************************************)
(* The award formula stays in the ledger's type.                           *)
(***************************************************************************)
\* The bonus of calculatePoints is between none and five points, whatever the instants,
\* with its window of a day at least.
LEMMA BonusType ==
    ASSUME NEW a \in Int, NEW d \in Int, NEW c \in Int
    PROVE  Bonus(a, d, c) \in 0 .. MaxBonus
<1> DEFINE R == MaxBonus * Remaining(a, d)
           W == Window(d, c)
<1>1. R \in Nat
  BY DEF Remaining, AtLeast, MaxBonus
<1>2. W \in Nat /\ W > 0
  BY DayTicksAssumption DEF Window, AtLeast
<1>3. R \div W \in Nat
  <2> HIDE DEF R, W
  <2> QED BY <1>1, <1>2
<1>4. QED
  BY <1>3 DEF Bonus, AtMost, MaxBonus

\* calculatePoints returns a kind and points that employee_scores can hold.
LEMMA AwardType ==
    ASSUME NEW a \in Int, NEW d \in Int, NEW c \in Int
    PROVE  /\ calculatePoints(a, d, c).kind \in Completions
           /\ calculatePoints(a, d, c).points \in 0 .. BasePoints + MaxBonus
BY BonusType DEF calculatePoints, Completions, LatePoints, BasePoints, MaxBonus

(***************************************************************************)
(* What the ledger's two operations do to the rows that count.             *)
(***************************************************************************)
\* Superseding touches nothing of a row but its flag.
LEMMA RowSuperseded ==
    ASSUME NEW row \in ScoreRow, NEW b \in BOOLEAN
    PROVE  /\ [row EXCEPT !.superseded = b] \in ScoreRow
           /\ [row EXCEPT !.superseded = b].kind = row.kind
           /\ [row EXCEPT !.superseded = b].superseded = b
BY DEF ScoreRow

\* SupersedeScoreEvents keeps every row and its kind, and flags the first n of them.
LEMMA SupersedeType ==
    ASSUME NEW rows \in Seq(ScoreRow), NEW n \in Nat
    PROVE  /\ SupersedeScoreEvents(rows, n) \in Seq(ScoreRow)
           /\ Len(SupersedeScoreEvents(rows, n)) = Len(rows)
           /\ \A i \in 1 .. Len(rows) :
                /\ SupersedeScoreEvents(rows, n)[i].kind = rows[i].kind
                /\ SupersedeScoreEvents(rows, n)[i].superseded
                        <=> (rows[i].superseded \/ i <= n)
<1> DEFINE New(i) == [rows[i] EXCEPT !.superseded = @ \/ i <= n]
<1>1. ASSUME NEW i \in 1 .. Len(rows)
      PROVE  /\ New(i) \in ScoreRow
             /\ New(i).kind = rows[i].kind
             /\ New(i).superseded <=> (rows[i].superseded \/ i <= n)
  <2> DEFINE b == rows[i].superseded \/ i <= n
  <2>1. rows[i] \in ScoreRow
    BY ElementOfSeq
  <2>2. b \in BOOLEAN
    OBVIOUS
  <2>3. New(i) = [rows[i] EXCEPT !.superseded = b]
    OBVIOUS
  <2> HIDE DEF b
  <2>4. /\ New(i) \in ScoreRow
        /\ New(i).kind = rows[i].kind
        /\ New(i).superseded = b
    BY <2>1, <2>2, <2>3, RowSuperseded
  <2>5. QED
    BY <2>4 DEF b
<1>2. SupersedeScoreEvents(rows, n) = [i \in 1 .. Len(rows) |-> New(i)]
  BY DEF SupersedeScoreEvents
<1> HIDE DEF New
<1>3. Len(rows) \in Nat
  BY LenProperties
<1>4. QED
  BY <1>1, <1>2, <1>3, IsASeq, LenProperties

\* After SupersedeScoreEvents only later rows count.
LEMMA SupersedeActive ==
    ASSUME NEW rows \in Seq(ScoreRow), NEW n \in Nat, NEW kinds
    PROVE  Active(SupersedeScoreEvents(rows, n), kinds)
               = {i \in Active(rows, kinds) : i > n}
<1>1. Len(rows) \in Nat
  BY LenProperties
<1>2. QED
  BY <1>1, SupersedeType DEF Active

\* An inserted row is added to those that count, and takes nothing from them.
LEMMA AppendActive ==
    ASSUME NEW rows \in Seq(ScoreRow), NEW row \in ScoreRow, NEW kinds
    PROVE  Active(Append(rows, row), kinds)
               = Active(rows, kinds) \cup
                 IF row.kind \in kinds /\ ~row.superseded THEN {Len(rows) + 1} ELSE {}
BY AppendProperties, LenProperties DEF Active

\* The same, of the row a decision inserts.
LEMMA AwardActive ==
    ASSUME NEW rows \in Seq(ScoreRow), NEW row \in ScoreRow, NEW kinds
    PROVE  /\ rows \o <<row>> \in Seq(ScoreRow)
           /\ Len(rows \o <<row>>) = Len(rows) + 1
           /\ Active(rows \o <<row>>, kinds)
               = Active(rows, kinds) \cup
                 IF row.kind \in kinds /\ ~row.superseded THEN {Len(rows) + 1} ELSE {}
<1>1. rows \o <<row>> = Append(rows, row)
  BY AppendIsConcat
<1>2. Append(rows, row) \in Seq(ScoreRow) /\ Len(Append(rows, row)) = Len(rows) + 1
  BY AppendProperties
<1>3. Active(Append(rows, row), kinds)
               = Active(rows, kinds) \cup
                 IF row.kind \in kinds /\ ~row.superseded THEN {Len(rows) + 1} ELSE {}
  BY AppendActive
<1>4. QED
  BY ONLY <1>1, <1>2, <1>3

(***************************************************************************)
(* Type correctness, with the shape of a pending award.                    *)
(***************************************************************************)
AwardOK ==
    \A r \in Requests : req[r].pc = "deciding" =>
        \/ req[r].award = <<>>
        \/ \E row \in ScoreRow : row.kind \in Verdicts /\ req[r].award = <<row>>

\* What a request holds follows from the step it is at.
LEMMA RequestCases ==
    ASSUME NEW q \in {Idle} \cup Submitting \cup Deciding
    PROVE  /\ q.pc = "deciding" => q \in Deciding
           /\ q.pc = "submitting" => q \in Submitting
           /\ q # Idle /\ q.pc # "deciding" => q \in Submitting
BY DEF Idle, Submitting, Deciding

\* The rows InsertScoreEvent is called with are rows of the table.
LEMMA ScoreType ==
    /\ Score("REJECTION", 0) \in ScoreRow
    /\ Score("MISSED_DEADLINE", 0) \in ScoreRow
    /\ \A kind \in Completions, points \in 0 .. BasePoints + MaxBonus :
            Score(kind, points) \in ScoreRow
BY DEF Score, ScoreRow, Kinds, Verdicts, Completions, BasePoints, MaxBonus

\* A decision inserts nothing, or one fresh row of a decision's kind.
LEMMA AwardCases ==
    ASSUME NEW op \in Decisions, NEW after \in TaskRow, now \in Nat
    PROVE  \/ Award(op, after) = <<>>
           \/ \E row \in ScoreRow : /\ row.kind \in Verdicts
                                    /\ ~row.superseded
                                    /\ Award(op, after) = <<row>>
<1>1. CASE op = "REOPEN" \/ after.due = NoDue
  BY <1>1 DEF Award
<1>2. CASE ~(op = "REOPEN" \/ after.due = NoDue) /\ op = "REJECT"
  BY <1>2, ScoreType DEF Award, Score, Verdicts
<1>3. CASE ~(op = "REOPEN" \/ after.due = NoDue) /\ op # "REJECT"
  <2> DEFINE p == calculatePoints(now, after.due, after.created)
  <2>1. now \in Int /\ after.due \in Int /\ after.created \in Int
    BY <1>3 DEF TaskRow
  <2>2. p.kind \in Completions /\ p.points \in 0 .. BasePoints + MaxBonus
    BY <2>1, AwardType
  <2>3. Award(op, after) = <<Score(p.kind, p.points)>>
    BY <1>3 DEF Award
  <2> HIDE DEF p
  <2>4. QED
    BY <2>2, <2>3, ScoreType DEF Score, Verdicts
<1>4. QED
  BY <1>1, <1>2, <1>3

\* The statement that locks the task keeps the types, and what the decision will insert.
LEMMA DecideType ==
    ASSUME TypeOK, NEW r \in Requests, NEW op \in Decisions, NEW t \in Tasks,
           NEW after \in TaskRow, Decide(r, op, t, after)
    PROVE  /\ req'[r] \in Deciding
           /\ TypeOK'
           /\ AwardOK => AwardOK'
<1> DEFINE seen == [u \in Users |-> Len(book[t][u])]
<1>1. seen \in [Users -> Nat]
  BY LenProperties DEF TypeOK
<1>2. Targets(op, t, after) \in SUBSET Users
  BY DEF Targets, TypeOK
<1>3. Award(op, after) \in Seq(ScoreRow)
  <2>1. \A row \in ScoreRow : <<row>> \in Seq(ScoreRow)
    OBVIOUS
  <2>2. now \in Nat
    BY DEF TypeOK
  <2>3. QED
    BY <2>1, <2>2, AwardCases, EmptySeq
<1>4. req' = [req EXCEPT ![r] =
                [pc |-> "deciding", op |-> op, task |-> t, after |-> after,
                 targets |-> Targets(op, t, after), award |-> Award(op, after),
                 seen |-> seen]]
  BY DEF Decide
<1> HIDE DEF seen
<1>5. req'[r] \in Deciding /\ req'[r].award = Award(op, after)
  BY <1>1, <1>2, <1>3, <1>4 DEF Deciding, TypeOK
<1>6. TypeOK'
  BY <1>4, <1>5 DEF TypeOK, Decide
<1>7. AwardOK => AwardOK'
  BY <1>4, <1>5, AwardCases DEF AwardOK, TypeOK
<1>8. QED
  BY <1>5, <1>6, <1>7

(***************************************************************************)
(* A commit: what each user of the task is left with.                      *)
(***************************************************************************)
Settled(q, u) ==
    IF u \in q.targets
    THEN SupersedeScoreEvents(book[q.task][u], q.seen[u]) \o q.award
    ELSE book[q.task][u]

\* What a commit makes of a ledger: of a target's rows, those count that came after the
\* supersede, and the decision's own.
LEMMA SettledRows ==
    ASSUME TypeOK, AwardOK, NEW r \in Requests, req[r].pc = "deciding",
           NEW u \in Users, NEW kinds
    PROVE  /\ Settled(req[r], u) \in Seq(ScoreRow)
           /\ u \notin req[r].targets => Settled(req[r], u) = book[req[r].task][u]
           /\ u \in req[r].targets => \A i \in Active(Settled(req[r], u), kinds) :
                \/ /\ i \in Active(book[req[r].task][u], kinds)
                   /\ i > req[r].seen[u]
                \/ /\ i = Len(book[req[r].task][u]) + 1
                   /\ kinds \cap Verdicts # {}
<1> DEFINE q == req[r]
           rows == book[q.task][u]
           old == SupersedeScoreEvents(rows, q.seen[u])
<1>1. /\ q \in Deciding
      /\ rows \in Seq(ScoreRow)
      /\ q.seen[u] \in Nat
  BY RequestCases DEF TypeOK, Deciding
<1>2. /\ old \in Seq(ScoreRow)
      /\ Len(old) = Len(rows)
      /\ Active(old, kinds) = {i \in Active(rows, kinds) : i > q.seen[u]}
  BY <1>1, SupersedeType, SupersedeActive
<1>3. CASE u \notin q.targets
  BY <1>1, <1>3 DEF Settled
<1>4. CASE u \in q.targets /\ q.award = <<>>
  <2>1. Settled(q, u) = old
    BY <1>2, <1>4, ConcatEmptySeq DEF Settled
  <2> HIDE DEF q, rows, old
  <2>2. QED
    BY <1>2, <1>4, <2>1 DEF q, rows
<1>5. CASE u \in q.targets /\ q.award # <<>>
  <2>1. PICK row \in ScoreRow : row.kind \in Verdicts /\ q.award = <<row>>
    BY <1>5 DEF AwardOK
  <2>2. Settled(q, u) = old \o <<row>>
    BY <1>5, <2>1 DEF Settled
  <2> DEFINE new == IF row.kind \in kinds /\ ~row.superseded
                    THEN {Len(rows) + 1} ELSE {}
  <2> HIDE DEF q, rows, old
  <2>3. /\ Settled(q, u) \in Seq(ScoreRow)
        /\ Active(Settled(q, u), kinds) = Active(old, kinds) \cup new
    BY <1>2, <2>2, AwardActive
  <2>4. /\ new \in SUBSET {Len(rows) + 1}
        /\ kinds \cap Verdicts = {} => new = {}
    BY <2>1
  <2>5. QED
    BY <1>2, <1>5, <2>3, <2>4 DEF q, rows
<1>6. QED
  BY <1>3, <1>4, <1>5

\* A commit writes the ledgers of its task and no others.
LEMMA CommitBook ==
    ASSUME TypeOK, AwardOK, NEW r \in Requests, Commit(r)
    PROVE  /\ req[r] \in Deciding
           /\ book' \in [Tasks -> [Users -> Seq(ScoreRow)]]
           /\ \A t \in Tasks, u \in Users :
                book'[t][u] = IF t = req[r].task THEN Settled(req[r], u) ELSE book[t][u]
<1>1. req[r].pc = "deciding" /\ req[r] \in Deciding
  BY RequestCases DEF Commit, TypeOK
<1>2. req[r].task \in Tasks
  BY <1>1 DEF Deciding
<1>3. book' = [book EXCEPT ![req[r].task] = [u \in Users |-> Settled(req[r], u)]]
  BY <1>2 DEF Commit, Settled, TypeOK
<1>4. \A u \in Users : Settled(req[r], u) \in Seq(ScoreRow)
  BY <1>1, SettledRows
<1>5. QED
  BY <1>1, <1>2, <1>3, <1>4 DEF TypeOK

\* The updates of a decision and a submission make rows of tasks.
LEMMA RowTypes ==
    ASSUME NEW row \in TaskRow
    PROVE  /\ ApprovedRow(row) \in TaskRow
           /\ \A review \in Reviews, due \in Nat \cup {NoDue} :
                SentBackRow(row, review, due) \in TaskRow
           /\ [row EXCEPT !.fulfillment = "COMPLETED", !.review = "PENDING"] \in TaskRow
BY DEF ApprovedRow, SentBackRow, TaskRow, Statuses, Fulfillments, Reviews

\* Every step but a commit keeps the types.
LEMMA OutsideCommitType ==
    ASSUME TypeOK, Next, \A r \in Requests : ~Commit(r)
    PROVE  TypeOK'
<1>1. CASE Tick
  BY <1>1 DEF TypeOK, Tick
<1>2. ASSUME NEW t \in Tasks, CreateTask(t)
      PROVE  TypeOK'
  <2>1. PICK due \in DueDates, users \in AssigneeSets :
        /\ task' = [task EXCEPT ![t] = [Unborn EXCEPT !.live = TRUE, !.due = due,
                                                      !.created = now]]
        /\ assignees' = [assignees EXCEPT ![t] = users]
    BY <1>2 DEF CreateTask
  <2>2. [Unborn EXCEPT !.live = TRUE, !.due = due, !.created = now] \in TaskRow
    BY TaskScoresAssumption DEF TypeOK, Unborn, TaskRow, Statuses, Fulfillments, Reviews
  <2>3. QED
    BY <1>2, <2>1, <2>2, TaskScoresAssumption DEF TypeOK, CreateTask
<1>3. ASSUME NEW t \in Tasks, NEW status \in Statuses, UpdateTaskStatus(t, status)
      PROVE  TypeOK'
  BY <1>3 DEF TypeOK, UpdateTaskStatus, TaskRow
<1>4. ASSUME NEW t \in Tasks, NEW due \in DueDates, NEW users \in AssigneeSets,
             UpdateTaskDetails(t, due, users)
      PROVE  TypeOK'
  <2>1. [task[t] EXCEPT !.due = due] \in TaskRow
    <3>1. task[t] \in TaskRow /\ due \in Nat \cup {NoDue}
      BY TaskScoresAssumption DEF TypeOK
    <3>2. QED
      BY <3>1 DEF TaskRow
  <2>2. task' \in [Tasks -> TaskRow]
    BY <1>4, <2>1 DEF TypeOK, UpdateTaskDetails
  <2>3. assignees' \in [Tasks -> SUBSET Users]
    BY <1>4, TaskScoresAssumption DEF TypeOK, UpdateTaskDetails
  <2>4. QED
    BY <1>4, <2>2, <2>3 DEF TypeOK, UpdateTaskDetails
<1>5. ASSUME NEW r \in Requests, Request(r)
      PROVE  TypeOK'
  <2>1. CASE SubmitTaskForReview(r)
    <3>1. req[r].task \in Tasks
      BY <2>1, RequestCases DEF SubmitTaskForReview, TypeOK, Submitting
    <3>2. task' = [task EXCEPT ![req[r].task] =
                    [@ EXCEPT !.fulfillment = "COMPLETED", !.review = "PENDING"]]
      BY <2>1, <3>1 DEF TypeOK, SubmitTaskForReview
    <3>3. task' \in [Tasks -> TaskRow]
      BY <3>1, <3>2, RowTypes DEF TypeOK
    <3>4. QED
      BY <2>1, <3>3 DEF TypeOK, SubmitTaskForReview
  <2>2. CASE Abort(r)
    <3>1. req[r].pc = "deciding" => req[r].task \in Tasks
      BY RequestCases DEF TypeOK, Deciding
    <3>2. QED
      BY <2>2, <3>1 DEF TypeOK, Abort
  <2>3. ASSUME NEW t \in Tasks, NEW u \in Users, SubmitCheck(r, t, u)
        PROVE  TypeOK'
    <3>1. [pc |-> "submitting", task |-> t, user |-> u] \in Submitting
      BY DEF Submitting
    <3>2. QED
      BY <2>3, <3>1 DEF TypeOK, SubmitCheck
  <2>4. ASSUME NEW t \in Tasks, ApproveTask(r, t)
        PROVE  TypeOK'
    <3>1. ApprovedRow(task[t]) \in TaskRow
      BY RowTypes DEF TypeOK
    <3>2. QED
      BY <2>4, <3>1, DecideType DEF ApproveTask, Decisions
  <2>5. ASSUME NEW t \in Tasks, NEW due \in DueDates, RejectTask(r, t, due)
        PROVE  TypeOK'
    <3>1. SentBackRow(task[t], "REJECTED", due) \in TaskRow
      BY RowTypes, TaskScoresAssumption DEF TypeOK, Reviews
    <3>2. QED
      BY <2>5, <3>1, DecideType DEF RejectTask, Decisions
  <2>6. ASSUME NEW t \in Tasks, NEW due \in DueDates, ReopenTask(r, t, due)
        PROVE  TypeOK'
    <3>1. SentBackRow(task[t], "UNSUBMITTED", due) \in TaskRow
      BY RowTypes, TaskScoresAssumption DEF TypeOK, Reviews
    <3>2. QED
      BY <2>6, <3>1, DecideType DEF ReopenTask, Decisions
  <2>7. QED
    BY <1>5, <2>1, <2>2, <2>3, <2>4, <2>5, <2>6 DEF Request
<1>6. ASSUME NEW p \in Pollers, Worker(p) \/ StopWorker(p)
      PROVE  TypeOK'
  <2>1. CASE PollMissedDeadlines(p)
    BY <2>1 DEF TypeOK, PollMissedDeadlines, GetMissedDeadlineCandidates
  <2>2. ASSUME NEW t \in Tasks, NEW u \in Users, InsertMissed(p, t, u)
        PROVE  TypeOK'
    <3>1. Append(book[t][u], Score("MISSED_DEADLINE", 0)) \in Seq(ScoreRow)
      BY ScoreType, AppendProperties DEF TypeOK
    <3>2. QED
      BY <2>2, <3>1 DEF TypeOK, InsertMissed
  <2>3. CASE StopWorker(p)
    BY <2>3 DEF TypeOK, StopWorker
  <2>4. QED
    BY <1>6, <2>1, <2>2, <2>3 DEF Worker
<1>7. QED
  BY <1>1, <1>2, <1>3, <1>4, <1>5, <1>6 DEF Next

\* A commit keeps the types.
LEMMA CommitType ==
    ASSUME TypeOK, AwardOK, NEW r \in Requests, Commit(r)
    PROVE  TypeOK'
<1>1. req[r].task \in Tasks /\ req[r].after \in TaskRow
  BY CommitBook DEF Deciding
<1>2. QED
  BY <1>1, CommitBook DEF TypeOK, Commit

\* So every step does.
LEMMA TypeStep ==
    ASSUME TypeOK, AwardOK, [Next]_vars
    PROVE  TypeOK'
<1>1. CASE Next /\ \A r \in Requests : ~Commit(r)
  BY <1>1, OutsideCommitType
<1>2. CASE \E r \in Requests : Commit(r)
  BY <1>2, CommitType
<1>3. CASE UNCHANGED vars
  BY <1>3 DEF vars, TypeOK
<1>4. QED
  BY <1>1, <1>2, <1>3

(***************************************************************************)
(* The steps, sorted by what they do to the state of decisions: req, lock  *)
(* and book.                                                               *)
(***************************************************************************)
Elsewhere == UNCHANGED <<req, lock, book>>

\* A request enters or leaves its check, or drops its transaction.
Undecided(r) ==
    /\ req' \in [Requests -> {Idle} \cup Submitting \cup Deciding]
    /\ req'[r].pc # "deciding"
    /\ \A s \in Requests \ {r} : req'[s] = req[s]
    /\ \A t \in Tasks : lock'[t] # lock[t] =>
            req[r].pc = "deciding" /\ t = req[r].task /\ lock'[t] = Free
    /\ UNCHANGED book

\* A step is one that leaves ledgers and locks alone, ends a request that has decided
\* nothing, commits, decides, or inserts a miss.
LEMMA StepCases ==
    ASSUME TypeOK, AwardOK, [Next]_vars
    PROVE  \/ Elsewhere
           \/ \E r \in Requests : Undecided(r)
           \/ \E r \in Requests : Commit(r)
           \/ \E r \in Requests, op \in Decisions, t \in Tasks, after \in TaskRow :
                Decide(r, op, t, after)
           \/ \E p \in Pollers, t \in Tasks, u \in Users : InsertMissed(p, t, u)
<1>1. CASE Tick \/ UNCHANGED vars
  BY <1>1 DEF Tick, vars, Elsewhere
<1>2. ASSUME NEW t \in Tasks,
             \/ CreateTask(t)
             \/ \E status \in Statuses : UpdateTaskStatus(t, status)
             \/ \E due \in DueDates, users \in AssigneeSets : UpdateTaskDetails(t, due, users)
      PROVE  Elsewhere
  BY <1>2 DEF CreateTask, UpdateTaskStatus, UpdateTaskDetails, Elsewhere
<1>3. ASSUME NEW r \in Requests, Request(r)
      PROVE  \/ Undecided(r)
             \/ Commit(r)
             \/ \E op \in Decisions, t \in Tasks, after \in TaskRow : Decide(r, op, t, after)
  <2>1. CASE SubmitTaskForReview(r)
    BY <2>1 DEF SubmitTaskForReview, Undecided, TypeOK, Idle
  <2>2. CASE Abort(r)
    <3>1. req[r].pc = "deciding" => req[r].task \in Tasks
      BY RequestCases DEF TypeOK, Deciding
    <3>2. QED
      BY <2>2, <3>1 DEF Abort, Undecided, TypeOK, Idle
  <2>3. ASSUME NEW t \in Tasks, NEW u \in Users, SubmitCheck(r, t, u)
        PROVE  Undecided(r)
    <3>1. [pc |-> "submitting", task |-> t, user |-> u] \in Submitting
      BY DEF Submitting
    <3>2. QED
      BY <2>3, <3>1 DEF SubmitCheck, Undecided, TypeOK
  <2>4. ASSUME NEW t \in Tasks, ApproveTask(r, t)
        PROVE  \E after \in TaskRow : Decide(r, "APPROVE", t, after)
    BY <2>4, RowTypes DEF ApproveTask, TypeOK
  <2>5. ASSUME NEW t \in Tasks, NEW due \in DueDates, RejectTask(r, t, due)
        PROVE  \E after \in TaskRow : Decide(r, "REJECT", t, after)
    BY <2>5, RowTypes, TaskScoresAssumption DEF RejectTask, TypeOK, Reviews
  <2>6. ASSUME NEW t \in Tasks, NEW due \in DueDates, ReopenTask(r, t, due)
        PROVE  \E after \in TaskRow : Decide(r, "REOPEN", t, after)
    BY <2>6, RowTypes, TaskScoresAssumption DEF ReopenTask, TypeOK, Reviews
  <2>7. QED
    BY <1>3, <2>1, <2>2, <2>3, <2>4, <2>5, <2>6 DEF Request, Decisions
<1>4. ASSUME NEW p \in Pollers, Worker(p) \/ StopWorker(p)
      PROVE  Elsewhere \/ \E t \in Tasks, u \in Users : InsertMissed(p, t, u)
  BY <1>4 DEF Worker, StopWorker, PollMissedDeadlines, Elsewhere
<1>5. QED
  BY <1>1, <1>2, <1>3, <1>4 DEF Next

(***************************************************************************)
(* The inductive invariant.  OneVerdict alone is not inductive: that a     *)
(* commit leaves one decision row rests on what the decision saw when it   *)
(* took the lock, which DecisionIsolated carries to the commit.            *)
(***************************************************************************)
IInv == TypeOK /\ AwardOK /\ DecisionIsolated /\ OneVerdict /\ OneMissed

\* An empty database satisfies the invariant.
LEMMA InitIInv == Init => IInv
<1> SUFFICES ASSUME Init PROVE IInv
  OBVIOUS
<1>1. \A kinds : \A t \in Tasks, u \in Users : Active(book[t][u], kinds) = {}
  BY DEF Init, Active
<1>2. TypeOK
  BY EmptySeq DEF Init, TypeOK, Unborn, TaskRow, Statuses, Fulfillments, Reviews
<1>3. \A r \in Requests : req[r].pc # "deciding"
  BY DEF Init, Idle
<1>4. QED
  BY <1>1, <1>2, <1>3 DEF IInv, AwardOK, DecisionIsolated, OneVerdict, OneMissed

\* A decision that takes the lock finds nobody else deciding on the task.
LEMMA DecideStep ==
    ASSUME IInv, NEW r \in Requests, NEW op \in Decisions, NEW t \in Tasks,
           NEW after \in TaskRow, Decide(r, op, t, after)
    PROVE  IInv'
<1>1. /\ TypeOK' /\ AwardOK'
      /\ req'[r] \in Deciding
  BY DecideType DEF IInv
<1>2. /\ req'[r].task = t
      /\ \A u \in Users : req'[r].seen[u] = Len(book[t][u])
      /\ \A s \in Requests \ {r} : req'[s] = req[s]
      /\ lock[t] = Free /\ lock' = [lock EXCEPT ![t] = r]
      /\ book' = book
  BY DEF Decide, Writable, IInv, TypeOK
<1>3. DecisionIsolated'
  <2> SUFFICES ASSUME NEW s \in Requests, (req[s].pc = "deciding")'
               PROVE  (/\ lock[req[s].task] = s
                       /\ \A u \in Users :
                            \A i \in Active(book[req[s].task][u], Verdicts) :
                                i <= req[s].seen[u])'
    BY DEF DecisionIsolated
  <2>1. CASE s = r
    <3>1. \A u \in Users : \A i \in Active(book[t][u], Verdicts) : i <= Len(book[t][u])
      BY DEF Active
    <3>2. lock'[t] = r
      BY <1>2 DEF IInv, TypeOK
    <3>3. QED
      BY <1>2, <2>1, <3>1, <3>2
  <2>2. CASE s # r
    <3>1. req[s] \in Deciding /\ req[s].pc = "deciding" /\ req'[s] = req[s]
      BY <1>2, <2>2, RequestCases DEF IInv, TypeOK
    <3>2. req[s].task # t
      BY <1>2, <3>1, TaskScoresAssumption DEF IInv, DecisionIsolated
    <3>3. lock'[req[s].task] = lock[req[s].task]
      BY <1>2, <3>1, <3>2 DEF IInv, TypeOK, Deciding
    <3>4. QED
      BY <1>2, <3>1, <3>3 DEF IInv, DecisionIsolated
  <2>3. QED
    BY <2>1, <2>2
<1>4. OneVerdict' /\ OneMissed'
  <2>1. book' = book
    BY <1>2
  <2>2. OneVerdict /\ OneMissed
    BY DEF IInv
  <2>3. QED
    BY <2>1, <2>2 DEF OneVerdict, OneMissed
<1>5. QED
  BY <1>1, <1>3, <1>4 DEF IInv

\* A commit replaces every decision that counts by its own; the lock has kept others out.
LEMMA CommitStep ==
    ASSUME IInv, NEW r \in Requests, Commit(r)
    PROVE  IInv'
<1> DEFINE q == req[r]
<1>1. /\ TypeOK /\ AwardOK /\ q.pc = "deciding" /\ q \in Deciding /\ q.task \in Tasks
      /\ lock[q.task] = r
      /\ \A s \in Requests \ {r} : req'[s] = req[s]
      /\ req'[r].pc # "deciding"
      /\ lock' = [lock EXCEPT ![q.task] = Free]
      /\ \A t \in Tasks, u \in Users :
            book'[t][u] = IF t = q.task THEN Settled(q, u) ELSE book[t][u]
  BY CommitBook DEF IInv, Commit, Deciding, DecisionIsolated, TypeOK, Idle
<1> DEFINE Kept(u, kinds) ==
              \A k \in Active(Settled(q, u), kinds) :
                \/ k \in Active(book[q.task][u], kinds) /\ k > q.seen[u]
                \/ k = Len(book[q.task][u]) + 1 /\ kinds \cap Verdicts # {}
<1>0. ASSUME NEW u \in Users, u \in q.targets, NEW kinds
      PROVE  Kept(u, kinds)
  <2>1. TypeOK /\ AwardOK /\ req[r].pc = "deciding"
    BY <1>1
  <2>2. QED
    BY <1>0, <2>1, SettledRows, Zenon
<1> HIDE DEF Kept
<1>2. TypeOK'
  BY CommitType DEF IInv
<1>3. AwardOK'
  BY <1>1 DEF AwardOK
<1>4. DecisionIsolated'
  <2> SUFFICES ASSUME NEW s \in Requests, (req[s].pc = "deciding")'
               PROVE  (/\ lock[req[s].task] = s
                       /\ \A u \in Users :
                            \A i \in Active(book[req[s].task][u], Verdicts) :
                                i <= req[s].seen[u])'
    BY DEF DecisionIsolated
  <2>1. s # r /\ req'[s] = req[s] /\ req[s].pc = "deciding" /\ req[s] \in Deciding
    BY <1>1, RequestCases DEF TypeOK
  <2>2. req[s].task \in Tasks /\ lock[req[s].task] = s
    BY <2>1 DEF IInv, DecisionIsolated, Deciding
  <2>3. req[s].task # q.task
    BY <1>1, <2>1, <2>2
  <2>4. lock'[req[s].task] = s
    BY <1>1, <2>2, <2>3 DEF TypeOK
  <2>5. \A u \in Users : book'[req[s].task][u] = book[req[s].task][u]
    BY <1>1, <2>2, <2>3
  <2> HIDE DEF q
  <2>6. QED
    BY <2>1, <2>4, <2>5 DEF IInv, DecisionIsolated
<1>5. OneVerdict'
  <2> SUFFICES ASSUME NEW t \in Tasks, NEW u \in Users,
                      NEW i \in Active(book'[t][u], Verdicts),
                      NEW j \in Active(book'[t][u], Verdicts)
               PROVE  i = j
    BY DEF OneVerdict
  <2>1. CASE t = q.task /\ u \in q.targets
    <3>1. \A k \in Active(Settled(q, u), Verdicts) :
            \/ k \in Active(book[q.task][u], Verdicts) /\ k > q.seen[u]
            \/ k = Len(book[q.task][u]) + 1
      BY <2>1, <1>0 DEF Kept
    <3>2. \A k \in Active(book[q.task][u], Verdicts) : k <= q.seen[u]
      BY <1>1 DEF IInv, DecisionIsolated
    <3>3. \A k \in Active(book[q.task][u], Verdicts) : k \in Int
      BY DEF Active
    <3>4. q.seen[u] \in Int
      BY <1>1 DEF Deciding
    <3>5. \A k \in Active(book'[t][u], Verdicts) : k = Len(book[q.task][u]) + 1
      BY <1>1, <2>1, <3>1, <3>2, <3>3, <3>4
    <3>6. QED
      BY <3>5
  <2>2. CASE ~(t = q.task /\ u \in q.targets)
    <3>1. book'[t][u] = book[t][u]
      BY <1>1, <2>2, SettledRows
    <3>2. QED
      BY <3>1 DEF IInv, OneVerdict
  <2>3. QED
    BY <2>1, <2>2
<1>6. OneMissed'
  <2> SUFFICES ASSUME NEW t \in Tasks, NEW u \in Users
               PROVE  Active(book'[t][u], {"MISSED_DEADLINE"})
                        \subseteq Active(book[t][u], {"MISSED_DEADLINE"})
    BY DEF IInv, OneMissed
  <2>1. {"MISSED_DEADLINE"} \cap Verdicts = {}
    BY DEF Verdicts, Completions
  <2>2. CASE t = q.task /\ u \in q.targets
    BY <1>0, <1>1, <2>1, <2>2 DEF Kept
  <2>3. CASE ~(t = q.task /\ u \in q.targets)
    BY <1>1, <2>3, SettledRows
  <2>4. QED
    BY <2>2, <2>3
<1>7. QED
  BY <1>2, <1>3, <1>4, <1>5, <1>6 DEF IInv

\* A request that ends, or submits, without a decision leaves the ledgers as they are.
LEMMA UndecidedStep ==
    ASSUME IInv, TypeOK', NEW r \in Requests, Undecided(r)
    PROVE  IInv'
<1>1. AwardOK'
  BY DEF IInv, AwardOK, Undecided
<1>2. DecisionIsolated'
  <2> SUFFICES ASSUME NEW s \in Requests, (req[s].pc = "deciding")'
               PROVE  (/\ lock[req[s].task] = s
                       /\ \A u \in Users :
                            \A i \in Active(book[req[s].task][u], Verdicts) :
                                i <= req[s].seen[u])'
    BY DEF DecisionIsolated
  <2>1. s # r /\ req'[s] = req[s] /\ req[s].pc = "deciding" /\ req[s] \in Deciding
    BY RequestCases DEF IInv, TypeOK, Undecided
  <2>2. req[s].task \in Tasks /\ lock[req[s].task] = s
    BY <2>1 DEF IInv, DecisionIsolated, Deciding
  <2>3. lock'[req[s].task] = s
    BY <2>1, <2>2 DEF IInv, DecisionIsolated, Undecided
  <2>4. QED
    BY <2>1, <2>3 DEF IInv, DecisionIsolated, Undecided
<1>3. OneVerdict' /\ OneMissed'
  BY DEF IInv, OneVerdict, OneMissed, Undecided
<1>4. QED
  BY <1>1, <1>2, <1>3 DEF IInv

\* A poller's insert adds a miss where none counts: the unique index.
LEMMA InsertStep ==
    ASSUME IInv, TypeOK', NEW p \in Pollers, NEW t \in Tasks, NEW u \in Users,
           InsertMissed(p, t, u)
    PROVE  IInv'
<1>1. UNCHANGED <<req, lock>>
  BY DEF InsertMissed
<1> DEFINE row == Score("MISSED_DEADLINE", 0)
           rows == Append(book[t][u], row)
<1>2. /\ row \in ScoreRow /\ row.kind = "MISSED_DEADLINE" /\ row.kind \notin Verdicts
      /\ book[t][u] \in Seq(ScoreRow) /\ Len(book[t][u]) \in Nat
  BY ScoreType, LenProperties DEF Score, Verdicts, Completions, IInv, TypeOK
<1> HIDE DEF row
<1>3. \A v \in Tasks, w \in Users :
        Active(book'[v][w], Verdicts) = Active(book[v][w], Verdicts)
  <2> SUFFICES ASSUME NEW v \in Tasks, NEW w \in Users, book'[v][w] # book[v][w]
               PROVE  Active(book'[v][w], Verdicts) = Active(book[v][w], Verdicts)
    OBVIOUS
  <2>1. v = t /\ w = u /\ book'[v][w] = rows
    BY DEF InsertMissed, IInv, TypeOK, row
  <2>2. QED
    BY <1>2, <2>1, AppendActive
<1>4. OneMissed'
  <2> SUFFICES ASSUME NEW v \in Tasks, NEW w \in Users, book'[v][w] # book[v][w]
               PROVE  \A i, j \in Active(book'[v][w], {"MISSED_DEADLINE"}) : i = j
    BY DEF IInv, OneMissed
  <2>1. v = t /\ w = u /\ book'[v][w] = rows /\ ~HasMissed(t, u)
    BY DEF InsertMissed, IInv, TypeOK, row
  <2>2. Active(book[v][w], {"MISSED_DEADLINE"}) = {}
    BY <2>1 DEF HasMissed
  <2>3. Active(book'[v][w], {"MISSED_DEADLINE"}) \subseteq {Len(book[t][u]) + 1}
    BY <1>2, <2>1, <2>2, AppendActive
  <2>4. QED
    BY <2>3
<1>5. AwardOK'
  BY <1>1 DEF IInv, AwardOK
<1>6. DecisionIsolated'
  <2>1. \A r \in Requests : req[r].pc = "deciding" => req[r].task \in Tasks
    BY RequestCases DEF IInv, TypeOK, Deciding
  <2>2. QED
    BY <1>1, <1>3, <2>1 DEF IInv, DecisionIsolated
<1>7. OneVerdict'
  BY <1>3 DEF IInv, OneVerdict
<1>8. QED
  BY <1>4, <1>5, <1>6, <1>7 DEF IInv

\* Every step keeps the invariant.
LEMMA StepIInv == IInv /\ [Next]_vars => IInv'
<1> SUFFICES ASSUME IInv, [Next]_vars PROVE IInv'
  OBVIOUS
<1>1. TypeOK'
  BY TypeStep DEF IInv
<1>2. CASE Elsewhere
  BY <1>1, <1>2 DEF IInv, Elsewhere, AwardOK, DecisionIsolated, OneVerdict, OneMissed
<1>3. QED
  BY <1>1, <1>2, StepCases, UndecidedStep, CommitStep, DecideStep, InsertStep DEF IInv

\* The inductive invariant holds of every reachable state: the reason why the row
\* lock that a decision's first UPDATE takes is enough to keep the ledger single.
THEOREM Invariance == Spec => []IInv
BY InitIInv, StepIInv, PTL DEF Spec

\* Every reachable state is well typed: in particular every award calculatePoints
\* computes, for any instants, is one the ledger can hold.
THEOREM TypeCorrect == Spec => []TypeOK
<1>1. IInv => TypeOK
  BY DEF IInv
<1>2. QED
  BY <1>1, Invariance, PTL

\* A decision has its task to itself from the UPDATE that locks the row to its
\* commit, and its supersede statements miss no decision that counts.
THEOREM DecisionsIsolated == Spec => []DecisionIsolated
<1>1. IInv => DecisionIsolated
  BY DEF IInv
<1>2. QED
  BY <1>1, Invariance, PTL

\* However many requests decide on the same task at once, and whatever the pollers
\* insert between their statements, a user never holds two decisions on a task.
THEOREM NoDoubleAward == Spec => []OneVerdict
<1>1. IInv => OneVerdict
  BY DEF IInv
<1>2. QED
  BY <1>1, Invariance, PTL

\* Any number of overlapping poller runs leave one missed-deadline row that counts.
THEOREM NoDoubleMiss == Spec => []OneMissed
<1>1. IInv => OneMissed
  BY DEF IInv
<1>2. QED
  BY <1>1, Invariance, PTL

(***************************************************************************)
(* What a decision is about to write, and for whom.                        *)
(***************************************************************************)
Earned == [kind : {"ON_TIME_COMPLETION"}, points : BasePoints .. BasePoints + MaxBonus]
          \cup {[kind |-> "LATE_COMPLETION", points |-> LatePoints],
                [kind |-> "REJECTION", points |-> 0]}

\* A fresh row the book can hold, and the review state it goes with.
Fresh(row, review) ==
    /\ row \in ScoreRow /\ row.kind \in Verdicts /\ ~row.superseded
    /\ [kind |-> row.kind, points |-> row.points] \in Earned
    /\ review = IF row.kind = "REJECTION" THEN "REJECTED" ELSE "APPROVED"

Fitting(r) ==
    /\ task[req[r].task].live
    /\ req[r].award # <<>> =>
        /\ req[r].targets = assignees[req[r].task]
        /\ \E row \in ScoreRow : req[r].award = <<row>> /\ Fresh(row, req[r].after.review)

Fits == \A r \in Requests : req[r].pc = "deciding" => Fitting(r)

\* The award of a decision is one the book has a name for.
LEMMA AwardFresh ==
    ASSUME NEW op \in Decisions, NEW after \in TaskRow, now \in Nat,
           Award(op, after) # <<>>,
           op = "APPROVE" => after.review = "APPROVED",
           op = "REJECT" => after.review = "REJECTED"
    PROVE  \E row \in ScoreRow : Award(op, after) = <<row>> /\ Fresh(row, after.review)
<1>1. op # "REOPEN" /\ after.due # NoDue
  BY DEF Award
<1>2. CASE op = "REJECT"
  <2> DEFINE row == Score("REJECTION", 0)
  <2>1. Award(op, after) = <<row>>
    BY <1>1, <1>2 DEF Award
  <2>2. row \in ScoreRow /\ row.kind = "REJECTION" /\ row.points = 0 /\ ~row.superseded
    BY ScoreType DEF Score
  <2> HIDE DEF row
  <2>3. Fresh(row, after.review)
    BY <1>2, <2>2 DEF Fresh, Verdicts, Earned
  <2>4. QED
    BY <2>1, <2>2, <2>3
<1>3. CASE op = "APPROVE"
  <2> DEFINE p == calculatePoints(now, after.due, after.created)
             row == Score(p.kind, p.points)
  <2>1. now \in Int /\ after.due \in Int /\ after.created \in Int
    BY <1>1 DEF TaskRow
  <2>2. p.kind \in Completions /\ p.points \in 0 .. BasePoints + MaxBonus
    BY <2>1, AwardType
  <2>3. [kind |-> p.kind, points |-> p.points] \in Earned
    <3> DEFINE b == Bonus(now, after.due, after.created)
    <3>1. b \in 0 .. MaxBonus
      BY <2>1, BonusType
    <3>2. p = IF now > after.due THEN [kind |-> "LATE_COMPLETION", points |-> LatePoints]
              ELSE [kind |-> "ON_TIME_COMPLETION", points |-> BasePoints + b]
      BY DEF calculatePoints
    <3> HIDE DEF p, b
    <3>3. BasePoints + b \in BasePoints .. BasePoints + MaxBonus
      BY <3>1 DEF BasePoints, MaxBonus
    <3>4. QED
      BY <3>2, <3>3 DEF Earned
  <2>4. Award(op, after) = <<row>>
    BY <1>1, <1>3 DEF Award
  <2> HIDE DEF p
  <2>5. /\ row \in ScoreRow /\ row.kind = p.kind /\ row.points = p.points /\ ~row.superseded
    BY <2>2, ScoreType DEF Score
  <2> HIDE DEF row
  <2>6. Fresh(row, after.review)
    BY <1>3, <2>2, <2>3, <2>5 DEF Fresh, Verdicts, Completions
  <2>7. QED
    BY <2>4, <2>5, <2>6
<1>4. QED
  BY <1>1, <1>2, <1>3 DEF Decisions

\* A decision starts with what it will write for whom.
LEMMA DecideFits ==
    ASSUME IInv, NEW r \in Requests, NEW op \in Decisions, NEW t \in Tasks,
           NEW after \in TaskRow, Decide(r, op, t, after),
           op = "APPROVE" => after.review = "APPROVED",
           op = "REJECT" => after.review = "REJECTED"
    PROVE  Fitting(r)'
<1>1. /\ req'[r].task = t /\ req'[r].award = Award(op, after) /\ req'[r].after = after
      /\ req'[r].targets = Targets(op, t, after)
      /\ task' = task /\ assignees' = assignees /\ task[t].live /\ now \in Nat
  BY DEF Decide, Writable, IInv, TypeOK
<1>2. Award(op, after) # <<>> => Targets(op, t, after) = assignees[t]
  BY DEF Award, Targets
<1>3. QED
  BY <1>1, <1>2, AwardFresh DEF Fitting

\* A task that is locked keeps its assignees, and stays alive but for its own decision.
LEMMA LockedKept ==
    ASSUME IInv, Fits, [Next]_vars, NEW t \in Tasks, lock[t] # Free, task[t].live,
           \A r \in Requests : Commit(r) => req[r].task # t
    PROVE  task'[t].live /\ assignees'[t] = assignees[t]
<1>1. TypeOK
  BY DEF IInv
<1>2. CASE Tick \/ UNCHANGED vars
  BY <1>2 DEF Tick, vars
<1>3. ASSUME NEW u \in Tasks,
             \/ CreateTask(u)
             \/ \E status \in Statuses : UpdateTaskStatus(u, status)
             \/ \E due \in DueDates, users \in AssigneeSets : UpdateTaskDetails(u, due, users)
      PROVE  task'[t].live /\ assignees'[t] = assignees[t]
  <2>1. u # t
    BY <1>3 DEF CreateTask, UpdateTaskStatus, UpdateTaskDetails, Writable
  <2>2. QED
    BY <1>1, <1>3, <2>1 DEF CreateTask, UpdateTaskStatus, UpdateTaskDetails, TypeOK
<1>4. ASSUME NEW r \in Requests, Request(r)
      PROVE  task'[t].live /\ assignees'[t] = assignees[t]
  <2>1. CASE SubmitTaskForReview(r)
    <3>1. req[r].task # t
      BY <2>1 DEF SubmitTaskForReview, Writable
    <3>2. req[r].task \in Tasks
      BY <1>1, <2>1, RequestCases DEF SubmitTaskForReview, TypeOK, Submitting
    <3>3. QED
      BY <1>1, <2>1, <3>1, <3>2 DEF SubmitTaskForReview, TypeOK
  <2>2. CASE Commit(r)
    <3>1. req[r].task # t /\ req[r].task \in Tasks
      BY <1>1, <2>2, CommitBook DEF IInv, Deciding
    <3>2. QED
      BY <1>1, <2>2, <3>1 DEF Commit, TypeOK
  <2>3. CASE Abort(r)
    BY <2>3 DEF Abort
  <2>4. CASE \E u \in Tasks :
                \/ \E v \in Users : SubmitCheck(r, u, v)
                \/ ApproveTask(r, u)
                \/ \E due \in DueDates : RejectTask(r, u, due) \/ ReopenTask(r, u, due)
    BY <2>4 DEF SubmitCheck, ApproveTask, RejectTask, ReopenTask, Decide
  <2>5. QED
    BY <1>4, <2>1, <2>2, <2>3, <2>4 DEF Request
<1>5. ASSUME NEW p \in Pollers, Worker(p) \/ StopWorker(p)
      PROVE  task'[t].live /\ assignees'[t] = assignees[t]
  BY <1>5 DEF Worker, StopWorker, PollMissedDeadlines, InsertMissed
<1>6. QED
  BY <1>2, <1>3, <1>4, <1>5 DEF Next

\* A decision that goes on is the one it was, or has just begun.
LEMMA DecidingCases ==
    ASSUME IInv, [Next]_vars, NEW s \in Requests, req'[s].pc = "deciding"
    PROVE  \/ req'[s] = req[s]
           \/ \E t \in Tasks, op \in Decisions, after \in TaskRow :
                /\ Decide(s, op, t, after)
                /\ op = "APPROVE" => after.review = "APPROVED"
                /\ op = "REJECT" => after.review = "REJECTED"
<1>1. TypeOK
  BY DEF IInv
<1>2. CASE ~ \E r \in Requests : Request(r)
  BY <1>2 DEF Next, vars, Tick, CreateTask, UpdateTaskStatus, UpdateTaskDetails, Worker,
              StopWorker, PollMissedDeadlines, InsertMissed
<1>3. ASSUME NEW r \in Requests, Request(r), req'[s] # req[s]
      PROVE  \E t \in Tasks, op \in Decisions, after \in TaskRow :
                /\ Decide(s, op, t, after)
                /\ op = "APPROVE" => after.review = "APPROVED"
                /\ op = "REJECT" => after.review = "REJECTED"
  <2>1. CASE SubmitTaskForReview(r) \/ Commit(r) \/ Abort(r)
    BY <1>1, <1>3, <2>1 DEF SubmitTaskForReview, Commit, Abort, Idle, TypeOK
  <2>2. ASSUME NEW t \in Tasks, NEW u \in Users, SubmitCheck(r, t, u) PROVE FALSE
    BY <1>1, <1>3, <2>2 DEF SubmitCheck, TypeOK
  <2>3. ASSUME NEW t \in Tasks, NEW op \in Decisions, NEW after \in TaskRow,
               Decide(r, op, t, after)
        PROVE  r = s
    BY <1>1, <1>3, <2>3 DEF Decide, TypeOK
  <2>4. ASSUME NEW t \in Tasks, ApproveTask(r, t)
        PROVE  \E op \in Decisions, after \in TaskRow :
                /\ Decide(s, op, t, after)
                /\ op = "APPROVE" => after.review = "APPROVED"
                /\ op = "REJECT" => after.review = "REJECTED"
    <3>1. /\ ApprovedRow(task[t]) \in TaskRow /\ "APPROVE" \in Decisions
          /\ ApprovedRow(task[t]).review = "APPROVED"
      BY <1>1, RowTypes DEF TypeOK, ApprovedRow, TaskRow, Decisions
    <3>2. Decide(r, "APPROVE", t, ApprovedRow(task[t]))
      BY <2>4 DEF ApproveTask
    <3>3. QED
      BY <2>3, <3>1, <3>2
  <2>5. ASSUME NEW t \in Tasks, NEW due \in DueDates, RejectTask(r, t, due)
        PROVE  \E op \in Decisions, after \in TaskRow :
                /\ Decide(s, op, t, after)
                /\ op = "APPROVE" => after.review = "APPROVED"
                /\ op = "REJECT" => after.review = "REJECTED"
    <3> DEFINE after == SentBackRow(task[t], "REJECTED", due)
    <3>1. task[t] \in TaskRow /\ due \in Nat \cup {NoDue}
      BY <1>1, TaskScoresAssumption DEF TypeOK
    <3>2. /\ after \in TaskRow /\ "REJECT" \in Decisions /\ after.review = "REJECTED"
      BY <3>1, RowTypes DEF SentBackRow, TaskRow, Decisions, Reviews
    <3>3. Decide(r, "REJECT", t, after)
      BY <2>5 DEF RejectTask
    <3> HIDE DEF after
    <3>4. QED
      BY <2>3, <3>2, <3>3
  <2>6. ASSUME NEW t \in Tasks, NEW due \in DueDates, ReopenTask(r, t, due)
        PROVE  \E op \in Decisions, after \in TaskRow :
                /\ Decide(s, op, t, after)
                /\ op = "APPROVE" => after.review = "APPROVED"
                /\ op = "REJECT" => after.review = "REJECTED"
    <3> DEFINE after == SentBackRow(task[t], "UNSUBMITTED", due)
    <3>1. task[t] \in TaskRow /\ due \in Nat \cup {NoDue}
      BY <1>1, TaskScoresAssumption DEF TypeOK
    <3>2. after \in TaskRow /\ "REOPEN" \in Decisions
      BY <3>1, RowTypes DEF Decisions, Reviews
    <3>3. Decide(r, "REOPEN", t, after)
      BY <2>6 DEF ReopenTask
    <3> HIDE DEF after
    <3>4. QED
      BY <2>3, <3>2, <3>3
  <2>7. QED
    BY <1>3, <2>1, <2>2, <2>4, <2>5, <2>6 DEF Request
<1>4. QED
  BY <1>2, <1>3

\* What a decision is about to write fits its task until it commits.
LEMMA FitsStep ==
    ASSUME IInv, Fits, [Next]_vars
    PROVE  Fits'
<1>1. ASSUME NEW s \in Requests, req'[s].pc = "deciding"
      PROVE  Fitting(s)'
  <2>1. CASE req'[s] = req[s]
    <3> DEFINE t == req[s].task
    <3>1. t \in Tasks /\ lock[t] = s /\ lock[t] # Free /\ Fitting(s)
      BY <1>1, <2>1, RequestCases, TaskScoresAssumption DEF IInv, TypeOK, Deciding, DecisionIsolated, Fits
    <3>2. \A r \in Requests : Commit(r) => req[r].task # t
      <4>1. ASSUME NEW r \in Requests, Commit(r), req[r].task = t PROVE FALSE
        <5>1. lock[t] = r
          BY <4>1 DEF Commit, IInv, DecisionIsolated
        <5>2. req'[r].pc # "deciding"
          BY <4>1 DEF Commit, IInv, TypeOK, Idle
        <5>3. QED
          BY <1>1, <3>1, <5>1, <5>2
      <4>2. QED
        BY <4>1
    <3>3. task[t].live
      BY <3>1 DEF Fitting
    <3>4. task'[t].live /\ assignees'[t] = assignees[t]
      BY <3>1, <3>2, <3>3, LockedKept
    <3>5. QED
      BY <2>1, <3>1, <3>4 DEF Fitting
  <2>2. CASE \E t \in Tasks, op \in Decisions, after \in TaskRow :
                /\ Decide(s, op, t, after)
                /\ op = "APPROVE" => after.review = "APPROVED"
                /\ op = "REJECT" => after.review = "REJECTED"
    BY <2>2, DecideFits
  <2>3. QED
    BY <1>1, <2>1, <2>2, DecidingCases
<1>2. QED
  BY <1>1 DEF Fits

(***************************************************************************)
(* Commits and inserts, seen from a ledger.                                *)
(***************************************************************************)

\* Of a target's rows, the only decision that counts after a commit is the one it
\* brings, if it brings one; the others' rows are as they were.
LEMMA Decided ==
    ASSUME IInv, Fits, NEW r \in Requests, Commit(r), NEW u \in Users
    PROVE  /\ u \notin req[r].targets => book'[req[r].task][u] = book[req[r].task][u]
           /\ u \in req[r].targets /\ req[r].award = <<>> =>
                /\ Active(book'[req[r].task][u], Verdicts) = {}
                /\ Len(book'[req[r].task][u]) = Len(book[req[r].task][u])
           /\ \A row \in ScoreRow :
                u \in req[r].targets /\ req[r].award = <<row>> /\ row.kind \in Verdicts
                    /\ ~row.superseded =>
                /\ Active(book'[req[r].task][u], Verdicts) = {Len(book[req[r].task][u]) + 1}
                /\ Len(book'[req[r].task][u]) = Len(book[req[r].task][u]) + 1
                /\ book'[req[r].task][u][Len(book[req[r].task][u]) + 1] = row
<1> DEFINE q == req[r]
           rows == book[q.task][u]
           old == SupersedeScoreEvents(rows, q.seen[u])
<1>1. /\ q \in Deciding /\ q.task \in Tasks /\ rows \in Seq(ScoreRow) /\ q.seen[u] \in Nat
      /\ book'[q.task][u] = Settled(q, u) /\ Len(rows) \in Nat
  BY CommitBook, LenProperties DEF IInv, TypeOK, Deciding
<1>2. \A i \in Active(rows, Verdicts) : i <= q.seen[u] /\ i \in Int
  BY DEF IInv, DecisionIsolated, Commit, Active
<1>3. /\ old \in Seq(ScoreRow) /\ Len(old) = Len(rows)
      /\ Active(old, Verdicts) = {i \in Active(rows, Verdicts) : i > q.seen[u]}
  BY <1>1, SupersedeType, SupersedeActive
<1>4. Active(old, Verdicts) = {}
  BY <1>1, <1>2, <1>3
<1>5. u \notin q.targets => Settled(q, u) = rows
  BY DEF Settled
<1>6. u \in q.targets => Settled(q, u) = old \o q.award
  BY DEF Settled
<1> HIDE DEF q, rows, old
<1>7. q.award = <<>> => old \o q.award = old
  BY <1>3, ConcatEmptySeq
<1>8. ASSUME NEW row \in ScoreRow, u \in q.targets, q.award = <<row>>,
             row.kind \in Verdicts, ~row.superseded
      PROVE  /\ Active(Settled(q, u), Verdicts) = {Len(rows) + 1}
             /\ Len(Settled(q, u)) = Len(rows) + 1
             /\ Settled(q, u)[Len(rows) + 1] = row
  <2>1. Settled(q, u) = old \o <<row>>
    BY <1>6, <1>8
  <2>2. /\ Len(old \o <<row>>) = Len(old) + 1
        /\ Active(old \o <<row>>, Verdicts) = Active(old, Verdicts) \cup {Len(old) + 1}
    BY <1>3, <1>8, AwardActive
  <2>3. old \o <<row>> = Append(old, row) /\ Append(old, row)[Len(old) + 1] = row
    BY <1>3, AppendIsConcat, AppendProperties
  <2>4. QED
    BY <1>3, <1>4, <2>1, <2>2, <2>3
<1>9. QED
  BY <1>1, <1>3, <1>4, <1>5, <1>6, <1>7, <1>8 DEF q, rows

\* A poller's insert leaves the decisions that count, and their rows, where they are.
LEMMA MissedAdded ==
    ASSUME IInv, NEW p \in Pollers, NEW t \in Tasks, NEW u \in Users, InsertMissed(p, t, u),
           ~HasMissed(t, u)
    PROVE  /\ Active(book'[t][u], Verdicts) = Active(book[t][u], Verdicts)
           /\ \A i \in 1 .. Len(book[t][u]) : book'[t][u][i] = book[t][u][i]
           /\ Len(book'[t][u]) = Len(book[t][u]) + 1
           /\ book'[t][u][Len(book[t][u]) + 1].kind = "MISSED_DEADLINE"
           /\ HasMissed(t, u)'
           /\ \A v \in Tasks, w \in Users : v # t \/ w # u => book'[v][w] = book[v][w]
<1> DEFINE row == Score("MISSED_DEADLINE", 0)
<1>1. /\ row \in ScoreRow /\ row.kind = "MISSED_DEADLINE" /\ row.kind \notin Verdicts
      /\ ~row.superseded /\ book[t][u] \in Seq(ScoreRow) /\ Len(book[t][u]) \in Nat
  BY ScoreType, LenProperties DEF Score, Verdicts, Completions, IInv, TypeOK
<1>2. book' = [book EXCEPT ![t][u] = Append(book[t][u], row)]
  BY DEF InsertMissed, IInv, TypeOK
<1> HIDE DEF row
<1>3. /\ book'[t][u] = Append(book[t][u], row)
      /\ \A v \in Tasks, w \in Users : v # t \/ w # u => book'[v][w] = book[v][w]
  BY <1>2 DEF IInv, TypeOK
<1>4. /\ Active(book'[t][u], Verdicts) = Active(book[t][u], Verdicts)
      /\ Active(book'[t][u], {"MISSED_DEADLINE"}) # {}
  <2>1. /\ Active(book'[t][u], Verdicts) = Active(book[t][u], Verdicts) \cup
             IF row.kind \in Verdicts /\ ~row.superseded THEN {Len(book[t][u]) + 1} ELSE {}
        /\ Active(book'[t][u], {"MISSED_DEADLINE"}) =
             Active(book[t][u], {"MISSED_DEADLINE"}) \cup
             IF row.kind \in {"MISSED_DEADLINE"} /\ ~row.superseded
             THEN {Len(book[t][u]) + 1} ELSE {}
    BY <1>1, <1>3, AppendActive
  <2>2. QED
    BY <1>1, <2>1
<1>5. /\ \A i \in 1 .. Len(book[t][u]) : book'[t][u][i] = book[t][u][i]
      /\ Len(book'[t][u]) = Len(book[t][u]) + 1
      /\ book'[t][u][Len(book[t][u]) + 1] = row
  BY <1>1, <1>3, AppendProperties
<1>6. QED
  BY <1>1, <1>3, <1>4, <1>5 DEF HasMissed

\* A step that neither commits nor inserts leaves every ledger as it is.
LEMMA BookKept ==
    ASSUME IInv, [Next]_vars, \A r \in Requests : ~Commit(r),
           \A p \in Pollers, t \in Tasks, u \in Users : InsertMissed(p, t, u) => HasMissed(t, u)
    PROVE  book' = book
<1>1. CASE \E p \in Pollers, t \in Tasks, u \in Users : InsertMissed(p, t, u)
  BY <1>1 DEF InsertMissed
<1>2. CASE ~ \E p \in Pollers, t \in Tasks, u \in Users : InsertMissed(p, t, u)
  BY <1>2, StepCases DEF IInv, Elsewhere, Undecided, Decide
<1>3. QED
  BY <1>1, <1>2

\* The step that scores one assignee scores them all, with the decision and under its lock.
LEMMA ScoredStep ==
    ASSUME IInv, Fits, [Next]_vars, NEW t \in Tasks, NEW w \in Users, NewVerdict(t, w)
    PROVE  /\ lock[t] # Free
           /\ \A u \in assignees[t] : NewVerdict(t, u)
           /\ \A u \in assignees[t] :
                task'[t].review = IF book'[t][u][Len(book'[t][u])].kind = "REJECTION"
                                  THEN "REJECTED" ELSE "APPROVED"
<1>1. book[t][w] \in Seq(ScoreRow) /\ Len(book[t][w]) \in Nat
  BY LenProperties DEF IInv, TypeOK
<1>2. PICK k \in 1 .. Len(book'[t][w]) : k > Len(book[t][w]) /\ book'[t][w][k].kind \in Verdicts
  BY DEF NewVerdict
<1>3. book'[t][w] # book[t][w]
  BY <1>1, <1>2
<1>4. ASSUME NEW p \in Pollers, NEW v \in Tasks, NEW u \in Users, InsertMissed(p, v, u),
             ~HasMissed(v, u)
      PROVE  FALSE
  <2>1. v = t /\ u = w
    BY <1>3, <1>4, MissedAdded
  <2>2. k = Len(book[t][w]) + 1 /\ book'[t][w][k].kind = "MISSED_DEADLINE"
    BY <1>1, <1>2, <1>4, <2>1, MissedAdded
  <2>3. QED
    BY <1>2, <2>2 DEF Verdicts, Completions
<1>5. PICK r \in Requests : Commit(r)
  BY <1>3, <1>4, BookKept
<1>6. /\ req[r].task \in Tasks /\ lock[req[r].task] = r /\ Fitting(r)
      /\ \A v \in Tasks, u \in Users :
            book'[v][u] = IF v = req[r].task THEN Settled(req[r], u) ELSE book[v][u]
  BY <1>5, CommitBook DEF IInv, Deciding, DecisionIsolated, Fits, Commit
<1>7. req[r].task = t /\ w \in req[r].targets
  BY <1>3, <1>5, <1>6, Decided
<1>8. req[r].award # <<>>
  <2>1. req[r].award = <<>> => Len(book'[t][w]) = Len(book[t][w])
    BY <1>5, <1>7, Decided
  <2>2. QED
    BY <1>1, <1>2, <2>1
<1>9. PICK row \in ScoreRow : req[r].award = <<row>> /\ Fresh(row, req[r].after.review)
  BY <1>6, <1>8 DEF Fitting
<1>10. req[r].targets = assignees[t] /\ assignees[t] \subseteq Users
  BY <1>6, <1>7, <1>8 DEF Fitting, IInv, TypeOK
<1>11. task'[t].review = req[r].after.review
  BY <1>5, <1>7 DEF Commit, IInv, TypeOK
<1>12. ASSUME NEW u \in assignees[t]
       PROVE  /\ NewVerdict(t, u)
              /\ book'[t][u][Len(book'[t][u])] = row
  <2>1. u \in Users /\ u \in req[r].targets /\ row.kind \in Verdicts /\ ~row.superseded
    BY <1>9, <1>10 DEF Fresh
  <2>2. /\ Len(book'[t][u]) = Len(book[t][u]) + 1
        /\ book'[t][u][Len(book[t][u]) + 1] = row
    <3>1. req[r].award = <<row>> /\ req[r].task = t
      BY <1>7, <1>9
    <3>2. /\ Len(book'[req[r].task][u]) = Len(book[req[r].task][u]) + 1
          /\ book'[req[r].task][u][Len(book[req[r].task][u]) + 1] = row
      BY <1>5, <2>1, <3>1, Decided
    <3>3. QED
      BY <3>1, <3>2
  <2>3. Len(book[t][u]) \in Nat
    BY <2>1, LenProperties DEF IInv, TypeOK
  <2>4. Len(book'[t][u]) \in 1 .. Len(book'[t][u]) /\ Len(book'[t][u]) > Len(book[t][u])
    BY <2>2, <2>3
  <2>5. QED
    BY <2>1, <2>2, <2>4 DEF NewVerdict
<1>13. lock[t] # Free
  BY <1>6, <1>7, TaskScoresAssumption
<1>14. QED
  BY <1>9, <1>11, <1>12, <1>13 DEF Fresh

\* What a decision writes fits its task in every reachable state.
THEOREM DecisionsFit == Spec => [](IInv /\ Fits)
<1>1. Init => Fits
  BY DEF Init, Fits, Idle
<1>2. IInv /\ Fits /\ [Next]_vars => Fits'
  BY FitsStep
<1>3. QED
  BY <1>1, <1>2, InitIInv, StepIInv, PTL DEF Spec

\* README, scoring: the decision and the scores of everyone assigned are one step,
\* whatever edits, other decisions and pollers do between a decision's statements.
THEOREM ScoredTogether == Spec => ScoredWithTheDecision
<1> DEFINE Together == \A t \in Tasks : (\E u \in Users : NewVerdict(t, u)) =>
        /\ lock[t] # Free
        /\ \A u \in assignees[t] : NewVerdict(t, u)
        /\ \A u \in assignees[t] :
            task'[t].review = IF book'[t][u][Len(book'[t][u])].kind = "REJECTION"
                              THEN "REJECTED" ELSE "APPROVED"
<1>1. IInv /\ Fits /\ [Next]_vars => Together
  BY ScoredStep
<1>2. QED
  BY <1>1, DecisionsFit, PTL DEF Spec, ScoredWithTheDecision

(***************************************************************************)
(* The leaderboard agrees with the task, of the behaviours in which every  *)
(* task keeps a due date and its assignees.  What makes it inductive is    *)
(* what a decision on its way will write (Meant), and that nobody has an   *)
(* award for a task that was not created yet (Blank).                      *)
(***************************************************************************)
\* No payload leaves the due date out, and none changes the assignees of a task.
Steady ==
    \A t \in Tasks :
        /\ task[t].live => assignees'[t] = assignees[t]
        /\ task'[t].live => task'[t].due # NoDue

SentBack(row, review) == row.fulfillment = "PENDING" /\ row.review = review

\* What a decision means for the task, and for the ledgers of its assignees.
Meaning(q) ==
    /\ q.after.live
    /\ q.op = "APPROVE" => q.after.review = "APPROVED"
    /\ q.op = "REJECT" => SentBack(q.after, "REJECTED")
    /\ q.op = "REOPEN" => SentBack(q.after, "UNSUBMITTED")
    /\ q.after.due # NoDue =>
        /\ q.targets = assignees[q.task]
        /\ q.op = "REOPEN" => q.award = <<>>
        /\ q.op = "REJECT" =>
            \E row \in ScoreRow : q.award = <<row>> /\ row.kind = "REJECTION" /\ ~row.superseded
        /\ q.op = "APPROVE" =>
            \E row \in ScoreRow : q.award = <<row>> /\ row.kind \in Completions /\ ~row.superseded

Meant == \A r \in Requests : req[r].pc = "deciding" => Meaning(req[r])

Blank == \A t \in Tasks : ~task[t].live => \A u \in Users : ~Credited(t, u)

CInv == CreditAgreesWithReview /\ Meant /\ Blank

\* The decisions with a due date insert one row: of an award, or of a rejection.
LEMMA AwardKinds ==
    ASSUME NEW after \in TaskRow, now \in Nat, after.due # NoDue
    PROVE  /\ Award("REOPEN", after) = <<>>
           /\ \E row \in ScoreRow : /\ Award("REJECT", after) = <<row>>
                                    /\ row.kind = "REJECTION" /\ ~row.superseded
           /\ \E row \in ScoreRow : /\ Award("APPROVE", after) = <<row>>
                                    /\ row.kind \in Completions /\ ~row.superseded
<1>1. Award("REOPEN", after) = <<>>
  BY DEF Award
<1>2. \E row \in ScoreRow : /\ Award("REJECT", after) = <<row>>
                            /\ row.kind = "REJECTION" /\ ~row.superseded
  BY ScoreType DEF Award, Score
<1>3. \E row \in ScoreRow : /\ Award("APPROVE", after) = <<row>>
                            /\ row.kind \in Completions /\ ~row.superseded
  <2> DEFINE p == calculatePoints(now, after.due, after.created)
             row == Score(p.kind, p.points)
  <2>1. now \in Int /\ after.due \in Int /\ after.created \in Int
    BY DEF TaskRow
  <2>2. p.kind \in Completions /\ p.points \in 0 .. BasePoints + MaxBonus
    BY <2>1, AwardType
  <2>3. Award("APPROVE", after) = <<row>>
    BY DEF Award
  <2> HIDE DEF p
  <2>4. row \in ScoreRow /\ row.kind = p.kind /\ ~row.superseded
    BY <2>2, ScoreType DEF Score
  <2> HIDE DEF row
  <2>5. QED
    BY <2>2, <2>3, <2>4
<1>4. QED
  BY <1>1, <1>2, <1>3

\* A decision that begins means what its handler says.
LEMMA DecideMeans ==
    ASSUME IInv, NEW r \in Requests, NEW op \in Decisions, NEW t \in Tasks,
           NEW after \in TaskRow, Decide(r, op, t, after), after.live,
           op = "APPROVE" => after.review = "APPROVED",
           op = "REJECT" => SentBack(after, "REJECTED"),
           op = "REOPEN" => SentBack(after, "UNSUBMITTED")
    PROVE  Meaning(req[r])'
<1>1. /\ req'[r].task = t /\ req'[r].award = Award(op, after) /\ req'[r].after = after
      /\ req'[r].targets = Targets(op, t, after) /\ req'[r].op = op
      /\ assignees' = assignees /\ now \in Nat
  BY DEF Decide, IInv, TypeOK
<1>2. after.due # NoDue => Targets(op, t, after) = assignees[t]
  BY DEF Targets
<1>3. after.due # NoDue =>
        /\ Award("REOPEN", after) = <<>>
        /\ \E row \in ScoreRow : /\ Award("REJECT", after) = <<row>>
                                 /\ row.kind = "REJECTION" /\ ~row.superseded
        /\ \E row \in ScoreRow : /\ Award("APPROVE", after) = <<row>>
                                 /\ row.kind \in Completions /\ ~row.superseded
  BY <1>1, AwardKinds
<1>4. QED
  BY <1>1, <1>2, <1>3 DEF Meaning, SentBack

\* A decision in progress is the one it was, or begins with its handler's row.
LEMMA MeaningCases ==
    ASSUME IInv, [Next]_vars, NEW s \in Requests, req'[s].pc = "deciding"
    PROVE  \/ req'[s] = req[s]
           \/ Meaning(req[s])'
<1>1. TypeOK
  BY DEF IInv
<1>2. CASE ~ \E r \in Requests : Request(r)
  BY <1>2 DEF Next, vars, Tick, CreateTask, UpdateTaskStatus, UpdateTaskDetails, Worker,
              StopWorker, PollMissedDeadlines, InsertMissed
<1>3. ASSUME NEW r \in Requests, Request(r), req'[s] # req[s]
      PROVE  Meaning(req[s])'
  <2>1. CASE SubmitTaskForReview(r) \/ Commit(r) \/ Abort(r)
    BY <1>1, <1>3, <2>1 DEF SubmitTaskForReview, Commit, Abort, Idle, TypeOK
  <2>2. ASSUME NEW t \in Tasks, NEW u \in Users, SubmitCheck(r, t, u) PROVE FALSE
    BY <1>1, <1>3, <2>2 DEF SubmitCheck, TypeOK
  <2>3. ASSUME NEW t \in Tasks, NEW op \in Decisions, NEW after \in TaskRow,
               Decide(r, op, t, after)
        PROVE  r = s /\ task[t].live
    BY <1>1, <1>3, <2>3 DEF Decide, Writable, TypeOK
  <2>4. ASSUME NEW t \in Tasks, ApproveTask(r, t)
        PROVE  Meaning(req[s])'
    <3> DEFINE after == ApprovedRow(task[t])
    <3>1. /\ after \in TaskRow /\ after.review = "APPROVED" /\ after.live = task[t].live
      BY <1>1, RowTypes DEF TypeOK, ApprovedRow, TaskRow
    <3>2. Decide(r, "APPROVE", t, after) /\ "APPROVE" \in Decisions
      BY <2>4 DEF ApproveTask, Decisions
    <3> HIDE DEF after
    <3>3. r = s /\ task[t].live
      BY <2>3, <3>1, <3>2
    <3>4. QED
      BY <3>1, <3>2, <3>3, DecideMeans
  <2>5. ASSUME NEW t \in Tasks, NEW due \in DueDates, RejectTask(r, t, due)
        PROVE  Meaning(req[s])'
    <3> DEFINE after == SentBackRow(task[t], "REJECTED", due)
    <3>1. task[t] \in TaskRow /\ due \in Nat \cup {NoDue}
      BY <1>1, TaskScoresAssumption DEF TypeOK
    <3>2. after \in TaskRow /\ SentBack(after, "REJECTED") /\ after.live = task[t].live
      BY <3>1, RowTypes DEF SentBackRow, SentBack, TaskRow, Reviews
    <3>3. Decide(r, "REJECT", t, after) /\ "REJECT" \in Decisions
      BY <2>5 DEF RejectTask, Decisions
    <3> HIDE DEF after
    <3>4. r = s /\ task[t].live
      BY <2>3, <3>2, <3>3
    <3>5. QED
      BY <3>2, <3>3, <3>4, DecideMeans
  <2>6. ASSUME NEW t \in Tasks, NEW due \in DueDates, ReopenTask(r, t, due)
        PROVE  Meaning(req[s])'
    <3> DEFINE after == SentBackRow(task[t], "UNSUBMITTED", due)
    <3>1. task[t] \in TaskRow /\ due \in Nat \cup {NoDue}
      BY <1>1, TaskScoresAssumption DEF TypeOK
    <3>2. after \in TaskRow /\ SentBack(after, "UNSUBMITTED") /\ after.live = task[t].live
      BY <3>1, RowTypes DEF SentBackRow, SentBack, TaskRow, Reviews
    <3>3. Decide(r, "REOPEN", t, after) /\ "REOPEN" \in Decisions
      BY <2>6 DEF ReopenTask, Decisions
    <3> HIDE DEF after
    <3>4. r = s /\ task[t].live
      BY <2>3, <3>2, <3>3
    <3>5. QED
      BY <3>2, <3>3, <3>4, DecideMeans
  <2>7. QED
    BY <1>3, <2>1, <2>2, <2>4, <2>5, <2>6 DEF Request
<1>4. QED
  BY <1>2, <1>3

\* What a decision means stays true until it commits.
LEMMA MeantStep ==
    ASSUME IInv, Fits, Meant, [Next]_vars
    PROVE  Meant'
<1>1. ASSUME NEW s \in Requests, req'[s].pc = "deciding", req'[s] = req[s]
      PROVE  Meaning(req[s])'
  <2> DEFINE t == req[s].task
  <2>1. /\ t \in Tasks /\ lock[t] = s /\ lock[t] # Free /\ task[t].live /\ Meaning(req[s])
    BY <1>1, RequestCases, TaskScoresAssumption
       DEF IInv, TypeOK, Deciding, DecisionIsolated, Fits, Fitting, Meant
  <2>2. ASSUME NEW r \in Requests, Commit(r), req[r].task = t PROVE FALSE
    <3>1. lock[t] = r
      BY <2>2 DEF Commit, IInv, DecisionIsolated
    <3>2. req'[r].pc # "deciding"
      BY <2>2 DEF Commit, IInv, TypeOK, Idle
    <3>3. QED
      BY <1>1, <2>1, <3>1, <3>2
  <2>3. assignees'[t] = assignees[t]
    BY <2>1, <2>2, LockedKept
  <2>4. QED
    BY <1>1, <2>1, <2>3 DEF Meaning
<1>2. QED
  BY <1>1, MeaningCases DEF Meant

\* The awards that count are decisions that count.
LEMMA AwardsAmongVerdicts ==
    ASSUME NEW rows, NEW i
    PROVE  i \in Active(rows, Completions)
                <=> i \in Active(rows, Verdicts) /\ rows[i].kind \in Completions
BY DEF Active, Verdicts

\* Outside a commit, a step leaves the awards that count as they are.
LEMMA CreditKept ==
    ASSUME IInv, [Next]_vars, \A r \in Requests : ~Commit(r)
    PROVE  \A t \in Tasks, u \in Users : Credited(t, u)' <=> Credited(t, u)
<1>1. CASE \E p \in Pollers, t \in Tasks, u \in Users : InsertMissed(p, t, u) /\ ~HasMissed(t, u)
  <2>1. PICK p \in Pollers, t \in Tasks, u \in Users : InsertMissed(p, t, u) /\ ~HasMissed(t, u)
    BY <1>1
  <2>2. /\ Active(book'[t][u], Verdicts) = Active(book[t][u], Verdicts)
        /\ \A i \in 1 .. Len(book[t][u]) : book'[t][u][i] = book[t][u][i]
        /\ \A v \in Tasks, w \in Users : v # t \/ w # u => book'[v][w] = book[v][w]
    BY <2>1, MissedAdded
  <2>3. \A i \in Active(book[t][u], Verdicts) : book'[t][u][i] = book[t][u][i]
    BY <2>2 DEF Active
  <2>4. \A i : i \in Active(book'[t][u], Completions) <=> i \in Active(book[t][u], Completions)
    BY <2>2, <2>3, AwardsAmongVerdicts
  <2>5. QED
    BY <2>2, <2>4 DEF Credited
<1>2. CASE \A p \in Pollers, t \in Tasks, u \in Users : InsertMissed(p, t, u) => HasMissed(t, u)
  <2>1. book' = book
    BY <1>2, BookKept
  <2>2. QED
    BY <2>1 DEF Credited
<1>3. QED
  BY <1>1, <1>2

SameReview(t) ==
    /\ task'[t].live = task[t].live
    /\ task'[t].review = task[t].review /\ task'[t].fulfillment = task[t].fulfillment

\* Outside a commit, a task keeps its review columns, is submitted, or is created.
LEMMA ReviewCases ==
    ASSUME IInv, [Next]_vars, \A r \in Requests : ~Commit(r), NEW t \in Tasks
    PROVE  \/ SameReview(t) /\ (task[t].live \/ assignees'[t] = assignees[t])
           \/ /\ task[t].live /\ task'[t].live
              /\ task'[t].review = "PENDING" /\ task'[t].fulfillment = "COMPLETED"
           \/ /\ ~task[t].live /\ task'[t].live
              /\ task'[t].review = "UNSUBMITTED" /\ task'[t].fulfillment = "PENDING"
<1>1. TypeOK /\ task[t] \in TaskRow
  BY DEF IInv, TypeOK
<1>2. CASE UNCHANGED <<task, assignees>>
  BY <1>2 DEF SameReview
<1>3. ASSUME NEW v \in Tasks, CreateTask(v)
      PROVE  \/ UNCHANGED <<task[t], assignees[t]>>
             \/ /\ ~task[t].live /\ task'[t].live
                /\ task'[t].review = "UNSUBMITTED" /\ task'[t].fulfillment = "PENDING"
  BY <1>1, <1>3 DEF CreateTask, TypeOK, Unborn
<1>4. ASSUME NEW v \in Tasks,
             \/ \E status \in Statuses : UpdateTaskStatus(v, status)
             \/ \E due \in DueDates, users \in AssigneeSets : UpdateTaskDetails(v, due, users)
      PROVE  SameReview(t) /\ (task[t].live \/ assignees'[t] = assignees[t])
  <2>1. CASE v = t
    BY <1>1, <1>4, <2>1
       DEF UpdateTaskStatus, UpdateTaskDetails, Writable, TypeOK, TaskRow, SameReview
  <2>2. CASE v # t
    BY <1>1, <1>4, <2>2 DEF UpdateTaskStatus, UpdateTaskDetails, TypeOK, SameReview
  <2>3. QED
    BY <2>1, <2>2
<1>5. ASSUME NEW r \in Requests, Request(r)
      PROVE  \/ UNCHANGED <<task[t], assignees[t]>>
             \/ /\ task[t].live /\ task'[t].live
                /\ task'[t].review = "PENDING" /\ task'[t].fulfillment = "COMPLETED"
  <2>1. CASE SubmitTaskForReview(r)
    <3>1. req[r].task \in Tasks
      BY <1>1, <2>1, RequestCases DEF SubmitTaskForReview, TypeOK, Submitting
    <3>2. /\ task' = [task EXCEPT ![req[r].task].fulfillment = "COMPLETED",
                                 ![req[r].task].review = "PENDING"]
          /\ task[req[r].task].live /\ assignees' = assignees
      BY <2>1 DEF SubmitTaskForReview, Writable
    <3>3. task \in [Tasks -> TaskRow]
      BY <1>1 DEF TypeOK
    <3>4. QED
      BY <3>1, <3>2, <3>3 DEF TaskRow
  <2>2. CASE Abort(r)
    BY <2>2 DEF Abort
  <2>3. CASE \E u \in Tasks :
                \/ \E v \in Users : SubmitCheck(r, u, v)
                \/ ApproveTask(r, u)
                \/ \E due \in DueDates : RejectTask(r, u, due) \/ ReopenTask(r, u, due)
    BY <2>3 DEF SubmitCheck, ApproveTask, RejectTask, ReopenTask, Decide
  <2>4. QED
    BY <1>5, <2>1, <2>2, <2>3 DEF Request
<1>6. ASSUME NEW p \in Pollers, Worker(p) \/ StopWorker(p)
      PROVE  UNCHANGED <<task, assignees>>
  BY <1>6 DEF Worker, StopWorker, PollMissedDeadlines, InsertMissed
<1>7. CASE Tick \/ UNCHANGED vars
  BY <1>7 DEF Tick, vars, SameReview
<1>8. QED
  BY <1>2, <1>3, <1>4, <1>5, <1>6, <1>7 DEF Next, SameReview

\* Outside a commit, a ledger that agrees with its task goes on agreeing with it.
LEMMA AgreesOutsideCommit ==
    ASSUME IInv, CInv, [Next]_vars, Steady, \A r \in Requests : ~Commit(r)
    PROVE  CreditAgreesWithReview' /\ Blank'
<1>1. \A t \in Tasks, u \in Users : Credited(t, u)' <=> Credited(t, u)
  BY CreditKept
<1>2. \A t \in Tasks : assignees[t] \subseteq Users /\ assignees'[t] \subseteq Users
  BY TypeStep DEF IInv, TypeOK
<1>3. CreditAgreesWithReview'
  <2> SUFFICES ASSUME NEW t \in Tasks, NEW u \in assignees'[t]
               PROVE  /\ task'[t].review = "APPROVED" => Credited(t, u)'
                      /\ task'[t].review \in {"UNSUBMITTED", "REJECTED"} => ~Credited(t, u)'
                      /\ task'[t].review = "PENDING" => task'[t].fulfillment = "COMPLETED"
                      /\ task'[t].fulfillment = "COMPLETED"
                            => task'[t].review \in {"PENDING", "APPROVED"}
    BY DEF CreditAgreesWithReview, Credited
  <2>1. CASE SameReview(t) /\ (task[t].live \/ assignees'[t] = assignees[t])
    <3>1. u \in assignees[t] /\ u \in Users
      BY <1>2, <2>1 DEF Steady
    <3>2. QED
      BY <1>1, <2>1, <3>1 DEF CInv, CreditAgreesWithReview, SameReview
  <2>2. CASE task'[t].review = "PENDING" /\ task'[t].fulfillment = "COMPLETED"
    BY <2>2
  <2>3. CASE /\ ~task[t].live
             /\ task'[t].review = "UNSUBMITTED" /\ task'[t].fulfillment = "PENDING"
    BY <1>1, <1>2, <2>3 DEF CInv, Blank
  <2>4. QED
    BY <2>1, <2>2, <2>3, ReviewCases
<1>4. Blank'
  <2>1. ASSUME NEW t \in Tasks, ~task'[t].live PROVE ~task[t].live
    BY <2>1, ReviewCases DEF SameReview
  <2>2. QED
    BY <1>1, <2>1 DEF CInv, Blank, Credited
<1>5. QED
  BY <1>3, <1>4

\* What a commit leaves its targets with: an approval an award, the others none.
LEMMA CommitCredits ==
    ASSUME IInv, Fits, CInv, NEW r \in Requests, Commit(r), req[r].after.due # NoDue
    PROVE  /\ req[r].targets = assignees[req[r].task]
           /\ \A u \in assignees[req[r].task] :
                Active(book'[req[r].task][u], Completions) # {} <=> req[r].op = "APPROVE"
<1> DEFINE q == req[r]
           t == q.task
<1>1. /\ q \in Deciding /\ t \in Tasks /\ q.op \in Decisions /\ Meaning(q)
      /\ assignees[t] \subseteq Users
  BY CommitBook DEF IInv, TypeOK, Deciding, Commit, CInv, Meant
<1>2. q.targets = assignees[t]
  BY <1>1 DEF Meaning
<1>3. ASSUME NEW u \in assignees[t]
      PROVE  Active(book'[t][u], Completions) # {} <=> q.op = "APPROVE"
  <2>1. u \in Users /\ u \in q.targets
    BY <1>1, <1>2, <1>3
  <2>2. \A i : i \in Active(book'[t][u], Completions)
                <=> i \in Active(book'[t][u], Verdicts) /\ book'[t][u][i].kind \in Completions
    BY AwardsAmongVerdicts
  <2>3. CASE q.op = "REOPEN"
    <3>1. Active(book'[t][u], Verdicts) = {}
      BY <1>1, <2>1, <2>3, Decided DEF Meaning
    <3>2. QED
      BY <2>2, <2>3, <3>1
  <2>4. CASE q.op # "REOPEN"
    <3>1. PICK row \in ScoreRow :
            /\ q.award = <<row>> /\ ~row.superseded
            /\ row.kind \in Verdicts
            /\ row.kind \in Completions <=> q.op = "APPROVE"
      BY <1>1, <2>4 DEF Meaning, Verdicts, Completions, Decisions
    <3>2. /\ Active(book'[t][u], Verdicts) = {Len(book[t][u]) + 1}
          /\ book'[t][u][Len(book[t][u]) + 1] = row
      BY <2>1, <3>1, Decided
    <3>3. QED
      BY <2>2, <3>1, <3>2
  <2>5. QED
    BY <2>3, <2>4
<1>4. QED
  BY <1>2, <1>3

\* A commit brings the task and its ledgers to the same verdict at once.
LEMMA AgreesAtCommit ==
    ASSUME IInv, Fits, CInv, NEW r \in Requests, Commit(r), Steady
    PROVE  CreditAgreesWithReview' /\ Blank'
<1> DEFINE q == req[r]
           t == q.task
<1>1. /\ q \in Deciding /\ t \in Tasks /\ q.op \in Decisions /\ Meaning(q) /\ task[t].live
      /\ \A v \in Tasks : assignees[v] \subseteq Users
      /\ \A v \in Tasks, u \in Users : v # t => book'[v][u] = book[v][u]
  BY CommitBook DEF IInv, TypeOK, Deciding, Commit, CInv, Meant, Fits, Fitting
<1>2. /\ assignees' = assignees /\ task'[t] = q.after
      /\ \A v \in Tasks : v # t => task'[v] = task[v]
  BY <1>1 DEF Commit, IInv, TypeOK
<1>3. q.after.due # NoDue
  BY <1>1, <1>2 DEF Steady, Meaning
<1>4. \A u \in assignees[t] : Active(book'[t][u], Completions) # {} <=> q.op = "APPROVE"
  BY <1>3, CommitCredits
<1>5. \A v \in Tasks, u \in Users : v # t => (Credited(v, u)' <=> Credited(v, u))
  BY <1>1 DEF Credited
<1> HIDE DEF q, t
<1>6. CreditAgreesWithReview'
  <2> SUFFICES ASSUME NEW v \in Tasks, NEW u \in assignees[v]
               PROVE  /\ task'[v].review = "APPROVED" => Credited(v, u)'
                      /\ task'[v].review \in {"UNSUBMITTED", "REJECTED"} => ~Credited(v, u)'
                      /\ task'[v].review = "PENDING" => task'[v].fulfillment = "COMPLETED"
                      /\ task'[v].fulfillment = "COMPLETED"
                            => task'[v].review \in {"PENDING", "APPROVED"}
    BY <1>2 DEF CreditAgreesWithReview, Credited
  <2>1. CASE v = t
    <3>1. /\ task'[v] = q.after
          /\ q.after.review = IF q.op = "APPROVE" THEN "APPROVED"
                              ELSE IF q.op = "REJECT" THEN "REJECTED" ELSE "UNSUBMITTED"
          /\ q.op # "APPROVE" => q.after.fulfillment = "PENDING"
      BY <1>1, <1>2, <2>1 DEF Meaning, SentBack, Decisions
    <3>2. q.op \in Decisions /\ (Credited(v, u)' <=> q.op = "APPROVE")
      BY <1>1, <1>4, <2>1 DEF Credited
    <3>3. QED
      BY <3>1, <3>2 DEF Decisions
  <2>2. CASE v # t
    BY <1>1, <1>2, <1>5, <2>2 DEF CInv, CreditAgreesWithReview
  <2>3. QED
    BY <2>1, <2>2
<1>7. Blank'
  <2>1. task'[t].live
    BY <1>1, <1>2 DEF Meaning
  <2>2. QED
    BY <1>2, <1>5, <2>1 DEF CInv, Blank, Credited
<1>8. QED
  BY <1>6, <1>7

\* While every task keeps a due date and its assignees, the leaderboard agrees with
\* the review state of every task: no order of submissions, decisions, aborted
\* decisions, edits and pollers credits a rejected task or forgets an approved one.
THEOREM CreditAgrees == Spec /\ [][Steady]_vars => []CreditAgreesWithReview
<1>1. Init => CInv
  <2>1. ASSUME Init
        PROVE  CreditAgreesWithReview /\ Meant /\ Blank
    BY <2>1 DEF Init, CreditAgreesWithReview, Meant, Blank, Credited, Active, Idle
  <2>2. QED
    BY <2>1 DEF CInv
<1>2. IInv /\ Fits /\ CInv /\ [Next]_vars /\ [Steady]_vars => CInv'
  <2> SUFFICES ASSUME IInv, Fits, CInv, [Next]_vars, [Steady]_vars PROVE CInv'
    OBVIOUS
  <2>1. Meant'
    BY MeantStep DEF CInv
  <2>2. CASE UNCHANGED vars
    BY <2>2 DEF CInv, vars, CreditAgreesWithReview, Meant, Meaning, Blank, Credited
  <2>3. CASE Steady
    BY <2>1, <2>3, AgreesOutsideCommit, AgreesAtCommit DEF CInv
  <2>4. QED
    BY <2>2, <2>3
<1>3. CInv => CreditAgreesWithReview
  BY DEF CInv
<1>4. QED
  BY <1>1, <1>2, <1>3, DecisionsFit, PTL DEF Spec

\* Every task has a due date and assignees that some payload gave it, and so will it
\* when a decision has been committed.
Dated ==
    /\ \A t \in Tasks : task[t].live => task[t].due # NoDue /\ assignees[t] \in AssigneeSets
    /\ \A r \in Requests : req[r].pc = "deciding" => req[r].after.live /\ req[r].after.due # NoDue

\* Where no payload leaves the due date out, no task is ever without one.
LEMMA DatedStep ==
    ASSUME IInv, Fits, Dated, [Next]_vars, NoDue \notin DueDates
    PROVE  Dated'
<1>1. TypeOK
  BY DEF IInv
<1>2. CASE Tick \/ UNCHANGED vars
  BY <1>2 DEF Tick, vars, Dated
<1>3. ASSUME NEW v \in Tasks,
             \/ CreateTask(v)
             \/ \E status \in Statuses : UpdateTaskStatus(v, status)
             \/ \E due \in DueDates, users \in AssigneeSets : UpdateTaskDetails(v, due, users)
      PROVE  Dated'
  <2>1. req' = req
    BY <1>3 DEF CreateTask, UpdateTaskStatus, UpdateTaskDetails
  <2>2. ASSUME NEW t \in Tasks, task'[t].live
        PROVE  task'[t].due # NoDue /\ assignees'[t] \in AssigneeSets
    <3>1. CASE t # v
      BY <1>1, <1>3, <2>2, <3>1
         DEF CreateTask, UpdateTaskStatus, UpdateTaskDetails, TypeOK, Dated
    <3>2. CASE t = v /\ CreateTask(v)
      BY <1>1, <3>2 DEF CreateTask, TypeOK, Unborn
    <3>3. CASE t = v /\ \E status \in Statuses : UpdateTaskStatus(v, status)
      BY <1>1, <3>3 DEF UpdateTaskStatus, Writable, TypeOK, TaskRow, Dated
    <3>4. CASE t = v /\ \E due \in DueDates, users \in AssigneeSets :
                            UpdateTaskDetails(v, due, users)
      BY <1>1, <3>4 DEF UpdateTaskDetails, TypeOK, TaskRow
    <3>5. QED
      BY <1>3, <3>1, <3>2, <3>3, <3>4
  <2>3. QED
    BY <2>1, <2>2 DEF Dated
<1>4. ASSUME NEW r \in Requests, Request(r)
      PROVE  Dated'
  <2>1. CASE SubmitTaskForReview(r)
    <3>1. /\ req[r].task \in Tasks
          /\ task' = [task EXCEPT ![req[r].task].fulfillment = "COMPLETED",
                                 ![req[r].task].review = "PENDING"]
          /\ UNCHANGED assignees /\ req' = [req EXCEPT ![r] = Idle]
      BY <1>1, <2>1, RequestCases DEF SubmitTaskForReview, TypeOK, Submitting
    <3>2. \A t \in Tasks : task'[t].live = task[t].live /\ task'[t].due = task[t].due
      BY <1>1, <3>1 DEF TypeOK, TaskRow
    <3>3. QED
      BY <1>1, <3>1, <3>2 DEF Dated, TypeOK, Idle
  <2>2. CASE Commit(r)
    <3>1. /\ req[r] \in Deciding /\ req[r].task \in Tasks /\ req[r].pc = "deciding"
          /\ task[req[r].task].live
      BY <2>2, CommitBook DEF IInv, Deciding, Fits, Fitting, Commit
    <3>2. \A t \in Tasks :
            task'[t] = IF t = req[r].task THEN req[r].after ELSE task[t]
      BY <1>1, <2>2, <3>1 DEF Commit, TypeOK
    <3>3. UNCHANGED assignees /\ req' = [req EXCEPT ![r] = Idle]
      BY <2>2 DEF Commit
    <3>4. QED
      BY <1>1, <3>1, <3>2, <3>3 DEF Dated, TypeOK, Idle
  <2>3. CASE Abort(r)
    BY <1>1, <2>3 DEF Abort, Dated, TypeOK, Idle
  <2>4. ASSUME NEW t \in Tasks, NEW u \in Users, SubmitCheck(r, t, u)
        PROVE  Dated'
    BY <1>1, <2>4 DEF SubmitCheck, Dated, TypeOK
  <2>5. ASSUME NEW t \in Tasks, NEW op \in Decisions, NEW after, Decide(r, op, t, after),
               after.live = task[t].live, after.due = task[t].due \/ after.due \in DueDates
        PROVE  Dated'
    <3>1. after.live /\ after.due # NoDue
      BY <2>5 DEF Decide, Writable, Dated
    <3>2. /\ UNCHANGED <<task, assignees>> /\ req'[r].after = after
          /\ \A s \in Requests \ {r} : req'[s] = req[s]
      BY <1>1, <2>5 DEF Decide, TypeOK
    <3>3. QED
      BY <3>1, <3>2 DEF Dated
  <2>6. ASSUME NEW t \in Tasks, ApproveTask(r, t)
        PROVE  Dated'
    <3>1. /\ ApprovedRow(task[t]).live = task[t].live /\ ApprovedRow(task[t]).due = task[t].due
      BY <1>1 DEF ApprovedRow, TypeOK, TaskRow
    <3>2. QED
      BY <2>5, <2>6, <3>1 DEF ApproveTask, Decisions
  <2>7. ASSUME NEW t \in Tasks, NEW due \in DueDates, RejectTask(r, t, due) \/ ReopenTask(r, t, due)
        PROVE  Dated'
    <3>1. ASSUME NEW review
          PROVE  /\ SentBackRow(task[t], review, due).live = task[t].live
                 /\ SentBackRow(task[t], review, due).due \in DueDates
      BY <1>1 DEF SentBackRow, TypeOK, TaskRow
    <3>2. QED
      BY <2>5, <2>7, <3>1 DEF RejectTask, ReopenTask, Decisions
  <2>8. QED
    BY <1>4, <2>1, <2>2, <2>3, <2>4, <2>6, <2>7 DEF Request
<1>5. ASSUME NEW p \in Pollers, Worker(p) \/ StopWorker(p)
      PROVE  Dated'
  BY <1>5 DEF Worker, StopWorker, PollMissedDeadlines, InsertMissed, Dated
<1>6. QED
  BY <1>2, <1>3, <1>4, <1>5 DEF Next

\* A task that was created is not uncreated.
LEMMA StaysLive ==
    ASSUME IInv, Fits, Dated, [Next]_vars, NEW t \in Tasks, task[t].live
    PROVE  task'[t].live
<1>1. CASE \A r \in Requests : ~Commit(r)
  BY <1>1, ReviewCases DEF SameReview
<1>2. CASE \E r \in Requests : Commit(r)
  BY <1>2, CommitBook DEF IInv, TypeOK, Commit, Dated
<1>3. QED
  BY <1>1, <1>2

\* In particular so it is when every payload carries a due date and the same assignees,
\* as in the run that checks it.
THEOREM CreditAgreesOnFixedPayloads ==
    ASSUME NoDue \notin DueDates, \A A, B \in AssigneeSets : A = B
    PROVE  Spec => []CreditAgreesWithReview
<1>1. Init => Dated
  BY DEF Init, Dated, Unborn, Idle
<1>2. IInv /\ Fits /\ Dated /\ [Next]_vars => Dated'
  BY DatedStep
<1>3. IInv /\ Fits /\ Dated /\ Dated' /\ [Next]_vars => [Steady]_vars
  BY StaysLive DEF Dated, Steady
<1>4. QED
  BY <1>1, <1>2, <1>3, DecisionsFit, CreditAgrees, PTL DEF Spec

(***************************************************************************)
(* The ledger implements the score book: every step settles one task's     *)
(* users, raises one flag, or changes neither.                             *)
(***************************************************************************)

\* The standing of a ledger in which no decision counts, or one.
LEMMA StandingCases ==
    ASSUME NEW rows
    PROVE  /\ Active(rows, Verdicts) = {} => Standing(rows) = NoStanding
           /\ \A k : Active(rows, Verdicts) = {k} =>
                Standing(rows) = [kind |-> rows[k].kind, points |-> rows[k].points]
<1>1. Active(rows, Verdicts) = {} => Standing(rows) = NoStanding
  BY DEF Standing
<1>2. ASSUME NEW k, Active(rows, Verdicts) = {k}
      PROVE  Standing(rows) = [kind |-> rows[k].kind, points |-> rows[k].points]
  <2>1. Cardinality({k}) = 1
    BY FS_Singleton
  <2>2. ~(Cardinality({k}) > 1)
    BY <2>1
  <2>3. (CHOOSE i \in {k} : TRUE) = k
    OBVIOUS
  <2>4. {k} # {}
    OBVIOUS
  <2>5. QED
    BY <1>2, <2>2, <2>3, <2>4 DEF Standing
<1>3. QED
  BY <1>1, <1>2

Standings == [t \in Tasks |-> [u \in Users |-> Standing(book[t][u])]]
Flags     == [t \in Tasks |-> [u \in Users |-> HasMissed(t, u)]]

\* A step of the book, over the ledger's mapping.
BookStep ==
    \E t \in Tasks :
        \/ \E us \in SUBSET Users, s \in Earned \cup {NoStanding} :
            /\ Standings' = [Standings EXCEPT ![t] =
                                [u \in Users |-> IF u \in us THEN s ELSE Standings[t][u]]]
            /\ \E kept \in SUBSET us :
                Flags' = [Flags EXCEPT ![t] =
                            [u \in Users |-> IF u \in us \ kept THEN FALSE ELSE Flags[t][u]]]
        \/ \E u \in Users :
            /\ ~Flags[t][u]
            /\ Flags' = [Flags EXCEPT ![t] = [Flags[t] EXCEPT ![u] = TRUE]]
            /\ UNCHANGED Standings

\* A table that changes in one task.
LEMMA OneTaskUpdated ==
    ASSUME NEW S, NEW F \in [Tasks -> [Users -> S]], NEW G \in [Tasks -> [Users -> S]],
           NEW t \in Tasks, NEW g \in [Users -> S],
           \A v \in Tasks, u \in Users : v # t => G[v][u] = F[v][u],
           \A u \in Users : G[t][u] = g[u]
    PROVE  G = [F EXCEPT ![t] = g]
<1>1. ASSUME NEW v \in Tasks PROVE G[v] = [F EXCEPT ![t] = g][v]
  <2>1. CASE v = t
    <3>1. G[t] = g
      OBVIOUS
    <3>2. QED
      BY <2>1, <3>1
  <2>2. CASE v # t
    <3>1. G[v] = F[v]
      BY <2>2
    <3>2. QED
      BY <2>2, <3>1
  <2>3. QED
    BY <2>1, <2>2
<1>2. QED
  BY <1>1

\* A commit settles the standing of its targets, and clears flags of theirs.
LEMMA CommitSettles ==
    ASSUME IInv, Fits, NEW r \in Requests, Commit(r)
    PROVE  BookStep
<1>a. /\ TypeOK /\ AwardOK /\ req[r].pc = "deciding" /\ req[r] \in Deciding /\ Fitting(r)
      /\ req[r].task \in Tasks /\ req[r].targets \in SUBSET Users
  BY CommitBook DEF IInv, Deciding, Fits, Commit
<1>b. PICK t \in Tasks, us \in SUBSET Users : t = req[r].task /\ us = req[r].targets
  BY <1>a
<1> DEFINE kept == {u \in us : HasMissed(t, u)'}
<1>1. /\ kept \in SUBSET us
      /\ \A v \in Tasks, u \in Users :
            book'[v][u] = IF v = t THEN Settled(req[r], u) ELSE book[v][u]
  BY <1>b, CommitBook DEF IInv
<1>2. PICK s \in Earned \cup {NoStanding} : \A u \in us : Standing(book'[t][u]) = s
  <2>1. CASE req[r].award = <<>>
    <3>1. \A u \in us : Active(book'[t][u], Verdicts) = {}
      BY <1>b, <2>1, Decided
    <3>2. QED
      BY <3>1, StandingCases
  <2>2. CASE req[r].award # <<>>
    <3>1. PICK row \in ScoreRow : req[r].award = <<row>> /\ Fresh(row, req[r].after.review)
      BY <1>a, <2>2 DEF Fitting
    <3>2. ASSUME NEW u \in us
          PROVE  Standing(book'[t][u]) = [kind |-> row.kind, points |-> row.points]
      <4>1. u \in Users /\ row.kind \in Verdicts /\ ~row.superseded
        BY <1>b, <3>1 DEF Fresh
      <4>2. /\ Active(book'[t][u], Verdicts) = {Len(book[t][u]) + 1}
            /\ book'[t][u][Len(book[t][u]) + 1] = row
        BY <1>b, <3>1, <4>1, Decided
      <4>3. QED
        BY <4>2, StandingCases
    <3>3. [kind |-> row.kind, points |-> row.points] \in Earned
      BY <3>1 DEF Fresh
    <3>4. QED
      BY <3>2, <3>3
  <2>3. QED
    BY <2>1, <2>2
<1>3. \A u \in Users : u \notin us => book'[t][u] = book[t][u]
  BY <1>b, Decided
<1>4. \A u \in kept : HasMissed(t, u)
  <2>1. ASSUME NEW u \in Users, u \in us, HasMissed(t, u)' PROVE HasMissed(t, u)
    <3>1. {"MISSED_DEADLINE"} \cap Verdicts = {}
      BY DEF Verdicts, Completions
    <3>2. Active(Settled(req[r], u), {"MISSED_DEADLINE"})
              \subseteq Active(book[t][u], {"MISSED_DEADLINE"})
      BY <1>a, <1>b, <2>1, <3>1, SettledRows
    <3>3. Active(book'[t][u], {"MISSED_DEADLINE"}) # {} /\ book'[t][u] = Settled(req[r], u)
      BY <1>1, <1>b, <2>1 DEF HasMissed
    <3>4. QED
      BY <3>2, <3>3 DEF HasMissed
  <2>2. QED
    BY <1>1, <2>1
<1>5. \A v \in Tasks, u \in Users : v # t => book'[v][u] = book[v][u]
  BY <1>1
<1>6. \A v \in Tasks, u \in Users : book'[v][u] = book[v][u] => HasMissed(v, u)' = HasMissed(v, u)
  BY DEF HasMissed
<1>7. Standings' = [Standings EXCEPT ![t] =
                        [u \in Users |-> IF u \in us THEN s ELSE Standings[t][u]]]
  <2> DEFINE F == Standings
             G == Standings'
             g == [u \in Users |-> IF u \in us THEN s ELSE Standings[t][u]]
  <2>1. \A v \in Tasks, u \in Users : v # t => G[v][u] = F[v][u]
    BY <1>5 DEF Standings
  <2>2. \A u \in Users : G[t][u] = g[u]
    BY <1>2, <1>3 DEF Standings
  <2> DEFINE S == {Standing(book[c[1]][c[2]]) : c \in Tasks \X Users}
                  \cup {Standing(book'[c[1]][c[2]]) : c \in Tasks \X Users} \cup {s}
  <2>3. F \in [Tasks -> [Users -> S]] /\ G \in [Tasks -> [Users -> S]] /\ g \in [Users -> S]
    <3>1. ASSUME NEW v \in Tasks, NEW u \in Users
          PROVE  Standing(book[v][u]) \in S /\ Standing(book'[v][u]) \in S
      <4>1. <<v, u>> \in Tasks \X Users /\ <<v, u>>[1] = v /\ <<v, u>>[2] = u
        OBVIOUS
      <4>2. QED
        BY <4>1
    <3>2. s \in S
      OBVIOUS
    <3> HIDE DEF S
    <3>3. QED
      BY <3>1, <3>2, <1>1 DEF Standings
  <2> HIDE DEF F, G, g, S
  <2>4. G = [F EXCEPT ![t] = g]
    BY <2>1, <2>2, <2>3, OneTaskUpdated
  <2>5. QED
    BY <2>4 DEF F, G, g
<1>8. Flags' = [Flags EXCEPT ![t] =
                   [u \in Users |-> IF u \in us \ kept THEN FALSE ELSE Flags[t][u]]]
  <2> DEFINE old(v, u) == HasMissed(v, u)
             new(v, u) == HasMissed(v, u)'
  <2>1. \A v \in Tasks, u \in Users : v # t => new(v, u) = old(v, u)
    BY <1>5, <1>6
  <2>2. \A u \in Users : u \notin us => new(t, u) = old(t, u)
    BY <1>1, <1>3, <1>6
  <2>3. \A u \in us \ kept : new(t, u) = FALSE
    BY DEF HasMissed
  <2>4. \A u \in kept : new(t, u) = TRUE /\ old(t, u) = TRUE
    BY <1>4 DEF HasMissed
  <2>5. Flags = [v \in Tasks |-> [u \in Users |-> old(v, u)]]
        /\ Flags' = [v \in Tasks |-> [u \in Users |-> new(v, u)]]
    BY DEF Flags
  <2>6. kept \subseteq us
    BY <1>1
  <2> HIDE DEF kept, old, new
  <2> DEFINE F == Flags
             G == Flags'
             g == [u \in Users |-> IF u \in us \ kept THEN FALSE ELSE Flags[t][u]]
  <2>7. \A v \in Tasks, u \in Users : v # t => G[v][u] = F[v][u]
    BY <2>1, <2>5
  <2>8. \A u \in Users : G[t][u] = g[u]
    BY <2>2, <2>3, <2>4, <2>5, <2>6
  <2>9. F \in [Tasks -> [Users -> BOOLEAN]] /\ G \in [Tasks -> [Users -> BOOLEAN]]
        /\ g \in [Users -> BOOLEAN]
    <3>1. \A v \in Tasks, u \in Users : old(v, u) \in BOOLEAN /\ new(v, u) \in BOOLEAN
      BY DEF old, new, HasMissed
    <3>2. QED
      BY <2>5, <3>1
  <2> HIDE DEF F, G, g
  <2>10. G = [F EXCEPT ![t] = g]
    BY <2>7, <2>8, <2>9, OneTaskUpdated
  <2>11. QED
    BY <2>10 DEF F, G, g
<1>9. QED
  BY <1>1, <1>2, <1>7, <1>8 DEF BookStep

\* A poller's insert raises a flag that was down, and settles nothing.
LEMMA InsertMisses ==
    ASSUME IInv, NEW p \in Pollers, NEW t \in Tasks, NEW u \in Users,
           InsertMissed(p, t, u), ~HasMissed(t, u)
    PROVE  BookStep
<1>1. /\ Active(book'[t][u], Verdicts) = Active(book[t][u], Verdicts)
      /\ \A i \in 1 .. Len(book[t][u]) : book'[t][u][i] = book[t][u][i]
      /\ HasMissed(t, u)'
      /\ \A v \in Tasks, w \in Users : v # t \/ w # u => book'[v][w] = book[v][w]
  BY MissedAdded
<1>2. Standing(book'[t][u]) = Standing(book[t][u])
  <2>1. CASE Active(book[t][u], Verdicts) = {}
    BY <1>1, <2>1, StandingCases
  <2>2. CASE Active(book[t][u], Verdicts) # {}
    <3>1. PICK k : k \in Active(book[t][u], Verdicts)
      BY <2>2
    <3>2. Active(book[t][u], Verdicts) = {k}
      BY <3>1 DEF IInv, OneVerdict
    <3>3. k \in 1 .. Len(book[t][u])
      BY <3>1 DEF Active
    <3>4. QED
      BY <1>1, <3>2, <3>3, StandingCases
  <2>3. QED
    BY <2>1, <2>2
<1>3. Standings' = Standings
  BY <1>1, <1>2 DEF Standings
<1>4. \A v \in Tasks, w \in Users : v # t \/ w # u => HasMissed(v, w)' = HasMissed(v, w)
  BY <1>1 DEF HasMissed
<1>5. ~Flags[t][u] /\ Flags' = [Flags EXCEPT ![t] = [Flags[t] EXCEPT ![u] = TRUE]]
  <2> DEFINE old(v, w) == HasMissed(v, w)
             new(v, w) == HasMissed(v, w)'
  <2>1. \A v \in Tasks, w \in Users : v # t \/ w # u => new(v, w) = old(v, w)
    BY <1>4
  <2>2. new(t, u) = TRUE /\ old(t, u) = FALSE
    BY <1>1 DEF HasMissed
  <2>3. Flags = [v \in Tasks |-> [w \in Users |-> old(v, w)]]
        /\ Flags' = [v \in Tasks |-> [w \in Users |-> new(v, w)]]
    BY DEF Flags
  <2> HIDE DEF old, new
  <2>4. QED
    BY <2>1, <2>2, <2>3
<1>6. QED
  BY <1>3, <1>5 DEF BookStep

\* Every step is a step of the book, or none.
LEMMA StepsOfTheBook ==
    ASSUME IInv, Fits, [Next]_vars
    PROVE  BookStep \/ UNCHANGED <<Standings, Flags>>
<1>1. CASE book' = book
  BY <1>1 DEF Standings, Flags, HasMissed
<1>2. CASE book' # book
  BY <1>2, BookKept, CommitSettles, InsertMisses
<1>3. QED
  BY <1>1, <1>2

\* The ledger, with every decision and poller run interleaved statement by statement,
\* implements the book the leaderboard is promised.
THEOREM Implements == Spec => ImplementsScoreBook
<1>1. Init => Book!Init
  <2>1. ASSUME Init, NEW t \in Tasks, NEW u \in Users
        PROVE  Standing(book[t][u]) = NoStanding /\ HasMissed(t, u) = FALSE
    <3>1. \A kinds : Active(book[t][u], kinds) = {}
      BY <2>1 DEF Init, Active
    <3>2. QED
      BY <3>1, StandingCases DEF HasMissed
  <2>2. QED
    BY <2>1 DEF Book!Init
<1>2. IInv /\ Fits /\ [Next]_vars => [Book!Next]_(Book!vars)
  <2>1. BookStep => Book!Next
    BY DEF BookStep, Standings, Flags, Earned, Book!Next, Book!Settle, Book!Miss
  <2>2. UNCHANGED <<Standings, Flags>> => UNCHANGED Book!vars
    BY DEF Standings, Flags, Book!vars
  <2>3. QED
    BY <2>1, <2>2, StepsOfTheBook
<1>3. QED
  BY <1>1, <1>2, DecisionsFit, PTL DEF Spec, ImplementsScoreBook, Book!Spec
================================================================================
