------------------------------- MODULE Reminders -------------------------------
(***************************************************************************)
(* The reminders of tasks: the handlers that create, replace, cancel and   *)
(* delete them (services/tasks.go) and the poller that dispatches the due  *)
(* ones (worker/tasks/reminders_task.go).                                  *)
(*                                                                         *)
(* A poller run is one transaction.  Its query locks the due reminders and *)
(* the rows of their tasks (FOR UPDATE SKIP LOCKED over a join), its       *)
(* messages go to the queue at once, and what it writes is visible at its  *)
(* commit.  The transactional handlers begin by updating the task's row,   *)
(* so each happens wholly before or after a run that holds the task, and   *)
(* is one action.  UpdateTaskStatus is two statements with no transaction: *)
(* the second takes its snapshot, then waits for the rows it found.        *)
(***************************************************************************)
EXTENDS Naturals, Sequences, FiniteSets, SequencesExt

CONSTANTS
    Tasks, Requests, Pollers,
    DueTimes,       \* scheduled_at values a payload may carry
    Intervals,      \* recurrence intervals a payload may carry, 0 for none
    MaxTime,        \* bound on the clock
    MaxPayload,     \* bound on the reminders in one payload
    MaxRows,        \* bound on the rows there may be for a payload to add to
    MaxFaults       \* bound on failed runs and failed statements

Free == "free"  \* a task nobody has locked

ASSUME RemindersAssumption ==
    /\ Free \notin Pollers
    /\ DueTimes \subseteq Nat /\ Intervals \subseteq Nat
    /\ MaxTime \in Nat /\ MaxPayload \in Nat /\ MaxRows \in Nat /\ MaxFaults \in Nat

VARIABLES
    now,        \* the database clock
    task,       \* tasks: the two columns the handlers here write
    rem,        \* reminders: every row ever inserted, in order; deleted rows stay
    queued,     \* how many runs have put the messages of a row on the queue
    lock,       \* the poller run holding the row lock of a task, or Free
    poll,       \* a run's locked rows, still to dispatch and dispatched, and what it has inserted
    req,        \* what each UpdateTaskStatus(CLOSED) request is in the middle of
    faults      \* runs rolled back and statements failed so far

vars == <<now, task, rem, queued, lock, poll, req, faults>>

--------------------------------------------------------------------------------
(* Rows *)

Schedule == [due : DueTimes, every : Intervals]

\* A DELETED row is gone from the table; it is kept here to speak of the past.
States == {"PENDING", "SENT", "CANCELLED", "DELETED"}

\* origin is the row a spawned row descends from; a row of a payload is its own.
Row == [task : Tasks, due : Nat, every : Nat, spawned : BOOLEAN,
        state : States, origin : Nat \ {0}]

TaskRow == [live : BOOLEAN, status : {"OPEN", "CLOSED"},
            review : {"UNSUBMITTED", "PENDING", "APPROVED", "REJECTED"}]

Rows == 1 .. Len(rem)

RowsOf(t)     == {i \in Rows : rem[i].task = t}
Pending(t)    == {i \in RowsOf(t) : rem[i].state = "PENDING"}
Present(t)    == {i \in RowsOf(t) : rem[i].state # "DELETED"}

WithState(ids, state) ==
    [i \in Rows |-> IF i \in ids THEN [rem[i] EXCEPT !.state = state] ELSE rem[i]]

\* CreateReminder for each entry of a payload, appended to rows.
CreateReminders(rows, t, payload) ==
    rows \o [k \in 1 .. Len(payload) |->
                [task |-> t, due |-> payload[k].due, every |-> payload[k].every,
                 spawned |-> FALSE, state |-> "PENDING", origin |-> Len(rows) + k]]

Payloads ==
    {p \in BoundedSeq(Schedule, MaxPayload) : Len(rem) + Len(p) <= MaxRows}

NotQueued(n) == [k \in 1 .. n |-> 0]

--------------------------------------------------------------------------------
Resting == [todo |-> {}, done |-> {}, spawned |-> <<>>]

Idle == [pc |-> "idle"]

TypeOK ==
    /\ now \in Nat /\ faults \in Nat
    /\ task \in [Tasks -> TaskRow]
    /\ rem \in Seq(Row)
    /\ queued \in Seq(Nat) /\ Len(queued) = Len(rem)
    /\ lock \in [Tasks -> Pollers \cup {Free}]
    /\ poll \in [Pollers -> [todo : SUBSET Nat, done : SUBSET Nat, spawned : Seq(Row)]]
    /\ req \in [Requests -> {Idle} \cup [pc : {"closed"}, task : Tasks]
                                 \cup [pc : {"deleting"}, task : Tasks, seen : SUBSET Nat]]

Init ==
    /\ now = 0
    /\ task = [t \in Tasks |->
                [live |-> FALSE, status |-> "OPEN", review |-> "UNSUBMITTED"]]
    /\ rem = <<>> /\ queued = <<>>
    /\ lock = [t \in Tasks |-> Free]
    /\ poll = [p \in Pollers |-> Resting]
    /\ req = [r \in Requests |-> Idle]
    /\ faults = 0

Tick ==
    /\ now < MaxTime
    /\ now' = now + 1
    /\ UNCHANGED <<task, rem, queued, lock, poll, req, faults>>

--------------------------------------------------------------------------------
(* Handlers *)

CreateTask(t) ==
    /\ ~task[t].live
    /\ task' = [task EXCEPT ![t].live = TRUE]
    /\ \E payload \in Payloads :
        /\ rem' = CreateReminders(rem, t, payload)
        /\ queued' = queued \o NotQueued(Len(payload))
    /\ UNCHANGED <<now, lock, poll, req, faults>>

\* Mutant: the handler does not wait for the run that holds the task's row.
WritableUnlocked(t) == task[t].live

\* A transaction that updates the task's row waits for the run that holds it.
Writable(t) == task[t].live /\ lock[t] = Free

\* DeleteTaskReminders, then the payload's rows, as UpdateTaskDetails and
\* ActionTask do.
Replace(t, payload) ==
    /\ rem' = CreateReminders(WithState(RowsOf(t), "DELETED"), t, payload)
    /\ queued' = queued \o NotQueued(Len(payload))

UpdateTaskDetails(t, payload) ==
    /\ Writable(t)
    /\ Replace(t, payload)
    /\ UNCHANGED <<now, task, lock, poll, req, faults>>

SubmitTaskForReview(t) ==
    /\ Writable(t)
    /\ task' = [task EXCEPT ![t].review = "PENDING"]
    /\ rem' = WithState(Pending(t), "CANCELLED")
    /\ UNCHANGED <<now, queued, lock, poll, req, faults>>

ApproveTask(t) ==
    /\ Writable(t)
    /\ task' = [task EXCEPT ![t].status = "CLOSED", ![t].review = "APPROVED"]
    /\ rem' = WithState(RowsOf(t), "DELETED")
    /\ UNCHANGED <<now, queued, lock, poll, req, faults>>

\* Reject and reopen: the review column is all that tells them apart here.
ActionTask(t, review, payload) ==
    /\ Writable(t)
    /\ task' = [task EXCEPT ![t].status = "OPEN", ![t].review = review]
    /\ Replace(t, payload)
    /\ UNCHANGED <<now, lock, poll, req, faults>>

--------------------------------------------------------------------------------
(* UpdateTaskStatus: the task's row, then the reminders *)

ReopenStatus(t) ==
    /\ Writable(t)
    /\ task' = [task EXCEPT ![t].status = "OPEN"]
    /\ UNCHANGED <<now, rem, queued, lock, poll, req, faults>>

CloseStatus(r, t) ==
    /\ req[r] = Idle
    /\ Writable(t)
    /\ task' = [task EXCEPT ![t].status = "CLOSED"]
    /\ req' = [req EXCEPT ![r] = [pc |-> "closed", task |-> t]]
    /\ UNCHANGED <<now, rem, queued, lock, poll, faults>>

\* The DELETE's snapshot: the rows committed now.
FindReminders(r) ==
    /\ req[r].pc = "closed"
    /\ req' = [req EXCEPT ![r] = [pc |-> "deleting", task |-> req[r].task,
                                  seen |-> Present(req[r].task)]]
    /\ UNCHANGED <<now, task, rem, queued, lock, poll, faults>>

\* The reminders a run in progress has locked.
Locked == UNION {poll[p].todo \cup poll[p].done : p \in Pollers}

\* Mutant: the rows a run is dispatching are deleted under it.
DeleteRemindersUnlocked(r) ==
    /\ req[r].pc = "deleting"
    /\ rem' = WithState(req[r].seen, "DELETED")
    /\ req' = [req EXCEPT ![r] = Idle]
    /\ UNCHANGED <<now, task, queued, lock, poll, faults>>

\* The DELETE has had to wait for the runs that hold rows of its snapshot.
DeleteReminders(r) ==
    /\ req[r].pc = "deleting"
    /\ req[r].seen \cap Locked = {}
    /\ rem' = WithState(req[r].seen, "DELETED")
    /\ req' = [req EXCEPT ![r] = Idle]
    /\ UNCHANGED <<now, task, queued, lock, poll, faults>>

\* The request dies between its statements, or its DELETE fails: the handler
\* ignores that error.
FailDelete(r) ==
    /\ req[r] # Idle
    /\ faults < MaxFaults
    /\ faults' = faults + 1
    /\ req' = [req EXCEPT ![r] = Idle]
    /\ UNCHANGED <<now, task, rem, queued, lock, poll>>

--------------------------------------------------------------------------------
(* The poller *)

\* Mutant: rows another run has locked are taken too.
DueAnyway(skipped) ==
    {i \in Rows : rem[i].state = "PENDING" /\ rem[i].due <= now /\ rem[i].task \notin skipped}

\* GetDueReminders.  skipped are the tasks a request is writing at that moment.
Due(skipped) ==
    {i \in Rows : /\ rem[i].state = "PENDING" /\ rem[i].due <= now
                  /\ rem[i].task \notin skipped
                  /\ lock[rem[i].task] = Free}

PollDueReminders(p, skipped) ==
    /\ poll[p] = Resting
    /\ Due(skipped) # {}
    /\ poll' = [poll EXCEPT ![p].todo = Due(skipped)]
    /\ lock' = [t \in Tasks |-> IF \E i \in Due(skipped) : rem[i].task = t THEN p ELSE lock[t]]
    /\ UNCHANGED <<now, task, rem, queued, req, faults>>

\* Mutant: only rows of a payload get a successor.
SpawnedOnce(i) ==
    IF rem[i].every = 0 \/ rem[i].spawned THEN <<>>
    ELSE <<[rem[i] EXCEPT !.due = now + rem[i].every, !.spawned = TRUE]>>

\* CreateReminder for the next occurrence of a recurring row, counted from the moment
\* the row is dispatched.
Spawned(i) ==
    IF rem[i].every = 0 THEN <<>>
    ELSE <<[rem[i] EXCEPT !.due = now + rem[i].every, !.spawned = TRUE]>>

\* One turn of the loop, over rows in no order: the row's messages are on the queue,
\* whatever becomes of the transaction, or the queue has refused them (n = 0), which is
\* logged; either way the transaction completes the row and spawns the next.
Dispatch(p) ==
    /\ \E i \in poll[p].todo, n \in {0, 1} :
        /\ queued' = [queued EXCEPT ![i] = @ + n]
        /\ poll' = [poll EXCEPT ![p] = [todo |-> poll[p].todo \ {i}, done |-> poll[p].done \cup {i},
                                        spawned |-> poll[p].spawned \o Spawned(i)]]
    /\ UNCHANGED <<now, task, rem, lock, req, faults>>

Release(p) == [t \in Tasks |-> IF lock[t] = p THEN Free ELSE lock[t]]

\* Mutant: the row just dispatched is not completed.
CommitRunUncompleted(p) ==
    /\ poll[p].todo = {} /\ poll[p].done # {}
    /\ rem' = rem \o poll[p].spawned
    /\ queued' = queued \o NotQueued(Len(poll[p].spawned))
    /\ lock' = Release(p)
    /\ poll' = [poll EXCEPT ![p] = Resting]
    /\ UNCHANGED <<now, task, req, faults>>

CommitRun(p) ==
    /\ poll[p].todo = {} /\ poll[p].done # {}
    /\ rem' = WithState(poll[p].done, "SENT") \o poll[p].spawned
    /\ queued' = queued \o NotQueued(Len(poll[p].spawned))
    /\ lock' = Release(p)
    /\ poll' = [poll EXCEPT ![p] = Resting]
    /\ UNCHANGED <<now, task, req, faults>>

\* Mutant: the connection is lost with its locks held.
RollbackRunLocked(p) ==
    /\ poll[p] # Resting
    /\ faults < MaxFaults
    /\ faults' = faults + 1
    /\ poll' = [poll EXCEPT ![p] = Resting]
    /\ UNCHANGED <<now, task, rem, queued, lock, req>>

\* The worker stops, or a statement or the commit fails: nothing the run wrote is
\* kept, what it queued is.
RollbackRun(p) ==
    /\ poll[p] # Resting
    /\ faults < MaxFaults
    /\ faults' = faults + 1
    /\ lock' = Release(p)
    /\ poll' = [poll EXCEPT ![p] = Resting]
    /\ UNCHANGED <<now, task, rem, queued, req>>

--------------------------------------------------------------------------------
Handler(t) ==
    \/ CreateTask(t)
    \/ SubmitTaskForReview(t)
    \/ ApproveTask(t)
    \/ ReopenStatus(t)
    \/ \E payload \in Payloads :
        \/ UpdateTaskDetails(t, payload)
        \/ \E review \in {"REJECTED", "UNSUBMITTED"} : ActionTask(t, review, payload)

Closing(r) == FindReminders(r) \/ DeleteReminders(r)

Run(p) ==
    \/ \E skipped \in SUBSET Tasks : PollDueReminders(p, skipped)
    \/ Dispatch(p)
    \/ CommitRun(p)

Next ==
    \/ Tick
    \/ \E t \in Tasks : Handler(t)
    \/ \E r \in Requests : Closing(r) \/ FailDelete(r) \/ \E t \in Tasks : CloseStatus(r, t)
    \/ \E p \in Pollers : Run(p) \/ RollbackRun(p)

Spec == Init /\ [][Next]_vars

\* The queue starts poll_due_reminders every minute and a run goes through its
\* rows; a run whose query meets no request in the middle of writing comes again.
Fairness ==
    \A p \in Pollers :
        WF_vars(PollDueReminders(p, {}) \/ Dispatch(p) \/ CommitRun(p))

FairSpec == Spec /\ Fairness

--------------------------------------------------------------------------------
(* Properties *)

Held(p) == poll[p].todo \cup poll[p].done

\* The rows a run read are still what it read when it commits: nobody completes,
\* cancels or deletes a row between the run's query and its commit, and no two runs
\* hold reminders of one task.
RunOwnsItsRows ==
    \A p \in Pollers : \A i \in Held(p) :
        rem[i].state = "PENDING" /\ lock[rem[i].task] = p

\* The messages of a reminder go out once, and once more for each run that was
\* rolled back after sending them: overlapping runs never both send.
NotSentTwice ==
    \A i \in Rows :
        queued[i] <= faults +
            (IF rem[i].state = "PENDING" /\ \A p \in Pollers : i \notin poll[p].done
             THEN 0 ELSE 1)

\* A recurring reminder never has two next occurrences: it is a chain of rows, not
\* a tree, whatever runs overlap, fail and are repeated.
OneNextOccurrence ==
    \A i, j \in Rows :
        (rem[i].origin = rem[j].origin /\ rem[i].state = "PENDING" /\ rem[j].state = "PENDING")
            => i = j

\* A recurring reminder that nobody cancelled or deleted does not die out.
RecursForever ==
    \A o \in {rem[i].origin : i \in Rows} :
        LET chain == {i \in Rows : rem[i].origin = o}
        IN  (rem[o].every > 0 /\ \A i \in chain : rem[i].state \in {"PENDING", "SENT"})
                => \E i \in chain : rem[i].state = "PENDING"

\* A task whose reminders are all off stays quiet until a handler is handed new
\* ones: no run in progress spawns a reminder behind an approval or a submission,
\* and no row that was sent, cancelled or deleted is pending again.
QuietStaysQuiet ==
    [][/\ \A i \in Rows : rem[i].state # "PENDING" => rem'[i].state # "PENDING"
       /\ \A t \in Tasks : (task[t].live /\ Pending(t) = {} /\ Pending(t)' # {})
            => \A i \in Pending(t)' : ~rem'[i].spawned]_vars

\* Every reminder that is due is dispatched (its messages put on the queue, or refused by
\* it, which the code does not tell apart), or taken off, in the end: runs that
\* fail are repeated, and no lock is left behind.
DueIsHandled ==
    \A i \in 1 .. MaxRows :
        (i \in Rows /\ rem[i].state = "PENDING" /\ rem[i].due <= now)
            ~> (i \in Rows /\ rem[i].state # "PENDING")

================================================================================
