# Abhiyan: a verification of the server

TLA+ models of the Go server of Abhiyan (`server/`): an API (Gin, on Lambda), a worker
(ECS) that runs tasks of the Onion task queue, and one Postgres database they share.
TLC checks the models on small instances; TLAPS proves the theorems of the `*Proofs`
modules for every value of the constants.

## The system

Paths: `services/`, `middleware/`, `handlers/` and `db/` are under `server/internal/`,
`worker/` is `server/cmd/worker/`.

Everything durable is a row in Postgres, at READ COMMITTED. API requests run one
goroutine each, on any number of Lambda instances; the worker runs five queue tasks at a
time (`worker/main.go:77`), among them pollers started on a schedule whether or not
the previous run has ended. The components meet only in the database and in the
queue, so what is hard about each is what happens between two of its statements.

| component | state | operations | hard because |
|---|---|---|---|
| task lifecycle and scores (`services/tasks.go`, `services/scores.go`, `worker/tasks/missed_deadlines.go`) | `tasks`, `task_participants`, `employee_scores` | create, edit, close, submit, approve, reject, reopen; poll for missed deadlines | decisions race with each other, with edits, and with a poller that inserts from an old read |
| reminders (`services/tasks.go`, `worker/tasks/reminders_task.go`) | `reminders`, the queue | create, replace, cancel, delete; poll, dispatch, respawn | sends are not part of the transaction that marks them sent; deletes miss rows that commit later |
| media jobs (`worker/tasks/transcription.go`, `audio_transcode.go`) | `transcriptions`, `audio_transcodes` | insert, poll, process, finish or fail | the locks end before the rows are claimed, a job may run twice or stop halfway |
| attendance (`services/attendance.go`, `worker/tasks/attendance.go`) | `attendance_record` | mark, compare faces, write the result, nightly batch, report by day, span and team | a late result meets a newer selfie; two time zones; seven queries tell one story |
| accounts and sessions (`services/auth.go`, `services/admin.go`, `services/user.go`, `middleware/`) | `users`, `user_credentials`, `org_memberships`, `user_system_roles`, links and cookies | register, invite, accept, log in, choose an organisation, switch role, suspend, reset a password | one identity in several organisations; tokens outlive what they were issued for |
| teams (`services/admin.go`) | `teams`, `team_members` | create, add, remove, promote, demote, transfer | check, then act, with no lock |
| Google sign-in handoff, face validation and rate limits (`services/auth.go`, `services/face_validation.go`, `middleware/ratelimit.go`, `worker/tasks/google_auth.go`, `cleanup_kv.go`) | `app_kv`, `face_validation_jobs` | count in a window, ask, answer, poll, expire, sweep | the API waits for an answer that may come late, twice or never |
| timeline, notifications and task cards (`services/tasks.go`, `handlers/notifications.go`) | `task_participants`, `task_updates`, `task_update_comments`, `notifications` | edit, decide, post, comment, mention; read, dismiss, clear | old participants are read while others edit; a comment's notifications follow its commit from a goroutine |
| leaderboards and score reports (`services/scores.go`, `handlers/scores.go`, `db/query/scores.sql`) | `employee_scores`, `team_members`, `team_leaderboard_settings` | breakdown, events, boards, downloads | seven queries over one ledger, joined with the rosters of today |
| lists and dashboards (`services/admin.go`, `services/tasks.go`, `handlers/admin.go`) | what the others keep | page by LIMIT and OFFSET, count | each page is a query of its own; several queries tell the same fact |

## Modules

| module | models | checked by | proved in |
|---|---|---|---|
| `Queries` | ORDER BY, LIMIT and OFFSET, SUM | with `Listings` and `Reports` | `QueryLemmas` |
| `ScorePoints` | `calculatePoints`, as operators | `MCCalculations`, `MCPages` | `CalculationsProofs`; `TaskScoresProofs` (its range) |
| `Recurrence` | `calculateNextOccurrence` on a calendar of four years and more | `MCCalculations`, `MCPages` | `CalculationsProofs` |
| `Reports` | the queries over the score ledger, the boards and downloads made of them | `MCCalculations`, `MCPages` | `CalculationsProofs` |
| `TaskScores` | the task lifecycle, the score ledger, the missed-deadline poller | `MCTaskScores` | `TaskScoresProofs` |
| `ScoreBook` | what the ledger promises, without requests, locks or rows; `TaskScores` implements it | `MCTaskScores` | `TaskScoresProofs` |
| `Reminders` | the handlers that write reminders and the poller that sends them | `MCReminders` | `RemindersProofs` |
| `Attendance` | marking attendance, comparing faces, the nightly batch, the pages and reports | `MCWorkerAnswers` | `WorkerAnswersProofs` |
| `Handoff` | Google sign-in and face validation through the worker; rate limits and the sweep of `app_kv` | `MCWorkerAnswers` | `WorkerAnswersProofs` |
| `MediaJobs` | transcriptions and transcodes of voice notes: pollers and workers | `MCTimeline` | `TimelineProofs` |
| `Teams` | organisations that may share people: memberships, system roles, team rosters | `MCTeams` | `TeamsProofs` |
| `Accounts` | one identity in several organisations: credentials, links, sessions, roles | `MCAccounts` | `AccountsProofs` |
| `TaskThreads` | a task's participants, timeline and comments, and the notifications and cards they send | `MCTimeline` | `TimelineProofs` |
| `Listings` | the lists of people, teams, tasks, updates and comments, and reading them by pages | `MCPages` | `CalculationsProofs` |

`TaskScores` extends `ScorePoints`, `Listings` and `Reports` extend `Queries`. The others stand beside each other: what one writes
of a table that another has too, the other either does not read (a reminder never looks
at a score), or takes as an arbitrary input (`Attendance` lets an administrator suspend
a member at any time, whatever `Teams` says of who may; `Reports` and `Listings` let the
ledger, the rosters and the lists change at will). `TaskScores`, `Reminders` and
`TaskThreads` all have the review state of a task; each keeps every write of it that it
has a use for. `Teams` and `Accounts` both have several organisations: `Teams` has what one
person's requests do to the rosters of each, `Accounts` what they sign in with.

`Attendance` and `Handoff` are checked by one module, `MCWorkerAnswers`: the three
requests that leave a job with the worker and have its answer from a table. Either
moves while the other is still. So are `TaskThreads` and `MediaJobs`, by `MCTimeline` (what is
posted to a timeline), and the calculations and `Listings`, by `MCPages`. `MCTeams` has two
organisations and either moves inside the first, or between the two. `MCCalculations` has a small
state machine that moves the inputs of the pure functions, beside the ledger of `Reports`. The other `MC*`
modules hold instances only. A definition marked `Mutant` is no part of a specification;
it is a bug put into one definition of the model, to show that a property would see it.

### TaskScores

`task[t]` is the committed row of a task, `assignees[t]` its ASSIGNEE participants,
`book[t][u]` the rows of `employee_scores` for a task and a user in the order they were
committed. `lock[t]` is the request that holds the task's row lock, `req[r]` what an API
request is in the middle of, `poll[p]` the candidates a poller run has read and not
inserted yet.

A decision is two steps, `Decide` and `Commit` (or `Abort`). Its first statement updates
the task's row, so from then on no other transaction that writes the row can proceed; its
later statements read and write only rows of `employee_scores` that nobody but the poller
touches. A poller insert that commits before one of its supersede statements is seen
by it, and such an insert commutes with the lock-taking step, so "what the supersede
statements see" may be fixed when the lock is taken: an insert that a later statement
would still see is the same behaviour with the insert first. `UpdateTaskDetails` and
`CreateTask` are transactions too, but what they write is either behind the same lock or
invisible until they commit, so they are one action each. `UpdateTaskStatus` is a single
statement for this state. `SubmitTaskForReview` reads `IsTaskAssignee` before its
transaction and is two steps for it. The poller has no transaction: one step reads
the candidates, one step inserts each row, refused by the partial unique index when a
row that counts is there.

### ScorePoints and Recurrence

`calculatePoints` works on instants in floating-point hours. Here an instant is a
natural number and `DayTicks` of them make a day, so fifths of a window are exact; the
rounding of a quotient that should be an integer and is not is left out.
`calculateNextOccurrence` works on hours, and `AddMonths` is `time.AddDate` with its
normalisation: the 31st of a month of thirty days is the first of the next.

### Reminders

A run of `poll_due_reminders` is one transaction. Its query joins reminders with their
tasks and locks both with `FOR UPDATE SKIP LOCKED`, so `PollDueReminders` gives the run
the tasks of every due row that nobody holds; `skipped` are tasks an API request happens
to be writing. `poll[p].todo` are the rows it has still to dispatch, in no order (the
query has none), `done` those it has, `spawned` the next occurrences it has inserted.
`Dispatch` is one turn of its loop: the messages of the row are in Redis from then on, or
Redis has refused them, which the code logs and otherwise takes for the same.
`CommitRun` makes the statuses and the next occurrences visible at once, `RollbackRun` is
a failed statement, a failed commit or the end of the process.

Every transactional handler updates the task's row first, hence waits for a run that
holds it; after that it meets nobody, and is one action. `UpdateTaskStatus(CLOSED)` has
no transaction: `CloseStatus`, `FindReminders` (the snapshot of the DELETE) and
`DeleteReminders` (once the locked rows of that snapshot are free) are three.
Deleted rows stay in `rem`, marked, so that properties can speak of what once was.
`origin` is a history variable: the row of a payload from which a recurring one descends.

### Attendance

The clock (`day`, `minute`) is the one in India, which the handler reads. The table
dates its rows by `CURRENT_DATE`, in UTC: until half past five in the morning it is still
the day before. Nothing is marked before seven (`Open`), and the batch of 00:01 ends
before half past five, which is the assumption the dates rest on. `CheckMark` is the
handler's checks with the one reading of the clock, `UpsertRecord` the INSERT ... ON
CONFLICT and `EnqueueCompare` the message; a request lives for less than a
minute (the Lambda is stopped after thirty seconds), so the clock may pass one boundary between two of its steps and not two.
`Photos` are submissions: an object key that is submitted again, which nothing refuses, is
another of them, since no two keys are ever compared.
`CompareFaces` is a whole job, since only its last statement writes; jobs end in any
order. `FailCompare` is a job whose call or write fails, which the queue may or may not
try again. Under "What the pages show" is every query of `attendance.sql` that is read:
by day, by span, of a team or of all (with or without a row for each membership), a
member's summary and history; `resolveStatus` and `resolveFulfillment` are the
handlers' readings of a row.

### Handoff

A job of either kind is a `ticket`: what was asked of which credential or photo, how
long a login has polled, and the answer it was given. `queue` is the deliveries left of
its message, `kv` is `app_kv`: the counters of the two limiters, and the answers left for
logins. Time is in what rows have left (`ttl`): `Elapse` takes a tick from each, so no
clock grows and the instance is finite with jobs following one another for ever.
`RateLimitHit` is the one statement that counts and restarts an expired window;
`RateLimit` fails open, `TurnAway` counts too. A login asks, enqueues and polls in steps of
their own, and gives up when its ten seconds are over; the worker's answer may come after that, or
twice. The face's handler inserts a pending row, then enqueues and drops the error. A
ticket whose answer and rows are gone stands for another job (`ForgetTicket`): ids are
random, and nothing of an older job is left to be confused with. A counter beyond the
limit, or a row long expired, is not told from the next: `Min` and `Max` cap them there.
The limiters' keys share nothing but the sweep, so `route` says which is asked for.

### MediaJobs

The code of transcriptions and of transcodes is the same line by line, with other
tables; `Kinds` says which are in play. `FOR UPDATE SKIP LOCKED` is outside a
transaction, so its locks end with the query: `Poll` reads, `Claim` sets PROCESSING and
`Enqueue` sends, and another run may have read the same rows. `work[w]` is a worker in
the middle of a job. A recording comes by `Upload` (a presigned PUT, good for fifteen
minutes whatever becomes of the attachment) and goes by `RemoveObject`, both at any
time: `DELETE /upload/s3-object` asks whose organisation a key is of and nothing
else, so it takes the recording from under a live attachment too (`handlers/upload.go:48`).
`dropped` and `saved` are history variables: jobs that a stop of the process or
a write that failed has left with nobody in charge, and jobs whose result was written.

### Teams

`OrgOf[t]` is the organisation of a team, `Founder[o]` who registered one; a person may be
in several. `InviteUser`, `AcceptInvite` and `CreateTeam` are transactions and
one action each. `UpdateUserSystemProfile` is a check and three statements with no
transaction; `ManageTeamMember` checks, counts the admins (unless somebody is promoted)
and writes; `TransferTeamMember` checks, counts, removes and inserts. The reads before
the count are one step: of all they read, the roster depends on one row only, the
membership of the user (the role read beside it for a promotion matters to no property). The count and the read of the members that follows when it
is at most one are one step too: the request goes on only if one of the two reads saw
somebody else in charge, and it would have gone on as well had it done both at that
moment; otherwise it is refused, and a refusal writes nothing. `FailCount` is
that second read failing: the code then goes on as though the user were not the admin.
`spelling` is how the request writes the user's id. `ParseUUID` takes upper case, braces and
no dashes for the same id, but the last admin is looked for by comparing that text with the
id as the database prints it, so only the canonical one is found (`NotTheLast`).
`MayTransfer` asks of the requester that they be in the organisations of both teams and of
the person transferred only that they be in the first. The organisation a Super Admin's
session is of need not be that of the team (`SuperAdmin`, `MayManage`), and `MayTransfer`
asks for the memberships alone. `seen` is a history variable, the admins a request has counted.

### Accounts

`profile[p]` and `password[p]` are the rows of `users` and `user_credentials` (a form
stands for what was typed; `Blank` is the row an invitation inserts), `member` and `roles`
those of each organisation. The links that are mailed are signed and stateless, so
`invite` and `reset` say which are good; `pending` and `session` are what a browser holds.
Registration is the reads before its transaction and the transaction; acceptance reads in
its transaction and commits what it read, which the primary key of `user_credentials`
refuses when another acceptance was first. Sessions are minted in two steps: the
membership is looked at, then the roles are read and the cookie made. A request of one statement,
or of one transaction that waits for nothing, is one action.

### TaskThreads

One task. An edit or a decision updates the task's row first, so what follows up to its
commit is one step, and its reads are of that moment (`OldMap`); a post to the timeline
takes no such lock and tells the participants it read at its beginning (`seen`). A
comment is committed by `PostUpdateComment`; its notifications are inserted one at a time
by `TellMentioned` and `TellAuthor`, or cut short. The lists of a form and the mentions of
an update or a comment are lists of ids as the request writes them: an `Entry` says whose
id it is, whether it is spelled as the database prints it, and, of several equal ones,
which. `CreateTask`, `UpdateTaskDetails` and `PostTaskUpdate` write a notification for each
entry; only the comment's goroutine drops equal ones (`uniqueMentionedIds`). The maps that
keep somebody from being told twice (`mentionedMap`, `Newcomers`) go by the text, so to them
another spelling is somebody else. `sent` is every notification ever
written, with the event that wrote it and the entry it is for; `read`, `dismissed` and `cleared` are what
became of it. `clock` counts requests, so that `created_at`, which is the start of a
transaction, can disagree with the order of commits. `since` and `lost` are history variables:
the event that made somebody an assignee, and the comments whose goroutine died.

### Listings and Reports

Pure operators, one for each query, over a small state that changes at will. In
`Listings` a list is the sequence of its rows' keys, and `walk` a reader who takes a page at
a time, each by a query of its own; `steady`, `come` and `gone` say what has happened to the list
meanwhile. Its rows are a set (`RowSet`), what the WHERE selects, and an order is the rows that each row has
before it: `OrderBy(S, ahead)` puts a row where the number of those says, and is a definition that can be
reasoned about where a sort of a sequence cannot.
Teams have names of their own there, and search terms are left out. In `Reports` the ledger is written as
`TaskScores` writes it (a decision supersedes, a miss does not), for several people,
tasks and teams; a page is read at one moment.

## What is checked

Every property of a passing run has a mutant, a plausible bug in one definition of the
model under which TLC finds the property violated by the same run. Type invariants are not run
properties: they are theorems, for every instance.

| run | instance | asks |
|---|---|---|
| `pages` | days of 4 instants, instants to 24; chains from every day of four years; 3 people, 2 teams, 2 tasks, 2 ledger rows; 3 changes of the lists, a row to a page | `calculatePoints` against an independent count of fifths (`PointsAsCounted`); what a chain of monthly occurrences does at the end of short months (`MonthlyKeepsItsDay`); every page, board and download of scores adds up and ranks fairly (`BoardsAddUp`, `RanksAreFair`); queries that tell the same fact agree (`BoardsAgree`), whoever pages to the end has every row that was there all along, if none left (`WalksAreComplete`) |
| `scores_fixed` | 1 task, 2 assignees who stay, 2 requests, 1 poller, payloads with due dates, 2 rows per user before a decision, 1 restart | decisions are alone on their task (`DecisionIsolated`), the ledger agrees with the task's review state for everybody (`CreditAgreesWithReview`), and decision and scores are committed together (`ScoredWithTheDecision`) |
| `scores_varying` | the same with assignees that come and go and payloads without a due date | no double award (`OneVerdict`); `TaskScores` implements `ScoreBook` (`ImplementsScoreBook`) |
| `scores_missed` | 1 request, 2 pollers, 1 restart, with fairness | no double miss (`OneMissed`); a missed deadline is recorded in the end (`MissEventuallyRecorded`) |
| `reminders` | 1 task, 2 overlapping runs, 1 manual close, due times 0 and 1, clock to 2, payloads of 1, 1 failure, with fairness | sent once per run that is not rolled back (`NotSentTwice`), a recurring reminder is a chain that neither forks nor ends (`OneNextOccurrence`, `RecursForever`), a run commits over what it read and nothing comes back behind an approval or submission (`RunOwnsItsRows`, `QuietStaysQuiet`), what is due is handled (`DueIsHandled`) |
| `worker_answers` | 1 member of 2 teams, 2 selfies of which one matches, 2 requests, 2 days of the minutes 0:00, 0:01, 5:30, 7:00 and 12:00, 2 switches, 2 failures; and 2 tickets at a time, a genuine and a false thing, limit 1 in a window of 2 ticks, answers that last longer than logins wait, messages delivered twice, 1 failure; with fairness | the India and UTC days never part company (`MarkedOnItsDay`), the batch does no one wrong (`AbsentMeansNoShow`), credit needs a match (`PresentIsProven`), seven queries agree (`PagesAgree`), each submission gets a verdict (`VerdictInTheEnd`); jobs are answered with what was found of their own thing (`AnswersAreOwn`), end and leave nothing behind (`JobsEndCleanly`), the limiter lets no more through than two windows hold (`AtMostTwoWindows`) and keeps nobody out for good (`TurnedAwayForAWindow`) |
| `timeline` | 3 people, forms and mentions that repeat an id, have it in two roles or spell it otherwise, 2 requests at a time and 3 in all, 1 mark, a bell of 2; and 2 recordings of which one needs no conversion, the transcodes, 2 poller runs, 2 workers, LIMIT 1, 1 failure or 1 stop, recordings deleted at any time; with fairness | overlapping edits forget no newcomer's card (`AssignedAreTold`), one event tells no id twice but in two roles or where a list repeats it, and only of what is there (`ToldOnceOfWhatExists`), a committed comment's mentions arrive (`MentionsArrive`); no later run, failed or repeated, takes a result from its row or its file from S3 (`ResultsOutliveFailures`), nothing is stranded but by a stop or a lost write (`NothingStranded`), other rows settle (`SettlesForGood`) |
| `teams` | 2 people, 2 organisations of two teams and of one, 1 failure, ids in 2 spellings; 2 requests at a time and 3 in all inside the first, or 2 in all between them | whoever is on a roster has joined its organisation or has a colleague who has (`OrganisationsStayApart`); roles go only in an update (`RoleUnlessUpdating`); the last admin goes by a stale or failed count, a spelling or a transfer in, and in no fifth way (`AdminsGoOnlyUnseen`) |
| `accounts` | 2 people, 2 organisations, 2 forms, 1 browser, 2 requests at a time and 5 of several statements in all | who has joined can sign in (`JoinedHaveCredentials`), profile and password are first written by one form and then by nobody else (`OneOnboarding`), the guard that refuses SUSPENDED lets only ACTIVE members through (`GuardPassesMembers`) |
| `scores_stale_miss`, `outsider_on_roster`, `last_admin` | the smallest instance that shows it | a finding below each |

Why these bounds are enough to be of use. Rows of different tasks (and days, and
attachments) never meet in a statement but the pollers' reads, so one task, two
users, two requests and two runs is the smallest instance with every pair of actors on
one row. Two rows per user before a decision let a decision supersede an award, a
rejection and a miss; a third would be superseded in the same way. The clock needs an
instant before the due date, one at it and one after it. The minutes of `Attendance` are
all the instants at which the code, or the time zone, changes its mind. Two organisations
are enough for a person to have joined one and be invited to the other; a person, a team
or a row more in `Listings` would be paged over in the same way. A fault more or
a stop more multiplies states and not kinds of states: each has only to happen between
any two steps once. In `timeline` the recording that needs no conversion is left where it is, since
no transcode looks at it, and a failure and a stop do not come together. The bounds (`MaxTime`, `MaxRows`, `MaxFaults`, `MaxFailures`, `MaxStops`, `MaxTries`,
`MaxSwitches`, `MaxRequests`, `MaxBetween`, `MaxTroubles`, `MaxMarks`, `MaxPayload`, `MaxDay`, `MaxTasks`, `MaxWrites`) are conjuncts of guards and appear
nowhere else, but for the types; the theorems hold for each of their values.

`CHECK_DEADLOCK FALSE` is set where a system may really stop. `pages` ends when its
instants and changes are used up. In `teams`, `accounts` and `timeline` the bounded requests run out, and an organisation
whose only Super Admin suspends themselves, which the code allows, has nobody left who
may act.

`SYMMETRY` is used for people, organisations, teams, requests and forms in runs whose properties
are invariants and action properties, never with liveness.

### Fairness

Fairness is assumed of what the process does by itself, and never of a person.
- `TaskScores`: the queue starts `poll_missed_deadlines` every five minutes and a run
  goes through its list (`WF` of `Worker`); a transaction ends (`WF` of `Commit \/ Abort`:
  the Lambda that serves it is stopped
  after thirty seconds, `terraform/modules/compute/lambda.tf:95`, and a lost connection is rolled back).
- `Reminders`: the same of `poll_due_reminders`, every minute. Fairness is of a poll that
  meets nobody writing (`skipped = {}`); requests hold a task for some milliseconds.
- `Attendance`: a handler that has begun goes on, and the worker takes every job.
- `Handoff`: time passes, the sweep is scheduled, a handler goes on and gives up at its
  time, and the worker takes every message. `TurnedAwayForAWindow` holds whatever the
  others go on asking: the window it counts in is not prolonged by them.
- `MediaJobs`: a poll every thirty seconds, runs and workers that go on. The polls are
  fair as a whole, not each, since any run will do. `Start` is strongly fair: the queue hands
  out every message in the end, although those that failed are put back before it.
- `TaskThreads`: the goroutine of a comment goes on. That it may die with its instance is
  `CutShort`, which `MentionsArrive` names.

Failures, rollbacks and stops have no fairness and are bounded: a system that failed
forever would promise nothing.

## What is proved

TLAPS proves these for any sets of tasks, people, requests, pollers, teams, organisations,
jobs and forms, and for any bounds. The assumptions are those of the modules, and say no
more than that the marks for "none" are none of the values, that bounds are numbers, and:
`DayTicksAssumption` (a day has instants); `TeamsAssumption` (each organisation has a founder
and each team an organisation, given roles are system roles, an id is spelled canonically or otherwise); `AttendanceAssumption` (the clock stops at least once in the
night, in which the two dates differ, or a request could outlive a night);
`MediaAssumption` (finitely many workers); `HandoffAssumption` (a login gives up before
its answer expires: ten seconds against a minute); `ThreadsAssumption` (forms and mentions name people, and equal entries are numbered from one);
`ReportsAssumption` and `ListingsAssumption` (finitely many people and teams, a page has rows, and no two people the
same first name, or instant of registration, nor two teams the same name: what the ORDER BY leaves open
where they do is left out).
TLC evaluates all of them in the runs. Each module has one inductive invariant, `IInv`, and
`Invariance == Spec => []IInv` (`MediaInv`, `ReportsInv` and `ListingsInv` where two modules share a module of
proofs); the properties follow from it.

**`TaskScoresProofs`.** `NoDoubleAward` (`OneVerdict`), `NoDoubleMiss` (`OneMissed`),
`DecisionsIsolated`, `ScoredTogether` (`ScoredWithTheDecision`), `Implements`
(`ImplementsScoreBook`), `TypeCorrect`. The inductive invariant is
`TypeOK /\ AwardOK /\ DecisionIsolated /\ OneVerdict /\ OneMissed`. `OneVerdict` alone is
not inductive: `Commit` adds a decision row, and nothing in `OneVerdict` says that it has
superseded the one before, which it can have seen only if no other decision committed
since it took its snapshot. `DecisionIsolated` is that fact. It holds because a decision
begins with the UPDATE of the task's row and holds its lock until it commits; the
poller, which takes no lock, inserts only rows of the other kind. `AwardOK` says that a
decision inserts one decision row at most. `OneMissed` rests on the unique index, which
is checked when a row is inserted and not when the candidates were read. The lemmas on
`SupersedeScoreEvents` and on appended rows (which rows count afterwards) are stated
once; `BonusType` shows that the formula stays within 0 to 5 points of bonus for all
instants. `Fits` carries what a decision computed when it took the lock to its commit
(its awards go to the task's assignees of then, who cannot change meanwhile); with it a
commit maps to one step of `ScoreBook`, an insert of the poller to one, and every other
step to a stutter.

`CreditAgrees` (`CreditAgreesWithReview`) is of the behaviours in which every task keeps a due date
and its assignees, `Spec /\ [][Steady]_vars`: without a due date a decision writes no row, and
who leaves a task takes no part in its next decision, so the property is false of the others. Its invariant
adds what a decision on its way means for the task and for its ledger (`Meant`), and that nobody
has a row of a task that was not created (`Blank`). `CreditAgreesOnFixedPayloads` derives `Steady`
from the payloads: all have a due date, and all the same assignees.

**`CalculationsProofs`.** `PointsAreCounted` (`PointsAsCounted`): the fifths of a window that are left are
the first ones, as many as the quotient says, for any instants and any length of a
day. `MonthlyStaysOnItsDay` (`MonthlyKeepsItsDay`), over a calendar of any number of months: that the
recursion of `FirstOf` lays out the months one after the other is shown by a first month
that it does not lay out (`LaidOut`), that `MonthOf` finds the month an instant is in by a
greatest element (`Extremes`); then a month is never shorter than 28 days nor longer than 31.

Of the reports: `ScoresAddUp` (`BoardsAddUp`), `RanksCountTheBetter` (`RanksAreFair`). `ReportsInv` is no more than
the shape of the ledger and the rosters: the properties are about what is made of them in one moment, and
hold of any ledger that has the shape. A sum over the teams of sums over each team's rows is the sum over all of them
(`SumByParts`), since a row names one team; a board has everybody once, since the order has a place for each
(`OrderByIs`), and in order of points (`BoardIs`). `assignRanks` is a recursion along the board: that
a rank counts those with more points is shown by a least place at which it does not (`RanksAre`).

Of the lists: `PagesMissNothing` (`WalksAreComplete`), `QueriesAgree` (`BoardsAgree`). `WalksAreComplete` speaks of a
reader who is done and is not inductive. `ListingsInv` says of a reader on the way that a row that was there all along has
been read or has its place at the next page or after it (`SteadySeen`), and, if none came, that what was
read are rows before that page (`OnceSeen`). The place of a row is the number of rows before it, so a row that
comes can only move it on (`PlaceAmongMore`) and none that leaves is let pass: this is why the one exception
is `gone` for the first part and `come` for the second. `TeamsOfMembers`, that whoever has
a team has joined the organisation, is what makes the counts of `BoardsAgree` those of the same people. It
found the instance of one person wrong, who was in no organisation and the admin of every team.
That is a restriction of `Listings`: after a transfer between organisations, as in
`outsider_on_roster`, a roster has somebody who has not joined, and the counts differ by them.

**`RemindersProofs`.** `RunsOwnTheirRows`, `SentOncePerFault`, `ChainsDoNotFork`,
`ChainsGoOn`, `NothingComesBack`, `TypeCorrect`. `RunSound` says of each run that the rows it
holds are pending under its lock, and that what it has inserted is exactly one next
occurrence for each recurring row it has dispatched; `OriginsAreRows` that a chain begins with a row of its own.
From these the commit, which sends some rows and appends others, leaves each chain
with the one end it had. Rollbacks are paid for by `faults` in `NotSentTwice`.

**`WorkerAnswersProofs`.** Of attendance: `RowsAreOfTheirDay`, `NoShowsAreAbsent`, `CreditIsProven`,
`ReportsTellOneStory` (`PagesAgree`), `TypeCorrect`. `RequestSound` says that a request was let pass after seven and has seen one
boundary of the clock at most, so its row is dated with its day; `RowSound` that a
submitted row has a selfie of its member and that day, `present` only if a selfie of
that day matched, and no verdict but with the presence that goes with it. The last is what
`PagesAgree` rests on, since some queries read the verdict and others the presence; it is of the spans
that are not refused (366 days at most). The
counts of a member's summary add up over the days of their history whatever the span.

Of the handoff: `AnswersReachTheirJobs` (`AnswersAreOwn`), `TwoWindowsAtMost` (`AtMostTwoWindows`).
`Good` ties the message, the row and the ticket of a job to one thing, and says that an
answer has more time left than the login that polls it. For the limiter `Windowed` says that of the
hits let through as long ago as a window at most, those older than the current window's row
were all in one window before it; it needs the sums over the ages of hits of any number of ticks,
and these rest on lemmas of sums over finite sets.

**`QueryLemmas`.** Finite sums, and lists that are ordered by a key and read by pages: what is cited above and
below. An induction over sets
is beyond the provers, but a least counterexample is not: of the subsets of a finite set that
have a property one has no other in it (`Minimal`, from the library's well-founded inclusion).
So a sum over two parts is that of the parts, an order of a finite set has a place for each of its rows
and a row at each place, and pages put one after the other are the list.

**`TimelineProofs`**, of `MediaJobs`: `ResultsAreKept` (`ResultsOutliveFailures`), `NobodyIsStranded`, `MediaTypeCorrect`.
`UploadedBeforeSave` is the order of a worker's two last steps, `FilesKept` and `ResultsKept`
that what a row points to is there and that a row once written keeps its result: a status is
set without the output, a file once made is never taken away, and an attachment is posted once, so
its row is never anew.

**`TeamsProofs`.** `RostersStayApart` (`OrganisationsStayApart`), `RolesAreKept`, `AdminsAreKept`, `TypeCorrect`. The
inductive invariant adds to the properties what a request between two statements relies
on: `RequestSound`, whatever it checked still holds (the team exists, and the user has joined its
organisation or is the colleague of somebody who has),
since no request takes a membership back to INVITED or deletes a team; and `SeenSound`, a
request that is past the count and spells its user as the database does has not counted them as the only admin. `AdminsAreKept` is
an action property: the step that takes a team's last admin is a write whose request
counted other admins than there are, or spelled its user otherwise, or a transfer arriving; it follows from
`SeenSound`, since with the count up to date the writer would be removing the one admin it saw.

**`AccountsProofs`.** `JoinedCanSignIn`, `OnlyActivePass`, `OnboardedOnce`, `TypeCorrect`.
`SessionsJoined` says that whoever has a session for an organisation has joined it, or did before it was
deleted; it rests on `RequestSound`: between looking at the membership and
making the cookie nobody goes back to INVITED. `CredentialsHaveProfiles` and what a
registration or an acceptance has found of the password are the rest.

**`TimelineProofs`**, of `TaskThreads`: `NewcomersHaveTheirCard` (`AssignedAreTold`), `NobodyToldTwice`
(`ToldOnceOfWhatExists`), `TypeCorrect`. `OwnEvents` gives every request an event of its own; a
request that has not written has told nobody (`Untold`), and one whose goroutine is telling has
told only entries it mentions (`Telling`), of equal ones the first, so no id is told twice and the
author of the entry, told last, is not told by an id that was mentioned.

Only model-checked: every liveness property (beyond the prover), `MissEventuallyRecorded`,
`DueIsHandled`, `VerdictInTheEnd`, `TurnedAwayForAWindow`, `JobsEndCleanly`, `SettlesForGood`,
`MentionsArrive`. Every invariant and action property of the runs is a theorem.

## Findings

- `scores_stale_miss`: README.md:73, "always reflects the current state of a task". The
  poller inserts a miss from an old read after an approval has committed
  (`worker/tasks/missed_deadlines.go:31`).
- `outsider_on_roster`: `services/admin.go:705`, the cross-organisation guard of a transfer wants
  the person transferred to be of the organisation of both teams. The code asks for the first
  only (`:716`), so whoever is in two organisations can put an outsider on a roster of the second.
- `last_admin`: `services/admin.go:652`, "Prevent removing or demoting the last Team Admin". The last admin goes
  when the request spells their id in another way (`:664`; `:733` for a transfer). Besides this, which the run
  shows, they go when two requests count two and remove one each (`:654`), when they are transferred into
  the team, which makes them a member (`:749`), and when the members cannot be read (`:662`).
  `AdminsGoOnlyUnseen` says that there is no fifth way.

TLC finds each of these violated. Other disagreements seen while reading. The models have the code's behaviour wherever they
have the part at all, and the properties make exceptions of them by name:
- README.md:70, a rejection supersedes the previous score event: one whose payload has no due
  date writes NULL first and returns before it supersedes anything (`services/scores.go:115`).
- README.md:71, a reopening supersedes "all prior score events for the task"; the code does
  so for the present assignees only, and drops errors (`services/scores.go:149`).
- README.md:65, "every approved task earns the assignee points": not one without a due date
  (`services/scores.go:74`). README.md:68, the bonus is relative "to the total task window":
  a window is a day at least (`services/scores.go:53`).
- README.md:37, minutes are a unit of recurrence; the worker's switch has no such case and
  adds days (`worker/tasks/reminders_task.go:138`). README.md:39, "no persistent schedule
  object to drift": the next occurrence counts from the time of dispatch, so it drifts by
  the poll's delay each time, and a monthly one leaves the end of the month for good.
- `services/tasks.go:431`, a manual close kills "all pending reminders so they stop firing": the
  DELETE misses the row that a run inserts while the DELETE waits for it.
- `services/tasks.go:1281` cancels reminders on submission; an edit form opened before posts
  them back as new (`services/tasks.go:641`).
- README.md:29, an assigned person gets a card: a subscriber whom an edit makes an assignee
  gets none, having taken part already (`services/tasks.go:606`).
- `db/query/attendance.sql:3`, "the most recent mark-time governs": a result is written to the
  row by its id, so that of an older selfie that ends later overwrites the newer one's. A day
  without a verdict reads as absent in a member's history and is not counted as one.
- `handlers/attendance.go:120`, "one row per user per day": the report of a span over all teams has one for
  each membership.
- The pages call `DELETE /upload/s3-object` for files of a form that is not sent (`TeamTasksPage.jsx:156`);
  it takes the recording of a live attachment as well (`handlers/upload.go:58`).
- `services/tasks.go:1048`, "skip author and anyone already mentioned": a participant mentioned by an id
  in another spelling is told as both (`:1050`). `services/tasks.go:619`, "Only notify if they are
  NEW": an assignee of old whom the form spells otherwise gets the card of a new one. An id that a
  form or an update repeats is told as often, but not one that a comment does.
- README.md:13, Super Admins re-activate accounts: the update asks for an ACTIVE membership
  first (`services/admin.go:853`).
- Saving a profile without a new photo sets `face_s3_uri` to NULL (`services/user.go`).
- README.md:47, the page polls "until it resolves": a row left PROCESSING never does, and a face
  whose enqueue failed stays pending. Transcoded files outlive their attachments.
- README.md:55, "exactly one face": any face will do (`services/rekognition.go:49`).

## What is not modelled

`PROJECT.json` lists every part. Left out as parts: the senders of messages (stateless
calls whose outcome the system never sees), Whisper and ffmpeg (they succeed or fail),
the web pages (requests in any order), deployment (it fixes only how many instances there are), and
`indexlens.go`, a tool that is not part of the server. Modelled in part: signing of
upload URLs and attachments other than audio, which are rows written once;
routing and binding; the Onion queue, as an external library that delivers at least once.
Abstracted inside the models: texts, channels, recipients, error messages, search terms, the layout of CSV
files, equal names of teams, and users of several organisations but in `Accounts` and `Teams`.

## Plan

Done, in this order, the most important behaviour first: `ScorePoints`, `TaskScores` with
`ScoreBook`, `Reminders` with `Recurrence`, `Attendance`, `MediaJobs`, `Teams`, `Accounts`,
`TaskThreads`, `Listings`, `Reports`, `Handoff`; then the proofs of all of them, the lists and reports last, for
which their sorts of sequences gave way to `Queries`.

Next, in order of worth:
1. An abstract specification of a reminder (a chain with one pending end) for `Reminders`
   to implement, and one of a job's promise for `MediaJobs` and `Handoff` to share.
2. Attachments of every kind in `TaskThreads`, beside the transactions that write them.
