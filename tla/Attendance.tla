------------------------------ MODULE Attendance ------------------------------
(***************************************************************************)
(* Attendance by selfie in one organization: MarkAttendance and the        *)
(* switches that gate it (handlers/attendance.go, services/attendance.go), *)
(* the compare_faces job and the nightly batch (worker/tasks/attendance.go)*)
(*                                                                         *)
(* The handler decides by the clock in India, the table dates its rows by  *)
(* CURRENT_DATE, which is UTC: five and a half hours behind.               *)
(***************************************************************************)
EXTENDS Integers, FiniteSets

CONSTANTS
    Users, Requests,
    Teams, TeamsOf, \* the teams of each member: the batch and the reports pass over who has none
    Photos,         \* submitted selfies.  A key submitted again is another of them: no
                    \* two keys are ever compared
    Matching,       \* the selfies Rekognition finds to show their sender
    Minutes,        \* the minutes of the day, in India, at which the clock stops
    MaxDay,         \* bound on the days
    MaxSwitches,    \* bound on what administrators and members switch
    MaxFaults       \* bound on failed calls

ASSUME AttendanceAssumption ==
    /\ TeamsOf \in [Users -> (SUBSET Teams) \ {{}}]
    /\ Matching \subseteq Photos
    /\ Minutes \subseteq 0 .. 1439
    /\ \E m \in Minutes : m < 330   \* the night, in which the two dates differ
    /\ "nobody" \notin Users
    /\ MaxDay \in Nat \ {0} /\ MaxSwitches \in Nat /\ MaxFaults \in Nat

VARIABLES
    day, minute,    \* the clock in India; the day 1 is the first
    enabled,        \* organizations.attendance_enabled
    active,         \* the members with an ACTIVE membership, all in a team
    registered,     \* the members with a registered face
    rec,            \* attendance_record: the row of a member and a date
    req,            \* what each MarkAttendance request is in the middle of
    jobs,           \* the compare_faces jobs on the queue or with a worker
    sent,           \* whose selfies reached the table, and when the handler let them pass
    switches, faults

vars == <<day, minute, enabled, active, registered, rec, req, jobs, sent,
          switches, faults>>

clock   == <<day, minute>>
members == <<enabled, active, registered>>

--------------------------------------------------------------------------------
Dates == 0 .. MaxDay

NoPhoto == "no photo"
NoRow   == [status |-> "none"]
NotSent == [user |-> "nobody"]

\* A row of the batch, or one a member submitted.
AbsentRow    == [status |-> "absent", present |-> "no", target |-> NoPhoto,
                 fulfillment |-> "NULL"]
SubmittedRow == [status : {"pending", "matched", "unmatched"},
                 present : {"NULL", "yes", "no"},
                 target : Photos, fulfillment : {"FULL_DAY", "HALF_DAY"}]
Row == SubmittedRow \cup {AbsentRow}

Job  == [user : Users, date : Dates, photo : Photos]
Mark == [user : Users, photo : Photos, day : 1 .. MaxDay, minute : Minutes]
Sent == [user : Users, day : 1 .. MaxDay, minute : Minutes]

Idle == [pc |-> "idle"]

TypeOK ==
    /\ day \in 1 .. MaxDay /\ minute \in Minutes
    /\ enabled \in BOOLEAN /\ active \subseteq Users /\ registered \subseteq Users
    /\ rec \in [Users -> [Dates -> Row \cup {NoRow}]]
    /\ req \in [Requests -> {Idle} \cup [pc : {"checked"}, mark : Mark]
                                 \cup [pc : {"recorded"}, mark : Mark, job : Job]]
    /\ jobs \subseteq Job
    /\ sent \in [Photos -> Sent \cup {NotSent}]
    /\ switches \in Nat /\ faults \in Nat

\* CURRENT_DATE in the session's time zone, UTC.
CurrentDate == IF minute < 330 THEN day - 1 ELSE day

Init ==
    /\ day = 1 /\ minute \in Minutes
    /\ enabled \in BOOLEAN
    /\ active = Users
    /\ registered \in SUBSET Users
    /\ rec = [u \in Users |-> [d \in Dates |-> NoRow]]
    /\ req = [r \in Requests |-> Idle]
    /\ jobs = {}
    /\ sent = [p \in Photos |-> NotSent]
    /\ switches = 0 /\ faults = 0

\* A request lives for less than a minute: it sees the clock move once at most.
Tick ==
    /\ \A r \in Requests :
        req[r] # Idle => req[r].mark.day = day /\ req[r].mark.minute = minute
    /\ \E m \in Minutes :
        /\ minute' = m
        /\ \/ /\ m > minute /\ \A n \in Minutes : n > minute => m <= n
              /\ day' = day
           \/ /\ \A n \in Minutes : n <= minute /\ m <= n
              /\ day < MaxDay /\ day' = day + 1
    /\ UNCHANGED <<enabled, active, registered, rec, req, jobs, sent, switches, faults>>

--------------------------------------------------------------------------------
(* Switches *)

Switch ==
    /\ switches < MaxSwitches
    /\ switches' = switches + 1
    /\ UNCHANGED <<day, minute, rec, req, jobs, sent, faults>>

SetAttendanceEnabled ==
    /\ Switch
    /\ enabled' = ~enabled
    /\ UNCHANGED <<active, registered>>

\* An administrator suspends a member, or a suspended one accepts a new invitation.
SetMembership(u) ==
    /\ Switch
    /\ active' = IF u \in active THEN active \ {u} ELSE active \cup {u}
    /\ UNCHANGED <<enabled, registered>>

RegisterFace(u) ==
    /\ Switch
    /\ u \in active
    /\ registered' = registered \cup {u}
    /\ UNCHANGED <<enabled, active>>

--------------------------------------------------------------------------------
(* MarkAttendance *)

\* util.AttendanceFulfillment, from the same reading of the clock as the gate.
AttendanceFulfillment(mark) == IF mark.minute < 720 THEN "FULL_DAY" ELSE "HALF_DAY"

\* Mutant: no gate at seven.
OpenAtAnyHour == TRUE

Open == minute >= 420

InFlight == {req[r].mark.photo : r \in {q \in Requests : req[q] # Idle}}

\* The handler's checks, all before its first write.
CheckMark(r, u, p) ==
    /\ req[r] = Idle
    /\ sent[p] = NotSent /\ p \notin InFlight
    /\ u \in active         \* BlockSuspendedUsers
    /\ Open
    /\ enabled
    /\ u \in registered
    /\ req' = [req EXCEPT ![r] = [pc |-> "checked",
                 mark |-> [user |-> u, photo |-> p, day |-> day, minute |-> minute]]]
    /\ UNCHANGED <<clock, members, rec, jobs, sent, switches, faults>>

Present(row) == IF row = NoRow THEN "NULL" ELSE row.present

\* Mutant: a member is present until the comparison says otherwise.
SubmittedOnTrust(row, mark) ==
    [status |-> "pending", target |-> mark.photo, present |-> "yes",
     fulfillment |-> AttendanceFulfillment(mark)]

\* What INSERT ... ON CONFLICT DO UPDATE makes of the row; it leaves present alone.
Submitted(row, mark) ==
    [status |-> "pending", target |-> mark.photo, present |-> Present(row),
     fulfillment |-> AttendanceFulfillment(mark)]

UpsertRecord(r) ==
    /\ req[r].pc = "checked"
    /\ LET mark == req[r].mark
           d    == CurrentDate
       IN  /\ rec' = [rec EXCEPT ![mark.user][d] = Submitted(rec[mark.user][d], mark)]
           /\ req' = [req EXCEPT ![r] =
                [pc |-> "recorded", mark |-> mark,
                 job |-> [user |-> mark.user, date |-> d, photo |-> mark.photo]]]
           /\ sent' = [sent EXCEPT ![mark.photo] =
                [user |-> mark.user, day |-> mark.day, minute |-> mark.minute]]
    /\ UNCHANGED <<clock, members, jobs, switches, faults>>

FailUpsert(r) ==
    /\ req[r].pc = "checked"
    /\ faults < MaxFaults
    /\ faults' = faults + 1
    /\ req' = [req EXCEPT ![r] = Idle]
    /\ UNCHANGED <<clock, members, rec, jobs, sent, switches>>

\* Mutant: the job of a resubmission is taken for the one already there.
EnqueueCompareOnce(r) ==
    /\ req[r].pc = "recorded"
    /\ LET job == req[r].job
       IN  jobs' = IF \E p \in Photos \ {job.photo} :
                        sent[p] # NotSent /\ sent[p].user = job.user
                   THEN jobs ELSE jobs \cup {job}
    /\ req' = [req EXCEPT ![r] = Idle]
    /\ UNCHANGED <<clock, members, rec, sent, switches, faults>>

EnqueueCompare(r) ==
    /\ req[r].pc = "recorded"
    /\ jobs' = jobs \cup {req[r].job}
    /\ req' = [req EXCEPT ![r] = Idle]
    /\ UNCHANGED <<clock, members, rec, sent, switches, faults>>

\* The error of Enqueue is dropped: the caller gets its 202 and the row stays.
FailEnqueue(r) ==
    /\ req[r].pc = "recorded"
    /\ faults < MaxFaults
    /\ faults' = faults + 1
    /\ req' = [req EXCEPT ![r] = Idle]
    /\ UNCHANGED <<clock, members, rec, jobs, sent, switches>>

--------------------------------------------------------------------------------
(* The worker.  Five tasks run at a time, so jobs end in any order. *)

\* Mutant: only a match is written to present.
VerdictOnMatch(row, matched) ==
    [row EXCEPT !.present = IF matched THEN "yes" ELSE @,
                !.status  = IF matched THEN "matched" ELSE "unmatched"]

\* SetResult finds the row by its id alone, whatever photo is its target by now.
Verdict(row, matched) ==
    [row EXCEPT !.present = IF matched THEN "yes" ELSE "no",
                !.status  = IF matched THEN "matched" ELSE "unmatched"]

CompareFaces(job) ==
    /\ job \in jobs
    /\ jobs' = jobs \ {job}
    /\ rec' = [rec EXCEPT ![job.user][job.date] =
                Verdict(rec[job.user][job.date], job.photo \in Matching)]
    /\ UNCHANGED <<clock, members, req, sent, switches, faults>>

\* Rekognition fails and the job counts as unmatched; the write may fail as well,
\* unnoticed.  The task reports the error, and the queue may try it again.
FailCompare(job) ==
    /\ job \in jobs
    /\ faults < MaxFaults
    /\ faults' = faults + 1
    /\ jobs' \in {jobs, jobs \ {job}}
    /\ \/ rec' = [rec EXCEPT ![job.user][job.date] = Verdict(rec[job.user][job.date], FALSE)]
       \/ rec' = rec
    /\ UNCHANGED <<clock, members, req, sent, switches>>

\* Mutant: the batch writes over the rows it finds.
AbsentAnyway(row) == AbsentRow

\* ON CONFLICT DO NOTHING
Absent(row) == IF row = NoRow THEN AbsentRow ELSE row

\* The cron job of 00:01; a run that starts late still ends before half past five.
BatchInsertAbsentAttendance ==
    /\ minute >= 1 /\ minute < 330
    /\ enabled
    /\ rec' = [u \in Users |->
                IF u \in active THEN [rec[u] EXCEPT ![CurrentDate] = Absent(rec[u][CurrentDate])]
                ELSE rec[u]]
    /\ UNCHANGED <<clock, members, req, jobs, sent, switches, faults>>

--------------------------------------------------------------------------------
Done ==
    /\ day = MaxDay /\ \A m \in Minutes : m <= minute
    /\ jobs = {} /\ \A r \in Requests : req[r] = Idle
    /\ UNCHANGED vars

Next ==
    \/ Tick
    \/ SetAttendanceEnabled
    \/ \E u \in Users : SetMembership(u) \/ RegisterFace(u)
    \/ \E r \in Requests :
        \/ \E u \in Users, p \in Photos : CheckMark(r, u, p)
        \/ UpsertRecord(r) \/ FailUpsert(r)
        \/ EnqueueCompare(r) \/ FailEnqueue(r)
    \/ \E job \in Job : CompareFaces(job) \/ FailCompare(job)
    \/ BatchInsertAbsentAttendance
    \/ Done

Spec == Init /\ [][Next]_vars

\* A handler that has begun goes on, and the worker takes every job in the end.
Fairness ==
    /\ \A r \in Requests : WF_vars(UpsertRecord(r)) /\ WF_vars(EnqueueCompare(r))
    /\ \A job \in Job : WF_vars(CompareFaces(job))

FairSpec == Spec /\ Fairness

--------------------------------------------------------------------------------
(* What the pages show *)

\* attendance_status in the queries of the reports.
AttendanceStatus(row) ==
    CASE Present(row) = "NULL" -> "no_record"
      [] Present(row) = "yes"  -> "present"
      [] Present(row) = "no"   -> "absent"

resolveStatus(raw) ==
    IF raw # "no_record" THEN raw
    ELSE IF enabled THEN "absent" ELSE "not_applicable"

resolveFulfillment(status, row) ==
    IF status # "present" \/ row = NoRow THEN "NULL" ELSE row.fulfillment

ReportStatus(u, d)      == resolveStatus(AttendanceStatus(rec[u][d]))
ReportFulfillment(u, d) == resolveFulfillment(ReportStatus(u, d), rec[u][d])

AttendanceRow(u, d) ==
    [user |-> u, date |-> d, status |-> ReportStatus(u, d), fulfillment |-> ReportFulfillment(u, d)]

\* DISTINCT ON: each member once, under one of the teams.
GetOrgAttendanceByDate(d) == {AttendanceRow(u, d) : u \in active}

GetOrgAttendanceByDateAndTeam(d, t) ==
    {AttendanceRow(u, d) : u \in {v \in active : t \in TeamsOf[v]}}

GetOrgAttendance(d, team) ==
    IF team = "ALL" THEN GetOrgAttendanceByDate(d) ELSE GetOrgAttendanceByDateAndTeam(d, team)

\* A row for each day and each of the member's teams.
GetOrgAttendanceRange(from, to) ==
    UNION {{<<t, AttendanceRow(u, d)>> : t \in TeamsOf[u]} : u \in active, d \in from .. to}

GetOrgAttendanceRangeByTeam(from, to, t) ==
    {<<t, AttendanceRow(u, d)>> : u \in {v \in active : t \in TeamsOf[v]}, d \in from .. to}

maxAttendanceRangeDays == 366

validateDateRange(from, to) == from <= to /\ to - from <= maxAttendanceRangeDays

OrgAttendanceRange(from, to, team) ==
    IF ~validateDateRange(from, to) THEN {}
    ELSE IF team = "ALL" THEN GetOrgAttendanceRange(from, to)
    ELSE GetOrgAttendanceRangeByTeam(from, to, team)

DaysOf(u, from, to, present) == {d \in from .. to : Present(rec[u][d]) = present}

GetUserAttendanceSummaryRange(u, from, to) ==
    [present |-> Cardinality(DaysOf(u, from, to, "yes")),
     absent  |-> Cardinality(DaysOf(u, from, to, "no"))]

GetUserAttendanceHistoryRange(u, from, to) == {d \in from .. to : rec[u][d] # NoRow}

\* A day without a verdict yet reads as absent in the history, and is not counted.
GetUserSummary(u, from, to) ==
    IF ~validateDateRange(from, to) THEN [counts |-> [present |-> 0, absent |-> 0], history |-> {}] ELSE
    [counts  |-> GetUserAttendanceSummaryRange(u, from, to),
     history |-> {LET status == IF Present(rec[u][d]) = "yes" THEN "present" ELSE "absent"
                  IN  [date |-> d, status |-> status,
                       fulfillment |-> resolveFulfillment(status, rec[u][d])] :
                    d \in GetUserAttendanceHistoryRange(u, from, to)}]

GetTodayAttendance(u) == rec[u][CurrentDate].status

--------------------------------------------------------------------------------
(* Properties *)

SentOn(u, d) == {p \in Photos : sent[p] # NotSent /\ sent[p].user = u /\ sent[p].day = d}

\* A row that holds a selfie is of the day in India on which the handler let that
\* selfie pass, and gives it the fulfillment of that hour, though the row is dated
\* in UTC and the clock goes on between the check and the write.
MarkedOnItsDay ==
    \A u \in Users, d \in Dates :
        LET row == rec[u][d]
        IN  row # NoRow /\ row.status # "absent" =>
                /\ row.target \in SentOn(u, d)
                /\ row.fulfillment =
                    IF sent[row.target].minute < 720 THEN "FULL_DAY" ELSE "HALF_DAY"

\* Who sent a selfie that reached the table is never on the batch's list of that day.
AbsentMeansNoShow ==
    \A u \in Users, d \in Dates :
        rec[u][d].status = "absent" => SentOn(u, d) = {}

\* The report credits a member with a day only for a selfie of that day that matched,
\* however many were sent, in whatever order their results came in and whatever failed.
PresentIsProven ==
    \A u \in Users, d \in Dates :
        ReportStatus(u, d) = "present" =>
            /\ SentOn(u, d) \cap Matching # {}
            /\ ReportFulfillment(u, d) # "NULL"

\* A member's own summary against the rows that the report of the span shows.
OwnAgrees(u, own, shown) ==
    /\ own.counts.present = Cardinality({r \in shown : r.user = u /\ r.status = "present"})
    /\ own.counts.absent <= Cardinality({r \in shown : r.user = u /\ r.status = "absent"})
    /\ \A h \in own.history : \E r \in shown :
        /\ r.user = u /\ r.date = h.date /\ r.fulfillment = h.fulfillment
        /\ h.status = "present" <=> r.status = "present"

\* The report of a span against those of its days, of each team, and of each member.
SpanAgrees(from, to) ==
    LET span  == OrgAttendanceRange(from, to, "ALL")
        shown == {r[2] : r \in span}
    IN  /\ shown = UNION {GetOrgAttendance(d, "ALL") : d \in from .. to}
        /\ span = UNION {OrgAttendanceRange(from, to, t) : t \in Teams}
        /\ \A d \in from .. to : GetOrgAttendance(d, "ALL") = UNION {GetOrgAttendance(d, t) : t \in Teams}
        /\ \A u \in active : OwnAgrees(u, GetUserSummary(u, from, to), shown)

\* A verdict the member is shown is the one the report shows, and the reports tell
\* one story: of a day or a span that is not refused, of a team or of all, and in a
\* member's own summary, though each comes of a query of its own (attendance.sql,
\* services/attendance.go).
PagesAgree ==
    /\ \A u \in Users, d \in Dates :
        /\ rec[u][d].status = "matched" => ReportStatus(u, d) = "present"
        /\ rec[u][d].status \in {"unmatched", "absent"} => ReportStatus(u, d) = "absent"
    /\ \A from, to \in Dates : validateDateRange(from, to) => SpanAgrees(from, to)

\* Every selfie sent while nothing fails gets its verdict, a resubmission too.
VerdictInTheEnd ==
    \A u \in Users, d \in Dates :
        rec[u][d].status = "pending" ~> rec[u][d].status # "pending" \/ faults > 0
================================================================================
