-------------------------- MODULE WorkerAnswersProofs --------------------------
(***************************************************************************)
(* Theorems about Attendance for any members, selfies, requests and days,  *)
(* and any number of failures; and about Handoff for any jobs, credentials,*)
(* photos and times: what a job is told is the answer to that job, and no  *)
(* stretch of time meets more than two windows of a limiter.               *)
(***************************************************************************)
EXTENDS Attendance, Handoff, QueryLemmas

--------------------------------------------------------------------------------
(* Attendance *)

(***************************************************************************)
(* The inductive invariant.  A request has passed the gate in the day of   *)
(* the date it is about to write; a job, and a row, speak of selfies that  *)
(* were sent on their day.                                                 *)
(***************************************************************************)
SentFor(j) == j.photo \in SentOn(j.user, j.date)

Fulfillment(at) == IF at < 720 THEN "FULL_DAY" ELSE "HALF_DAY"

RequestSound(r) ==
    req[r] # Idle =>
        /\ req[r].mark.day = CurrentDate /\ req[r].mark.minute >= 420
        /\ req[r].pc = "checked" =>
            /\ sent[req[r].mark.photo] = NotSent
            /\ \A q \in Requests \ {r} : req[q] # Idle => req[q].mark.photo # req[r].mark.photo
        /\ req[r].pc = "recorded" => SentFor(req[r].job)

RowSound(u, d) ==
    /\ SentOn(u, d) # {} => rec[u][d] \in SubmittedRow
    /\ rec[u][d] \in SubmittedRow =>
        /\ rec[u][d].target \in SentOn(u, d)
        /\ rec[u][d].fulfillment = Fulfillment(sent[rec[u][d].target].minute)
        /\ rec[u][d].present = "yes" => SentOn(u, d) \cap Matching # {}
        /\ rec[u][d].status = "matched" => rec[u][d].present = "yes"
        /\ rec[u][d].status = "unmatched" => rec[u][d].present = "no"

IInv ==
    /\ TypeOK
    /\ \A r \in Requests : RequestSound(r)
    /\ \A job \in jobs : SentFor(job)
    /\ \A u \in Users, d \in Dates : RowSound(u, d)

Reqs == {Idle} \cup [pc : {"checked"}, mark : Mark] \cup [pc : {"recorded"}, mark : Mark, job : Job]

(***************************************************************************)
(* Dates, requests and rows.                                               *)
(***************************************************************************)

\* The date in UTC is one of the days.
LEMMA DateIsDate ==
    ASSUME TypeOK
    PROVE  CurrentDate \in Dates /\ day \in Int /\ minute \in Int /\ MaxDay \in Nat
BY AttendanceAssumption DEF TypeOK, CurrentDate, Dates

\* What a request that has begun carries.
LEMMA RequestFields ==
    ASSUME NEW q \in Reqs
    PROVE  /\ q # Idle => q.mark \in Mark /\ q.pc \in {"checked", "recorded"}
           /\ q.pc = "checked" => q # Idle
           /\ q.pc = "recorded" => q # Idle /\ q.job \in Job
BY DEF Reqs, Idle

\* The fields of a mark, and those of a job.
LEMMA MarkFields ==
    /\ \A k \in Mark : k.user \in Users /\ k.photo \in Photos /\ k.day \in 1 .. MaxDay /\ k.minute \in Minutes
    /\ \A k \in Job : k.user \in Users /\ k.photo \in Photos /\ k.date \in Dates
BY DEF Mark, Job

\* What a row can be.
LEMMA RowCases ==
    ASSUME NEW row \in Row \cup {NoRow}
    PROVE  /\ row \in SubmittedRow \/ row = AbsentRow \/ row = NoRow
           /\ row \in SubmittedRow => row # NoRow /\ row # AbsentRow /\ row.status \notin {"absent", "none"}
                /\ row.target \in Photos /\ row.fulfillment \in {"FULL_DAY", "HALF_DAY"}
                /\ row.present \in {"NULL", "yes", "no"} /\ row.status \in {"pending", "matched", "unmatched"}
           /\ AbsentRow # NoRow /\ AbsentRow.status = "absent" /\ AbsentRow.present = "no"
BY DEF Row, SubmittedRow, AbsentRow, NoRow

\* No selfie was ever unsent.
SentKept == \A p \in Photos : sent[p] # NotSent => sent'[p] = sent[p]

\* A step that writes no row and sends nothing keeps every row sound.
LEMMA RowsLeft ==
    ASSUME IInv, UNCHANGED <<rec, sent>>
    PROVE  \A u \in Users, d \in Dates : RowSound(u, d)'
BY DEF IInv, RowSound, SentOn

\* A step that sends nothing keeps what jobs are for, and requests that go on at the same date.
LEMMA RequestsLeft ==
    ASSUME IInv, UNCHANGED <<sent, req>>, CurrentDate' = CurrentDate
    PROVE  \A r \in Requests : RequestSound(r)'
BY DEF IInv, RequestSound, SentFor, SentOn

(***************************************************************************)
(* The steps.                                                              *)
(***************************************************************************)

\* The clock: a request sees it move once, within its day in UTC.
LEMMA TickStep ==
    ASSUME IInv, Tick
    PROVE  IInv'
<1>1. UNCHANGED <<enabled, active, registered, rec, req, jobs, sent, switches, faults>>
  BY DEF Tick
<1>2. PICK m \in Minutes :
        /\ minute' = m
        /\ \/ /\ m > minute /\ \A n \in Minutes : n > minute => m <= n
              /\ day' = day
           \/ /\ \A n \in Minutes : n <= minute /\ m <= n
              /\ day < MaxDay /\ day' = day + 1
  BY DEF Tick
<1>3. day \in 1 .. MaxDay /\ minute \in Minutes /\ Minutes \subseteq 0 .. 1439 /\ MaxDay \in Nat
  BY AttendanceAssumption DEF IInv, TypeOK
<1>4. day' \in 1 .. MaxDay /\ minute' \in Minutes
  BY <1>2, <1>3
<1>5. TypeOK'
  BY <1>1, <1>4 DEF IInv, TypeOK
<1>6. ASSUME minute >= 420 PROVE CurrentDate' = day
  <2>1. CASE day' = day
    BY <1>2, <1>3, <1>6, <2>1 DEF CurrentDate
  <2>2. CASE day' = day + 1
    <3>1. PICK n \in Minutes : n < 330
      BY AttendanceAssumption
    <3>2. m <= n
      BY <1>2, <1>3, <2>2
    <3>3. QED
      BY <1>2, <1>3, <2>2, <3>1, <3>2 DEF CurrentDate
  <2>3. QED
    BY <1>2, <2>1, <2>2
<1>7. ASSUME NEW r \in Requests PROVE RequestSound(r)'
  <2>1. RequestSound(r)
    BY DEF IInv
  <2>2. req[r] # Idle => req[r].mark.day = day /\ req[r].mark.minute = minute
    BY DEF Tick
  <2>3. QED
    BY <1>1, <1>6, <2>1, <2>2 DEF RequestSound, SentFor, SentOn
<1>8. \A job \in jobs' : SentFor(job)'
  BY <1>1 DEF IInv, SentFor, SentOn
<1>9. QED
  BY <1>1, <1>5, <1>7, <1>8, RowsLeft DEF IInv

\* The switches, of which no row nor request speaks.
LEMMA SwitchStep ==
    ASSUME IInv, SetAttendanceEnabled \/ \E u \in Users : SetMembership(u) \/ RegisterFace(u)
    PROVE  IInv'
<1>1. UNCHANGED <<day, minute, rec, req, jobs, sent, faults>> /\ switches' = switches + 1
  BY DEF SetAttendanceEnabled, SetMembership, RegisterFace, Switch
<1>2. enabled' \in BOOLEAN /\ active' \subseteq Users /\ registered' \subseteq Users
  BY DEF IInv, TypeOK, SetAttendanceEnabled, SetMembership, RegisterFace
<1>3. TypeOK'
  BY <1>1, <1>2 DEF IInv, TypeOK
<1>4. \A job \in jobs' : SentFor(job)'
  BY <1>1 DEF IInv, SentFor, SentOn
<1>5. QED
  BY <1>1, <1>3, <1>4, RowsLeft, RequestsLeft DEF IInv, CurrentDate

\* The checks of a request: its selfie is sent by nobody else.
LEMMA CheckStep ==
    ASSUME IInv, NEW r \in Requests, NEW u \in Users, NEW p \in Photos, CheckMark(r, u, p)
    PROVE  IInv'
<1> DEFINE q == [pc |-> "checked", mark |-> [user |-> u, photo |-> p, day |-> day, minute |-> minute]]
<1>1. UNCHANGED <<day, minute, enabled, active, registered, rec, jobs, sent, switches, faults>>
  BY DEF CheckMark, clock, members
<1>2. req' = [req EXCEPT ![r] = q] /\ sent[p] = NotSent /\ p \notin InFlight /\ minute >= 420
      /\ req[r] = Idle
  BY DEF CheckMark, Open
<1>3. q \in [pc : {"checked"}, mark : Mark]
  BY DEF IInv, TypeOK, Mark
<1>4. TypeOK' /\ req'[r] = q /\ \A s \in Requests \ {r} : req'[s] = req[s]
  BY <1>1, <1>2, <1>3 DEF IInv, TypeOK
<1>5. \A s \in Requests : req[s] # Idle => req[s].mark.photo # p
  BY <1>2 DEF InFlight
<1>6. CurrentDate = day /\ CurrentDate' = CurrentDate
  BY <1>1, <1>2, DateIsDate, AttendanceAssumption DEF IInv, CurrentDate
<1>7. ASSUME NEW s \in Requests PROVE RequestSound(s)'
  <2>1. CASE s = r
    BY <1>1, <1>2, <1>4, <1>5, <1>6, <2>1 DEF RequestSound
  <2>2. CASE s # r
    <3>1. RequestSound(s) /\ req'[s] = req[s]
      BY <1>4, <2>2 DEF IInv
    <3>2. req[s] # Idle => req[s].mark.photo # req'[r].mark.photo
      BY <1>4, <1>5
    <3>3. QED
      BY <1>1, <1>4, <1>6, <3>1, <3>2 DEF RequestSound, SentFor, SentOn
  <2>3. QED
    BY <2>1, <2>2
<1>8. \A job \in jobs' : SentFor(job)'
  BY <1>1 DEF IInv, SentFor, SentOn
<1>9. QED
  BY <1>1, <1>4, <1>7, <1>8, RowsLeft DEF IInv

\* A row that has been written keeps the selfies of its day; that of another day keeps all.
LEMMA UpsertStep ==
    ASSUME IInv, NEW r \in Requests, UpsertRecord(r)
    PROVE  IInv'
<1>1. req[r] \in Reqs /\ req[r] # Idle /\ req[r].pc = "checked"
  BY RequestFields DEF UpsertRecord, IInv, TypeOK, Reqs
<1>m. PICK mark \in Mark : mark = req[r].mark
  BY <1>1, RequestFields
<1> DEFINE u == mark.user
           d == mark.day
           p == mark.photo
           row == Submitted(rec[u][d], mark)
           at == [user |-> u, day |-> d, minute |-> mark.minute]
           job == [user |-> u, date |-> d, photo |-> p]
           done == [pc |-> "recorded", mark |-> mark, job |-> job]
<1>2. u \in Users /\ p \in Photos /\ d \in Dates /\ d \in 1 .. MaxDay /\ mark.minute \in Minutes
  BY <1>m, MarkFields, AttendanceAssumption DEF Dates
<1>3. CurrentDate = d /\ sent[p] = NotSent /\ mark.minute >= 420
      /\ \A q \in Requests \ {r} : req[q] # Idle => req[q].mark.photo # p
  BY <1>m, <1>1 DEF IInv, RequestSound
<1>4. /\ rec' = [rec EXCEPT ![u][d] = row]
      /\ req' = [req EXCEPT ![r] = done]
      /\ sent' = [sent EXCEPT ![p] = at]
      /\ UNCHANGED <<day, minute, enabled, active, registered, jobs, switches, faults>>
  BY <1>m, <1>3 DEF UpsertRecord, clock, members
<1>5. rec[u][d] \in Row \cup {NoRow}
  BY <1>2 DEF IInv, TypeOK
<1>6. Present(rec[u][d]) \in {"NULL", "yes", "no"}
  BY <1>5, RowCases DEF Present
<1>7. /\ row \in SubmittedRow /\ row.target = p /\ row.fulfillment = Fulfillment(mark.minute)
      /\ row.present = Present(rec[u][d]) /\ row.status = "pending"
  BY <1>2, <1>6 DEF Submitted, SubmittedRow, AttendanceFulfillment, Fulfillment
<1>8. /\ rec' \in [Users -> [Dates -> Row \cup {NoRow}]] /\ rec'[u][d] = row
      /\ \A v \in Users, e \in Dates : v # u \/ e # d => rec'[v][e] = rec[v][e]
  <2>1. row \in Row \cup {NoRow}
    BY <1>7 DEF Row
  <2> HIDE DEF row
  <2>2. QED
    BY <1>2, <1>4, <2>1 DEF IInv, TypeOK
<1>9. at \in Sent /\ at # NotSent /\ at.user = u /\ at.day = d /\ at.minute = mark.minute
  BY <1>2, AttendanceAssumption DEF Sent, NotSent
<1>10. /\ sent' \in [Photos -> Sent \cup {NotSent}] /\ sent'[p] = at
       /\ \A x \in Photos \ {p} : sent'[x] = sent[x]
  <2> HIDE DEF at
  <2>1. QED
    BY <1>2, <1>4, <1>9 DEF IInv, TypeOK
<1>11. /\ job \in Job /\ done \in [pc : {"recorded"}, mark : Mark, job : Job]
       /\ job.user = u /\ job.date = d /\ job.photo = p /\ done.job = job /\ done.mark = mark
       /\ done.pc = "recorded"
  BY <1>2 DEF Job
<1>12. /\ req' \in [Requests -> Reqs] /\ req'[r] = done
       /\ \A s \in Requests \ {r} : req'[s] = req[s]
  <2> HIDE DEF done
  <2>1. QED
    BY <1>4, <1>11 DEF IInv, TypeOK, Reqs
<1> HIDE DEF row, at, job, done, u, d, p
<1>13. TypeOK'
  BY <1>4, <1>8, <1>10, <1>12 DEF IInv, TypeOK, Reqs
<1>14. /\ \A v \in Users, e \in Dates : SentOn(v, e) \subseteq SentOn(v, e)'
       /\ p \in SentOn(u, d)'
       /\ \A v \in Users, e \in Dates : v # u \/ e # d => SentOn(v, e)' = SentOn(v, e)
  <2>1. \A v \in Users, e \in Dates : SentOn(v, e) \subseteq SentOn(v, e)'
    BY <1>3, <1>10 DEF SentOn
  <2>2. p \in SentOn(u, d)'
    BY <1>2, <1>9, <1>10 DEF SentOn
  <2>3. ASSUME NEW v \in Users, NEW e \in Dates, v # u \/ e # d
        PROVE  SentOn(v, e)' = SentOn(v, e)
    BY <1>3, <1>9, <1>10, <2>3 DEF SentOn
  <2>4. QED
    BY <2>1, <2>2, <2>3
<1>15. \A x \in Photos : sent[x] # NotSent => sent'[x] = sent[x]
  BY <1>3, <1>10
<1>16. ASSUME NEW k \in Job, SentFor(k) PROVE SentFor(k)'
  BY <1>14, <1>16, MarkFields DEF SentFor
<1>17. \A k \in jobs' : SentFor(k)'
  BY <1>4, <1>16 DEF IInv, TypeOK
<1>18. ASSUME NEW s \in Requests PROVE RequestSound(s)'
  <2>1. CurrentDate' = CurrentDate
    BY <1>4 DEF CurrentDate
  <2>2. CASE s = r
    BY <1>3, <1>11, <1>12, <1>14, <2>1, <2>2 DEF RequestSound, SentFor, u, d, p
  <2>3. CASE s # r
    <3>1. RequestSound(s) /\ req'[s] = req[s] /\ req[s] \in Reqs
      BY <1>12, <2>3 DEF IInv, TypeOK, Reqs
    <3>2. req[s] # Idle => req[s].mark.photo # p /\ req[s].mark.photo \in Photos
      BY <1>3, <2>3, <3>1, RequestFields, MarkFields DEF p
    <3>3. req[s].pc = "recorded" => req[s].job \in Job
      BY <3>1, RequestFields
    <3>4. req[s] # Idle /\ req[s].pc = "recorded" => SentFor(req[s].job)'
      BY <1>16, <3>1, <3>3 DEF RequestSound
    <3>5. req[s] # Idle /\ req[s].pc = "checked" => sent'[req[s].mark.photo] = NotSent
      BY <1>10, <3>1, <3>2 DEF RequestSound
    <3>6. req[s] # Idle /\ req[s].pc = "checked" =>
            \A q \in Requests \ {s} : req'[q] # Idle => req'[q].mark.photo # req[s].mark.photo
      BY <1>m, <1>1, <1>11, <1>12, <3>1 DEF RequestSound, u, d, p
    <3>7. QED
      BY <2>1, <3>1, <3>4, <3>5, <3>6 DEF RequestSound, SentFor, SentOn
  <2>4. QED
    BY <2>2, <2>3
<1>19. ASSUME NEW v \in Users, NEW e \in Dates PROVE RowSound(v, e)'
  <2>1. CASE v = u /\ e = d
    <3>1. rec'[v][e] = row /\ p \in SentOn(v, e)' /\ sent'[p].minute = mark.minute
      BY <1>8, <1>9, <1>10, <1>14, <2>1
    <3>2. row.present = "yes" => SentOn(v, e)' \cap Matching # {}
      <4>1. row.present = "yes" => rec[u][d] \in SubmittedRow /\ rec[u][d].present = "yes"
        BY <1>5, <1>7, RowCases DEF Present
      <4>2. RowSound(u, d)
        BY <1>2 DEF IInv
      <4>3. row.present = "yes" => SentOn(u, d) \cap Matching # {}
        BY <4>1, <4>2 DEF RowSound
      <4>4. QED
        BY <1>2, <1>14, <2>1, <4>3
    <3>3. QED
      BY <1>7, <3>1, <3>2 DEF RowSound
  <2>2. CASE v # u \/ e # d
    <3>1. RowSound(v, e) /\ rec'[v][e] = rec[v][e] /\ SentOn(v, e)' = SentOn(v, e)
      BY <1>8, <1>14, <2>2 DEF IInv
    <3>2. rec[v][e].target \in SentOn(v, e) => sent'[rec[v][e].target] = sent[rec[v][e].target]
      BY <1>15 DEF SentOn
    <3>3. QED
      BY <3>1, <3>2 DEF RowSound
  <2>3. QED
    BY <2>1, <2>2
<1>20. QED
  BY <1>13, <1>17, <1>18, <1>19 DEF IInv

\* A request that ends leaves a job for a selfie that was sent, or none.
LEMMA EndStep ==
    ASSUME IInv, NEW r \in Requests, FailUpsert(r) \/ EnqueueCompare(r) \/ FailEnqueue(r)
    PROVE  IInv'
<1>1. req' = [req EXCEPT ![r] = Idle]
      /\ UNCHANGED <<day, minute, enabled, active, registered, rec, sent, switches>>
  BY DEF FailUpsert, EnqueueCompare, FailEnqueue, clock, members
<1>2. faults' \in Nat
  <2>1. faults' = faults \/ faults' = faults + 1
    BY DEF FailUpsert, EnqueueCompare, FailEnqueue
  <2>2. QED
    BY <2>1 DEF IInv, TypeOK
<1>3. req' \in [Requests -> Reqs] /\ req'[r] = Idle /\ \A s \in Requests \ {r} : req'[s] = req[s]
  BY <1>1 DEF IInv, TypeOK, Reqs
<1>4. jobs' \subseteq Job /\ \A k \in jobs' : SentFor(k)
  <2>1. CASE jobs' = jobs
    BY <2>1 DEF IInv, TypeOK
  <2>2. CASE EnqueueCompare(r)
    <3>1. req[r] \in Reqs /\ req[r].pc = "recorded" /\ jobs' = jobs \cup {req[r].job} /\ RequestSound(r)
      BY <2>2 DEF EnqueueCompare, IInv, TypeOK, Reqs
    <3>2. req[r].job \in Job /\ SentFor(req[r].job)
      BY <3>1, RequestFields DEF RequestSound
    <3>3. QED
      BY <3>1, <3>2 DEF IInv, TypeOK
  <2>3. QED
    BY <2>1, <2>2 DEF FailUpsert, FailEnqueue
<1>5. TypeOK'
  BY <1>1, <1>2, <1>3, <1>4 DEF IInv, TypeOK, Reqs
<1>6. \A k \in jobs' : SentFor(k)'
  BY <1>1, <1>4 DEF SentFor, SentOn
<1>7. ASSUME NEW s \in Requests PROVE RequestSound(s)'
  <2>1. CASE s = r
    BY <1>3, <2>1 DEF RequestSound
  <2>2. CASE s # r
    <3>1. RequestSound(s) /\ req'[s] = req[s] /\ CurrentDate' = CurrentDate
      BY <1>1, <1>3, <2>2 DEF IInv, CurrentDate
    <3>2. QED
      BY <1>1, <1>3, <3>1 DEF RequestSound, SentFor, SentOn
  <2>3. QED
    BY <2>1, <2>2
<1>8. QED
  BY <1>1, <1>5, <1>6, <1>7, RowsLeft DEF IInv

\* A verdict is written over a row that a selfie of its day is in; it is a match only
\* for a selfie that matched.
LEMMA CompareStep ==
    ASSUME IInv, NEW job \in Job, CompareFaces(job) \/ FailCompare(job)
    PROVE  IInv'
<1> DEFINE u == job.user
           d == job.date
<1>1. /\ job \in jobs /\ u \in Users /\ d \in Dates /\ job.photo \in SentOn(u, d)
      /\ UNCHANGED <<day, minute, enabled, active, registered, req, sent, switches>>
      /\ jobs' \subseteq jobs
  BY MarkFields DEF CompareFaces, FailCompare, IInv, SentFor, clock, members
<1>2. faults' \in Nat
  <2>1. faults' = faults \/ faults' = faults + 1
    BY DEF CompareFaces, FailCompare
  <2>2. QED
    BY <2>1 DEF IInv, TypeOK
<1>3. rec[u][d] \in SubmittedRow /\ RowSound(u, d)
  BY <1>1 DEF IInv, RowSound
<1>4. ASSUME NEW matched \in BOOLEAN, matched => job.photo \in Matching,
             rec' = [rec EXCEPT ![u][d] = Verdict(rec[u][d], matched)]
      PROVE  /\ rec' \in [Users -> [Dates -> Row \cup {NoRow}]]
             /\ \A v \in Users, e \in Dates : RowSound(v, e)'
  <2> DEFINE row == Verdict(rec[u][d], matched)
  <2>1. /\ row \in SubmittedRow /\ row.target = rec[u][d].target
        /\ row.fulfillment = rec[u][d].fulfillment /\ (row.present = "yes" => matched)
        /\ (row.status = "matched" => row.present = "yes")
        /\ (row.status = "unmatched" => row.present = "no")
    BY <1>3, <1>4 DEF Verdict, SubmittedRow
  <2>2. rec' = [rec EXCEPT ![u][d] = row] /\ row \in Row \cup {NoRow}
    BY <1>4, <2>1 DEF Row
  <2> HIDE DEF row, u, d
  <2>3. /\ rec' \in [Users -> [Dates -> Row \cup {NoRow}]] /\ rec'[u][d] = row
        /\ \A v \in Users, e \in Dates : v # u \/ e # d => rec'[v][e] = rec[v][e]
    BY <1>1, <2>2 DEF IInv, TypeOK
  <2>4. ASSUME NEW v \in Users, NEW e \in Dates PROVE RowSound(v, e)'
    <3>1. SentOn(v, e)' = SentOn(v, e)
      BY <1>1 DEF SentOn
    <3>2. CASE v = u /\ e = d
      BY <1>1, <1>3, <1>4, <2>1, <2>3, <3>1, <3>2 DEF RowSound
    <3>3. CASE v # u \/ e # d
      BY <1>1, <2>3, <3>1, <3>3 DEF IInv, RowSound
    <3>4. QED
      BY <3>2, <3>3
  <2>5. QED
    BY <2>3, <2>4
<1>5. rec' \in [Users -> [Dates -> Row \cup {NoRow}]] /\ \A v \in Users, e \in Dates : RowSound(v, e)'
  <2>1. CASE CompareFaces(job)
    <3>1. rec' = [rec EXCEPT ![u][d] = Verdict(rec[u][d], job.photo \in Matching)]
      BY <2>1 DEF CompareFaces
    <3>2. (job.photo \in Matching) \in BOOLEAN
      OBVIOUS
    <3>3. QED
      BY <1>4, <3>1, <3>2
  <2>2. CASE FailCompare(job)
    <3>1. rec' = rec \/ rec' = [rec EXCEPT ![u][d] = Verdict(rec[u][d], FALSE)]
      BY <2>2 DEF FailCompare
    <3>2. CASE rec' = rec
      BY <1>1, <3>2, RowsLeft DEF IInv, TypeOK
    <3>3. QED
      BY <1>4, <3>1, <3>2
  <2>3. QED
    BY <2>1, <2>2
<1>6. TypeOK'
  BY <1>1, <1>2, <1>5 DEF IInv, TypeOK
<1>7. \A k \in jobs' : SentFor(k)'
  BY <1>1 DEF IInv, SentFor, SentOn
<1>8. QED
  BY <1>1, <1>5, <1>6, <1>7, RequestsLeft DEF IInv, CurrentDate

\* The batch writes where there is no row, and so no selfie.
LEMMA BatchStep ==
    ASSUME IInv, BatchInsertAbsentAttendance
    PROVE  IInv'
<1>1. UNCHANGED <<day, minute, enabled, active, registered, req, jobs, sent, switches, faults>>
  BY DEF BatchInsertAbsentAttendance, clock, members
<1>2. ASSUME NEW u \in Users
      PROVE  /\ rec'[u] \in [Dates -> Row \cup {NoRow}]
             /\ \A d \in Dates : rec'[u][d] = rec[u][d] \/ (rec[u][d] = NoRow /\ rec'[u][d] = AbsentRow)
  <2>1. rec[u] \in [Dates -> Row \cup {NoRow}] /\ AbsentRow \in Row /\ CurrentDate \in Dates
    BY DateIsDate DEF IInv, TypeOK, Row
  <2>2. rec'[u] = rec[u] \/ rec'[u] = [rec[u] EXCEPT ![CurrentDate] =
                                          IF rec[u][CurrentDate] = NoRow THEN AbsentRow ELSE rec[u][CurrentDate]]
    BY DEF BatchInsertAbsentAttendance, Absent
  <2> HIDE DEF AbsentRow, NoRow
  <2>3. QED
    BY <2>1, <2>2
<1>3. rec' \in [Users -> [Dates -> Row \cup {NoRow}]]
  BY <1>2 DEF BatchInsertAbsentAttendance
<1>4. TypeOK'
  BY <1>1, <1>3 DEF IInv, TypeOK
<1>5. ASSUME NEW u \in Users, NEW d \in Dates PROVE RowSound(u, d)'
  <2>1. RowSound(u, d) /\ SentOn(u, d)' = SentOn(u, d)
    BY <1>1 DEF IInv, SentOn
  <2>2. CASE rec'[u][d] = rec[u][d]
    BY <1>1, <2>1, <2>2 DEF RowSound
  <2>3. CASE rec[u][d] = NoRow /\ rec'[u][d] = AbsentRow
    <3>1. NoRow \notin SubmittedRow /\ AbsentRow \notin SubmittedRow
      BY DEF NoRow, AbsentRow, SubmittedRow
    <3>2. QED
      BY <2>1, <2>3, <3>1 DEF RowSound
  <2>4. QED
    BY <1>2, <2>2, <2>3
<1>6. \A k \in jobs' : SentFor(k)'
  BY <1>1 DEF IInv, SentFor, SentOn
<1>7. QED
  BY <1>1, <1>4, <1>5, <1>6, RequestsLeft DEF IInv, CurrentDate

(***************************************************************************)
(* The theorems.                                                           *)
(***************************************************************************)

\* The invariant holds at the start: there is no row and no selfie.
LEMMA InitInv == Init => IInv
<1> SUFFICES ASSUME Init PROVE IInv
  OBVIOUS
<1>1. TypeOK
  BY AttendanceAssumption DEF Init, TypeOK
<1>2. NoRow \notin SubmittedRow
  BY DEF NoRow, SubmittedRow
<1>3. ASSUME NEW u \in Users, NEW d \in Dates PROVE RowSound(u, d)
  <2>1. SentOn(u, d) = {} /\ rec[u][d] = NoRow
    BY DEF Init, SentOn
  <2>2. QED
    BY <1>2, <2>1 DEF RowSound
<1>4. \A r \in Requests : RequestSound(r)
  BY DEF Init, RequestSound
<1>5. QED
  BY <1>1, <1>3, <1>4 DEF IInv, Init

\* The invariant is kept by every step.
LEMMA Inductive == IInv /\ [Next]_vars => IInv'
<1> SUFFICES ASSUME IInv, [Next]_vars PROVE IInv'
  OBVIOUS
<1>1. ASSUME UNCHANGED vars PROVE IInv'
  <2>1. UNCHANGED <<day, minute, enabled, active, registered, rec, req, jobs, sent, switches, faults>>
    BY <1>1 DEF vars
  <2>2. TypeOK' /\ \A k \in jobs' : SentFor(k)'
    BY <2>1 DEF IInv, TypeOK, SentFor, SentOn
  <2>3. QED
    BY <2>1, <2>2, RowsLeft, RequestsLeft DEF IInv, CurrentDate
<1>2. CASE Next
  <2>1. CASE Done
    BY <1>1, <2>1 DEF Done
  <2>2. QED
    BY <1>2, <2>1, TickStep, SwitchStep, CheckStep, UpsertStep, EndStep, CompareStep, BatchStep DEF Next
<1>3. QED
  BY <1>1, <1>2

\* The invariant holds in every state of every behaviour.
THEOREM Invariance == Spec => []IInv
BY InitInv, Inductive, PTL DEF Spec

\* The types of the variables.
THEOREM TypeCorrect == Spec => []TypeOK
<1>1. IInv => TypeOK
  BY DEF IInv
<1>2. QED
  BY <1>1, Invariance, PTL

\* Although the gate goes by India and the row by UTC, a row is of the day, and gives
\* the fulfillment of the hour, at which its selfie was let pass.
THEOREM RowsAreOfTheirDay == Spec => []MarkedOnItsDay
<1>1. ASSUME IInv, NEW u \in Users, NEW d \in Dates, rec[u][d] # NoRow, rec[u][d].status # "absent"
      PROVE  /\ rec[u][d].target \in SentOn(u, d)
             /\ rec[u][d].fulfillment =
                    IF sent[rec[u][d].target].minute < 720 THEN "FULL_DAY" ELSE "HALF_DAY"
  <2>1. rec[u][d] \in SubmittedRow
    BY <1>1, RowCases DEF IInv, TypeOK
  <2>2. QED
    BY <1>1, <2>1 DEF IInv, RowSound, Fulfillment
<1>2. IInv => MarkedOnItsDay
  BY <1>1 DEF MarkedOnItsDay
<1>3. QED
  BY <1>2, Invariance, PTL

\* Nobody whose selfie reached the table is on the batch's list of that day.
THEOREM NoShowsAreAbsent == Spec => []AbsentMeansNoShow
<1>1. ASSUME IInv, NEW u \in Users, NEW d \in Dates, rec[u][d].status = "absent"
      PROVE  SentOn(u, d) = {}
  <2>1. rec[u][d] \notin SubmittedRow
    BY <1>1 DEF SubmittedRow
  <2>2. QED
    BY <1>1, <2>1 DEF IInv, RowSound
<1>2. IInv => AbsentMeansNoShow
  BY <1>1 DEF AbsentMeansNoShow
<1>3. QED
  BY <1>2, Invariance, PTL

\* A day is credited only for a selfie of that day that matched, in whatever order
\* results come in.
THEOREM CreditIsProven == Spec => []PresentIsProven
<1>1. ASSUME IInv, NEW u \in Users, NEW d \in Dates, ReportStatus(u, d) = "present"
      PROVE  SentOn(u, d) \cap Matching # {} /\ ReportFulfillment(u, d) # "NULL"
  <2>1. rec[u][d] \in Row \cup {NoRow}
    BY <1>1 DEF IInv, TypeOK
  <2>2. Present(rec[u][d]) \in {"NULL", "yes", "no"}
    BY <2>1, RowCases DEF Present
  <2>3. Present(rec[u][d]) = "yes"
    BY <1>1, <2>2 DEF ReportStatus, resolveStatus, AttendanceStatus
  <2>4. rec[u][d] \in SubmittedRow /\ rec[u][d].present = "yes"
    BY <2>1, <2>3, RowCases DEF Present
  <2>5. rec[u][d] # NoRow /\ rec[u][d].fulfillment # "NULL"
    BY <2>1, <2>4, RowCases
  <2>6. QED
    BY <1>1, <2>4, <2>5 DEF IInv, RowSound, ReportFulfillment, resolveFulfillment
<1>2. IInv => PresentIsProven
  BY <1>1 DEF PresentIsProven
<1>3. QED
  BY <1>2, Invariance, PTL

(***************************************************************************)
(* What the pages show.                                                    *)
(***************************************************************************)

\* What a report makes of a row.
LEMMA Told ==
    ASSUME TypeOK, NEW u \in Users, NEW d \in Dates
    PROVE  /\ Present(rec[u][d]) \in {"NULL", "yes", "no"}
           /\ ReportStatus(u, d) = "present" <=> Present(rec[u][d]) = "yes"
           /\ Present(rec[u][d]) = "no" => ReportStatus(u, d) = "absent"
<1>1. rec[u][d] \in Row \cup {NoRow}
  BY DEF TypeOK
<1>2. Present(rec[u][d]) \in {"NULL", "yes", "no"}
  BY <1>1, RowCases DEF Present
<1>3. QED
  BY <1>2 DEF ReportStatus, AttendanceStatus, resolveStatus

\* The rows all reports of the span from \o to choose from.
RowsOf(from, to) == {AttendanceRow(u, d) : u \in active, d \in from .. to}

\* A member's teams are teams, and there is one.
LEMMA InATeam ==
    ASSUME TypeOK, NEW u \in active
    PROVE  u \in Users /\ TeamsOf[u] \subseteq Teams /\ \E t \in Teams : t \in TeamsOf[u]
BY AttendanceAssumption DEF TypeOK

\* The days of a span are dates.
LEMMA SpanOfDates ==
    ASSUME NEW from \in Dates, NEW to \in Dates
    PROVE  from .. to \subseteq Dates /\ from \in Int /\ to \in Int
BY AttendanceAssumption DEF Dates

\* What the report of a span has of a member's day, team by team.
CellsOf(u, d) == {<<t, AttendanceRow(u, d)>> : t \in TeamsOf[u]}

\* The report of a span has that of each member's day.
LEMMA SpanIs ==
    ASSUME NEW from \in Dates, NEW to \in Dates, validateDateRange(from, to)
    PROVE  \A x : x \in OrgAttendanceRange(from, to, "ALL") <=>
                    \E u \in active, d \in from .. to : x \in CellsOf(u, d)
<1>1. OrgAttendanceRange(from, to, "ALL") = UNION {CellsOf(u, d) : u \in active, d \in from .. to}
  BY DEF OrgAttendanceRange, GetOrgAttendanceRange, CellsOf
<1>2. QED
  BY <1>1

\* The report of a span shows each of its rows.
LEMMA SpanShows ==
    ASSUME TypeOK, NEW from \in Dates, NEW to \in Dates, validateDateRange(from, to)
    PROVE  {r[2] : r \in OrgAttendanceRange(from, to, "ALL")} = RowsOf(from, to)
<1>1. ASSUME NEW r \in OrgAttendanceRange(from, to, "ALL") PROVE r[2] \in RowsOf(from, to)
  BY SpanIs DEF RowsOf, CellsOf
<1>2. ASSUME NEW row \in RowsOf(from, to)
      PROVE  \E r \in OrgAttendanceRange(from, to, "ALL") : row = r[2]
  <2>1. PICK u \in active, d \in from .. to : row = AttendanceRow(u, d)
    BY DEF RowsOf
  <2>2. PICK t \in TeamsOf[u] : TRUE
    BY InATeam
  <2>3. <<t, row>> \in CellsOf(u, d)
    BY <2>1 DEF CellsOf
  <2>4. <<t, row>> \in OrgAttendanceRange(from, to, "ALL")
    BY <2>3, SpanIs
  <2>5. QED
    BY <2>4
<1>3. QED
  BY <1>1, <1>2

\* The reports of the days of a span show each of its rows.
LEMMA DaysShow ==
    ASSUME NEW from \in Dates, NEW to \in Dates
    PROVE  RowsOf(from, to) = UNION {GetOrgAttendance(d, "ALL") : d \in from .. to}
BY DEF RowsOf, GetOrgAttendance, GetOrgAttendanceByDate

\* The report of a span is made of those of its teams.
LEMMA TeamsShowTheSpan ==
    ASSUME TypeOK, NEW from \in Dates, NEW to \in Dates, validateDateRange(from, to)
    PROVE  OrgAttendanceRange(from, to, "ALL") = UNION {OrgAttendanceRange(from, to, t) : t \in Teams}
<1>1. ASSUME NEW t, t # "ALL", NEW x
      PROVE  x \in OrgAttendanceRange(from, to, t) <=>
                \E u \in active, d \in from .. to : t \in TeamsOf[u] /\ x = <<t, AttendanceRow(u, d)>>
  BY <1>1 DEF OrgAttendanceRange, GetOrgAttendanceRangeByTeam
<1>2. ASSUME NEW x \in OrgAttendanceRange(from, to, "ALL")
      PROVE  \E t \in Teams : x \in OrgAttendanceRange(from, to, t)
  <2>1. PICK u \in active, d \in from .. to : x \in CellsOf(u, d)
    BY SpanIs
  <2>2. PICK t \in TeamsOf[u] : x = <<t, AttendanceRow(u, d)>>
    BY <2>1 DEF CellsOf
  <2>3. t \in Teams
    BY InATeam
  <2>4. t # "ALL" => x \in OrgAttendanceRange(from, to, t)
    BY <1>1, <2>2
  <2>5. QED
    BY <2>3, <2>4
<1>3. ASSUME NEW t \in Teams, NEW x \in OrgAttendanceRange(from, to, t)
      PROVE  x \in OrgAttendanceRange(from, to, "ALL")
  <2>1. CASE t = "ALL"
    BY <2>1
  <2>2. CASE t # "ALL"
    <3>1. PICK u \in active, d \in from .. to : t \in TeamsOf[u] /\ x = <<t, AttendanceRow(u, d)>>
      BY <1>1, <2>2
    <3>2. x \in CellsOf(u, d)
      BY <3>1 DEF CellsOf
    <3>3. QED
      BY <3>2, SpanIs
  <2>3. QED
    BY <2>1, <2>2
<1>4. QED
  BY <1>2, <1>3

\* The report of a day is made of those of its teams.
LEMMA TeamsShowTheDay ==
    ASSUME TypeOK, NEW d
    PROVE  GetOrgAttendance(d, "ALL") = UNION {GetOrgAttendance(d, t) : t \in Teams}
<1>1. ASSUME NEW row \in GetOrgAttendance(d, "ALL")
      PROVE  \E t \in Teams : row \in GetOrgAttendance(d, t)
  <2>1. PICK u \in active : row = AttendanceRow(u, d)
    BY DEF GetOrgAttendance, GetOrgAttendanceByDate
  <2>2. PICK t \in Teams : t \in TeamsOf[u]
    BY InATeam
  <2>3. row \in GetOrgAttendance(d, t)
    BY <2>1, <2>2 DEF GetOrgAttendance, GetOrgAttendanceByDate, GetOrgAttendanceByDateAndTeam
  <2>4. QED
    BY <2>2, <2>3
<1>2. ASSUME NEW t \in Teams, NEW row \in GetOrgAttendance(d, t)
      PROVE  row \in GetOrgAttendance(d, "ALL")
  BY DEF GetOrgAttendance, GetOrgAttendanceByDate, GetOrgAttendanceByDateAndTeam
<1>3. QED
  BY <1>1, <1>2

\* A member's own summary counts the days the report credits, and no day as absent that
\* the report does not, and its history has the report's word for each day.
LEMMA OwnSummaryAgrees ==
    ASSUME TypeOK, NEW from \in Dates, NEW to \in Dates, validateDateRange(from, to), NEW u \in active
    PROVE  OwnAgrees(u, GetUserSummary(u, from, to), RowsOf(from, to))
<1> DEFINE own == GetUserSummary(u, from, to)
           shown == RowsOf(from, to)
           credited == {r \in shown : r.user = u /\ r.status = "present"}
           missed == {r \in shown : r.user = u /\ r.status = "absent"}
           yes == DaysOf(u, from, to, "yes")
           no == DaysOf(u, from, to, "no")
<1>1. u \in Users /\ from .. to \subseteq Dates /\ IsFiniteSet(from .. to)
  BY InATeam, SpanOfDates, FS_Interval
<1>2. yes \subseteq from .. to /\ no \subseteq from .. to /\ IsFiniteSet(yes) /\ IsFiniteSet(no)
  BY <1>1, FS_Subset DEF DaysOf
<1>3. \A d \in from .. to : /\ AttendanceRow(u, d) \in shown
                            /\ AttendanceRow(u, d).user = u /\ AttendanceRow(u, d).date = d
                            /\ AttendanceRow(u, d).status = ReportStatus(u, d)
                            /\ AttendanceRow(u, d).fulfillment = ReportFulfillment(u, d)
  BY DEF RowsOf, AttendanceRow
<1>4. \A r \in shown : r.user = u => \E d \in from .. to : r = AttendanceRow(u, d)
  BY DEF RowsOf, AttendanceRow
<1>5. own = [counts |-> [present |-> Cardinality(yes), absent |-> Cardinality(no)],
             history |-> {LET status == IF Present(rec[u][d]) = "yes" THEN "present" ELSE "absent"
                          IN  [date |-> d, status |-> status,
                               fulfillment |-> resolveFulfillment(status, rec[u][d])] :
                            d \in GetUserAttendanceHistoryRange(u, from, to)}]
  BY DEF GetUserSummary, GetUserAttendanceSummaryRange
<1>6. own.counts.present = Cardinality(yes) /\ own.counts.absent = Cardinality(no)
  BY <1>5
<1> HIDE DEF own
<1>7. Cardinality(yes) = Cardinality(credited)
  <2> DEFINE f == [d \in yes |-> AttendanceRow(u, d)]
  <2>1. ASSUME NEW d \in yes PROVE f[d] \in credited
    BY <1>1, <1>2, <1>3, Told DEF DaysOf
  <2>2. ASSUME NEW r \in credited PROVE \E d \in yes : f[d] = r
    <3>1. PICK d \in from .. to : r = AttendanceRow(u, d)
      BY <1>4
    <3>2. d \in yes
      BY <1>1, <1>3, <3>1, Told DEF DaysOf
    <3>3. QED
      BY <3>1, <3>2
  <2>3. \A d, e \in yes : f[d] = f[e] => d = e
    BY <1>2, <1>3
  <2> HIDE DEF yes, credited
  <2>4. f \in [yes -> credited]
    BY <2>1
  <2> HIDE DEF f
  <2>5. f \in Bijection(yes, credited)
    BY <2>2, <2>3, <2>4, Fun_IsBij
  <2>6. QED
    BY <1>2, <2>5, FS_Bijection DEF ExistsBijection
<1>8. Cardinality(no) <= Cardinality(missed)
  <2> DEFINE f == [d \in no |-> AttendanceRow(u, d)]
             g == [d \in from .. to |-> AttendanceRow(u, d)]
             own_rows == {r \in shown : r.user = u}
  <2>1. ASSUME NEW d \in no PROVE f[d] \in missed
    BY <1>1, <1>2, <1>3, Told DEF DaysOf
  <2>2. \A d, e \in no : f[d] = f[e] => d = e
    BY <1>2, <1>3
  <2>3. g \in Surjection(from .. to, own_rows)
    BY <1>3, <1>4 DEF Surjection
  <2>4. IsFiniteSet(missed)
    <3>1. IsFiniteSet(own_rows)
      BY <1>1, <2>3, FS_Surjection
    <3>2. missed \subseteq own_rows
      OBVIOUS
    <3> HIDE DEF missed, own_rows
    <3>3. QED
      BY <3>1, <3>2, FS_Subset
  <2> HIDE DEF no, missed
  <2>5. f \in [no -> missed]
    BY <2>1
  <2> HIDE DEF f
  <2>6. f \in Injection(no, missed)
    BY <2>2, <2>5 DEF Injection, IsInjective
  <2>7. QED
    BY <2>4, <2>6, FS_Injection
<1>9. ASSUME NEW h \in own.history
      PROVE  \E r \in shown : /\ r.user = u /\ r.date = h.date /\ r.fulfillment = h.fulfillment
                              /\ h.status = "present" <=> r.status = "present"
  <2>1. PICK d \in GetUserAttendanceHistoryRange(u, from, to) :
            LET status == IF Present(rec[u][d]) = "yes" THEN "present" ELSE "absent"
            IN  h = [date |-> d, status |-> status, fulfillment |-> resolveFulfillment(status, rec[u][d])]
    BY <1>5
  <2>2. d \in from .. to
    BY DEF GetUserAttendanceHistoryRange
  <2>3. h.status = "present" <=> ReportStatus(u, d) = "present"
    BY <1>1, <2>1, <2>2, Told
  <2>4. h.fulfillment = ReportFulfillment(u, d)
    BY <1>1, <2>1, <2>2, Told DEF ReportFulfillment, resolveFulfillment
  <2>5. h.date = d
    BY <2>1
  <2>6. QED
    BY <1>3, <2>2, <2>3, <2>4, <2>5
<1>10. QED
  BY <1>6, <1>7, <1>8, <1>9 DEF own, OwnAgrees

\* The reports tell one story of every day and span, for any number of members, teams and
\* days: whatever the queries join and count, it comes to the same rows.
THEOREM ReportsTellOneStory == Spec => []PagesAgree
<1>1. ASSUME IInv, NEW u \in Users, NEW d \in Dates
      PROVE  /\ rec[u][d].status = "matched" => ReportStatus(u, d) = "present"
             /\ rec[u][d].status \in {"unmatched", "absent"} => ReportStatus(u, d) = "absent"
  <2>1. rec[u][d] \in Row \cup {NoRow} /\ RowSound(u, d) /\ TypeOK
    BY <1>1 DEF IInv, TypeOK
  <2>2. NoRow.status = "none"
    BY DEF NoRow
  <2>3. /\ rec[u][d].status = "matched" => Present(rec[u][d]) = "yes"
        /\ rec[u][d].status \in {"unmatched", "absent"} => Present(rec[u][d]) = "no"
    BY <2>1, <2>2, RowCases DEF RowSound, Present
  <2>4. QED
    BY <2>1, <2>3, Told
<1>2. ASSUME IInv, NEW from \in Dates, NEW to \in Dates, validateDateRange(from, to)
      PROVE  SpanAgrees(from, to)
  <2> DEFINE span == OrgAttendanceRange(from, to, "ALL")
             shown == {r[2] : r \in span}
  <2>1. TypeOK
    BY <1>2 DEF IInv
  <2>2. shown = RowsOf(from, to)
    BY <1>2, <2>1, SpanShows
  <2>3. shown = UNION {GetOrgAttendance(d, "ALL") : d \in from .. to}
    BY <2>2, DaysShow
  <2>4. span = UNION {OrgAttendanceRange(from, to, t) : t \in Teams}
    BY <1>2, <2>1, TeamsShowTheSpan
  <2>5. \A d \in from .. to : GetOrgAttendance(d, "ALL") = UNION {GetOrgAttendance(d, t) : t \in Teams}
    BY <2>1, TeamsShowTheDay
  <2>6. \A u \in active : OwnAgrees(u, GetUserSummary(u, from, to), shown)
    BY <1>2, <2>1, <2>2, OwnSummaryAgrees
  <2>7. QED
    BY <2>3, <2>4, <2>5, <2>6, Zenon DEF SpanAgrees
<1>3. IInv => PagesAgree
  BY <1>1, <1>2 DEF PagesAgree
<1>4. QED
  BY <1>3, Invariance, PTL

--------------------------------------------------------------------------------
(* Handoff *)

HandoffSpec == HandoffInit /\ [][HandoffNext]_handoff

(***************************************************************************)
(* The inductive invariant: the row, the message and the ticket of a job   *)
(* speak of one job, and the row outlives the login that polls it.         *)
(***************************************************************************)
KVRow  == [value : {"none", "yes", "no"}, count : Nat, ttl : Int]
Ticket == [kind : Kinds \cup {"none"}, thing : Things \cup {"none"},
           phase : {"free", "asked", "waiting", "ended"},
           answer : {"none", "yes", "no", "late"}, waited : Nat]

HandoffTypeOK ==
    /\ kv \in [{"auth", "cost"} \cup Tickets -> KVRow]
    /\ ticket \in [Tickets -> Ticket]
    /\ queue \in [Tickets -> Nat]
    /\ failures \in Nat
    /\ route \in Kinds

\* A job not enqueued yet has neither a message nor a row.
Unbegun(j) ==
    ticket[j].phase \in {"free", "asked"} =>
        queue[j] = 0 /\ kv[j] = Absence /\ ticket[j].answer = "none"

\* What is written of a job was found of its thing, or stands for a failure.
Found(j, answer) ==
    /\ answer = "yes" => ticket[j].thing \in Genuine
    /\ answer = "no" => ticket[j].thing \notin Genuine \/ failures > 0

\* The answer is left for longer than the login still polls.
Readable(j) ==
    kv[j] # Absence =>
        /\ kv[j].value # "none"
        /\ Polls(j) /\ ticket[j].waited < Wait => kv[j].ttl >= AnswerTTL - ticket[j].waited

Good(j) == Unbegun(j) /\ Found(j, kv[j].value) /\ Found(j, ticket[j].answer) /\ Readable(j)

HandoffInv == HandoffTypeOK /\ \A j \in Tickets : Good(j)

(***************************************************************************)
(* Of two numbers.                                                         *)
(***************************************************************************)

\* The larger of two is one of them and not below either.
LEMMA MaxOfTwo ==
    ASSUME NEW a \in Int, NEW b \in Int
    PROVE  Max({a, b}) \in {a, b} /\ Max({a, b}) \in Int /\ Max({a, b}) >= a /\ Max({a, b}) >= b
<1>1. \E x \in {a, b} : \A y \in {a, b} : x >= y
  <2>1. CASE a >= b
    BY <2>1
  <2>2. CASE b >= a
    BY <2>2
  <2>3. QED
    BY <2>1, <2>2
<1>2. QED
  BY <1>1 DEF Max

\* The smaller of two is one of them.
LEMMA MinOfTwo ==
    ASSUME NEW a \in Nat, NEW b \in Nat
    PROVE  Min({a, b}) \in {a, b} /\ Min({a, b}) <= a /\ Min({a, b}) <= b
<1>1. \E x \in {a, b} : \A y \in {a, b} : x <= y
  <2>1. CASE a <= b
    BY <2>1
  <2>2. CASE b <= a
    BY <2>2
  <2>3. QED
    BY <2>1, <2>2
<1>2. QED
  BY <1>1 DEF Min

(***************************************************************************)
(* Jobs a step leaves alone.                                               *)
(***************************************************************************)

\* A job keeps its invariant when its ticket and message stay, its row stays or goes,
\* and no failure is forgotten.
LEMMA LeftAlone ==
    ASSUME HandoffInv, NEW j \in Tickets,
           ticket'[j] = ticket[j], queue'[j] = queue[j],
           kv'[j] \in {kv[j], Absence}, failures' \in Nat, failures' >= failures
    PROVE  Good(j)'
<1>1. Good(j) /\ failures \in Nat
  BY DEF HandoffInv, HandoffTypeOK
<1>2. Unbegun(j)' /\ Readable(j)' /\ Found(j, ticket[j].answer)'
  BY <1>1 DEF Good, Unbegun, Found, Readable, Polls
<1>3. Found(j, kv[j].value)'
  BY <1>1 DEF Good, Found, Absence
<1>4. QED
  BY <1>2, <1>3 DEF Good

\* A step that writes the row of a limiter, or none, writes that of no job.
LEMMA LimitsApart ==
    ASSUME HandoffInv, NEW row \in KVRow, NEW j \in Tickets
    PROVE  [kv EXCEPT ![LimitKey] = row][j] = kv[j]
<1>1. LimitKey \in {"auth", "cost"} /\ LimitKey # j
  BY HandoffAssumption DEF LimitKey
<1>2. kv \in [{"auth", "cost"} \cup Tickets -> KVRow]
  BY DEF HandoffInv, HandoffTypeOK
<1>3. QED
  BY <1>1, <1>2

\* What a hit makes of a row.
LEMMA HitIsRow ==
    ASSUME NEW row \in KVRow
    PROVE  RateLimitHit(row) \in KVRow
<1>1. row.count \in Nat /\ row.ttl \in Int /\ Limit \in Nat /\ Window \in Nat
  BY HandoffAssumption DEF KVRow
<1>2. Min({row.count + 1, Limit + 1}) \in Nat
  BY <1>1, MinOfTwo
<1>3. QED
  BY <1>1, <1>2 DEF RateLimitHit, KVRow

\* The limiters write no row of a job.
LEMMA RateLimitApart ==
    ASSUME HandoffInv, RateLimit
    PROVE  /\ kv' \in [{"auth", "cost"} \cup Tickets -> KVRow]
           /\ \A j \in Tickets : kv'[j] = kv[j]
           /\ failures' \in Nat /\ failures' >= failures
<1>1. CASE Failing /\ UNCHANGED <<kv, passed>>
  BY <1>1 DEF Failing, HandoffInv, HandoffTypeOK
<1>2. CASE kv' = [kv EXCEPT ![LimitKey] = RateLimitHit(kv[LimitKey])] /\ UNCHANGED failures
  <2>1. kv[LimitKey] \in KVRow
    BY DEF HandoffInv, HandoffTypeOK, LimitKey
  <2>2. RateLimitHit(kv[LimitKey]) \in KVRow
    BY <2>1, HitIsRow
  <2>3. kv' \in [{"auth", "cost"} \cup Tickets -> KVRow]
    BY <1>2, <2>2 DEF HandoffInv, HandoffTypeOK
  <2>4. \A j \in Tickets : kv'[j] = kv[j]
    BY <1>2, <2>2, LimitsApart
  <2>5. QED
    BY <1>2, <2>3, <2>4 DEF HandoffInv, HandoffTypeOK
<1>3. QED
  BY <1>1, <1>2 DEF RateLimit

(***************************************************************************)
(* The steps.                                                              *)
(***************************************************************************)

\* Time: a row loses no more than the login has polled.
LEMMA ElapseGood ==
    ASSUME HandoffInv, Elapse
    PROVE  HandoffInv'
<1>1. UNCHANGED <<queue, failures, route>>
  BY DEF Elapse
<1>2. ASSUME NEW k \in {"auth", "cost"} \cup Tickets
      PROVE  /\ kv'[k] \in KVRow /\ kv'[k].value = kv[k].value
             /\ kv[k] = Absence => kv'[k] = Absence
             /\ kv[k] # Absence => kv'[k].ttl >= kv[k].ttl - 1
  <2>1. kv[k] \in KVRow
    BY DEF HandoffInv, HandoffTypeOK
  <2>2. kv'[k] = IF kv[k] = Absence THEN Absence
                 ELSE [kv[k] EXCEPT !.ttl = Max({kv[k].ttl - 1, -Grace - 1})]
    BY DEF Elapse, HandoffInv, HandoffTypeOK
  <2>3. kv[k].ttl - 1 \in Int /\ -Grace - 1 \in Int
    BY <2>1, HandoffAssumption DEF KVRow
  <2>4. Max({kv[k].ttl - 1, -Grace - 1}) \in Int /\ Max({kv[k].ttl - 1, -Grace - 1}) >= kv[k].ttl - 1
    BY <2>3, MaxOfTwo
  <2>5. QED
    BY <2>1, <2>2, <2>4 DEF KVRow, Absence
<1>3. kv' \in [{"auth", "cost"} \cup Tickets -> KVRow]
  <2>1. kv' = [k \in {"auth", "cost"} \cup Tickets |->
                IF kv[k] = Absence THEN Absence
                ELSE [kv[k] EXCEPT !.ttl = Max({kv[k].ttl - 1, -Grace - 1})]]
    BY DEF Elapse, HandoffInv, HandoffTypeOK
  <2>2. QED
    BY <1>2, <2>1
<1>4. ASSUME NEW j \in Tickets
      PROVE  /\ ticket[j] \in Ticket /\ ticket'[j] \in Ticket
             /\ ticket'[j].kind = ticket[j].kind /\ ticket'[j].thing = ticket[j].thing
             /\ ticket'[j].phase = ticket[j].phase /\ ticket'[j].answer = ticket[j].answer
             /\ Polls(j) /\ ticket'[j].waited < Wait => ticket'[j].waited = ticket[j].waited + 1
             /\ Polls(j) /\ ticket'[j].waited < Wait => ticket[j].waited < Wait
  <2>1. ticket[j] \in Ticket
    BY DEF HandoffInv, HandoffTypeOK
  <2>2. ticket'[j] = IF Polls(j) THEN [ticket[j] EXCEPT !.waited = Min({ticket[j].waited + 1, Wait})]
                     ELSE ticket[j]
    BY DEF Elapse
  <2>3. ticket[j].waited + 1 \in Nat /\ Wait \in Nat
    BY <2>1, HandoffAssumption DEF Ticket
  <2>4. Min({ticket[j].waited + 1, Wait}) \in {ticket[j].waited + 1, Wait}
    BY <2>3, MinOfTwo
  <2>5. QED
    BY <2>1, <2>2, <2>3, <2>4 DEF Ticket
<1>5. ticket' \in [Tickets -> Ticket]
  BY <1>4 DEF Elapse
<1>6. ASSUME NEW j \in Tickets PROVE Good(j)'
  <2>1. Good(j) /\ kv[j] \in KVRow /\ ticket[j].waited \in Nat
    BY DEF HandoffInv, HandoffTypeOK, Ticket
  <2>2. Unbegun(j)' /\ Found(j, kv[j].value)' /\ Found(j, ticket[j].answer)'
    BY <1>1, <1>2, <1>4, <2>1 DEF Good, Unbegun, Found
  <2>3. Readable(j)'
    <3>1. kv'[j] # Absence => kv[j] # Absence
      BY <1>2
    <3>2. Polls(j)' => Polls(j)
      BY <1>4 DEF Polls
    <3>3. kv[j].ttl \in Int /\ kv'[j].ttl \in Int /\ AnswerTTL \in Nat /\ Wait \in Nat
          /\ ticket'[j].waited \in Nat
      BY <1>2, <1>4, <2>1, HandoffAssumption DEF KVRow, Ticket
    <3>4. ASSUME kv'[j] # Absence PROVE kv'[j].value # "none"
      BY <1>2, <2>1, <3>1, <3>4 DEF Good, Readable
    <3>5. ASSUME kv'[j] # Absence, Polls(j)', ticket'[j].waited < Wait
          PROVE  kv'[j].ttl >= AnswerTTL - ticket'[j].waited
      <4>1. kv[j].ttl >= AnswerTTL - ticket[j].waited
        BY <1>4, <2>1, <3>1, <3>2, <3>5 DEF Good, Readable
      <4>2. kv'[j].ttl >= kv[j].ttl - 1 /\ ticket'[j].waited = ticket[j].waited + 1
        BY <1>2, <1>4, <3>1, <3>2, <3>5
      <4>3. QED
        BY <2>1, <3>3, <4>1, <4>2
    <3>6. QED
      BY <3>4, <3>5 DEF Readable
  <2>4. QED
    BY <2>2, <2>3 DEF Good
<1>7. QED
  BY <1>1, <1>3, <1>5, <1>6 DEF HandoffInv, HandoffTypeOK

\* What only touches rows the table may lose, or those of the limiters.
LEMMA TableGood ==
    ASSUME HandoffInv, CleanupExpiredKV \/ PassElsewhere \/ TurnAway
    PROVE  HandoffInv'
<1>1. CASE CleanupExpiredKV
  <2>1. kv' = [k \in {"auth", "cost"} \cup Tickets |-> IF kv[k].ttl < -Grace THEN Absence ELSE kv[k]]
        /\ UNCHANGED <<ticket, queue, failures, route>>
    BY <1>1 DEF CleanupExpiredKV, DeleteExpiredKV, HandoffInv, HandoffTypeOK
  <2>2. kv' \in [{"auth", "cost"} \cup Tickets -> KVRow]
    BY <2>1 DEF HandoffInv, HandoffTypeOK, KVRow, Absence
  <2>3. \A j \in Tickets : kv'[j] \in {kv[j], Absence}
    BY <2>1
  <2>4. \A j \in Tickets : Good(j)'
    BY <2>1, <2>3, LeftAlone DEF HandoffInv, HandoffTypeOK
  <2>5. QED
    BY <2>1, <2>2, <2>4 DEF HandoffInv, HandoffTypeOK
<1>2. CASE PassElsewhere
  <2>1. /\ kv' \in [{"auth", "cost"} \cup Tickets -> KVRow]
        /\ \A j \in Tickets : kv'[j] = kv[j]
        /\ failures' \in Nat /\ failures' >= failures
    BY <1>2, RateLimitApart DEF PassElsewhere
  <2>2. UNCHANGED <<ticket, queue, route>>
    BY <1>2 DEF PassElsewhere
  <2>3. \A j \in Tickets : Good(j)'
    BY <2>1, <2>2, LeftAlone
  <2>4. QED
    BY <2>1, <2>2, <2>3 DEF HandoffInv, HandoffTypeOK
<1>3. CASE TurnAway
  <2>1. kv[LimitKey] \in KVRow
    BY DEF HandoffInv, HandoffTypeOK, LimitKey
  <2>2. RateLimitHit(kv[LimitKey]) \in KVRow
    BY <2>1, HitIsRow
  <2>3. kv' = [kv EXCEPT ![LimitKey] = RateLimitHit(kv[LimitKey])]
        /\ UNCHANGED <<ticket, queue, failures, route>>
    BY <1>3 DEF TurnAway
  <2>4. kv' \in [{"auth", "cost"} \cup Tickets -> KVRow] /\ \A j \in Tickets : kv'[j] = kv[j]
    BY <2>2, <2>3, LimitsApart DEF HandoffInv, HandoffTypeOK
  <2>5. \A j \in Tickets : Good(j)'
    BY <2>3, <2>4, LeftAlone DEF HandoffInv, HandoffTypeOK
  <2>6. QED
    BY <2>3, <2>4, <2>5 DEF HandoffInv, HandoffTypeOK
<1>4. QED
  BY <1>1, <1>2, <1>3

\* A step of one job, which leaves the others alone.
LEMMA OneJob ==
    ASSUME HandoffInv, NEW j \in Tickets, HandoffTypeOK', Good(j)', failures' >= failures,
           \A i \in Tickets \ {j} :
               ticket'[i] = ticket[i] /\ queue'[i] = queue[i] /\ kv'[i] = kv[i]
    PROVE  HandoffInv'
<1>1. ASSUME NEW i \in Tickets \ {j} PROVE Good(i)'
  BY LeftAlone DEF HandoffTypeOK
<1>2. QED
  BY <1>1 DEF HandoffInv

\* A request that is let through: nothing is left of the job its ticket stood for.
LEMMA AskedGood ==
    ASSUME HandoffInv, NEW j \in Tickets, NEW thing \in Things,
           LoginWithGoogle(j, thing) \/ ValidateFace(j, thing)
    PROVE  HandoffInv'
<1>1. PICK kind \in Kinds : ticket' = [ticket EXCEPT ![j] = Asked(kind, thing)]
  BY DEF LoginWithGoogle, ValidateFace, Kinds
<1>2. ticket[j] = Free /\ RateLimit /\ UNCHANGED <<queue, route>>
  BY DEF LoginWithGoogle, ValidateFace
<1>3. /\ kv' \in [{"auth", "cost"} \cup Tickets -> KVRow]
      /\ \A i \in Tickets : kv'[i] = kv[i]
      /\ failures' \in Nat /\ failures' >= failures
  BY <1>2, RateLimitApart
<1>4. queue[j] = 0 /\ kv[j] = Absence
  BY <1>2 DEF HandoffInv, Good, Unbegun, Free
<1>5. Asked(kind, thing) \in Ticket
  BY DEF Asked, Ticket
<1>6. HandoffTypeOK' /\ ticket'[j] = Asked(kind, thing)
  BY <1>1, <1>2, <1>3, <1>5 DEF HandoffInv, HandoffTypeOK
<1>7. Good(j)'
  BY <1>2, <1>3, <1>4, <1>6 DEF Good, Unbegun, Found, Readable, Asked, Absence
<1>8. QED
  BY <1>1, <1>2, <1>3, <1>6, <1>7, OneJob DEF HandoffInv, HandoffTypeOK

\* Steps of the API that end a job, or leave it to the worker.
LEMMA HandlerGood ==
    ASSUME HandoffInv, NEW j \in Tickets,
           \/ EnqueueTicket(j) \/ FailTicket(j) \/ PollAnswer(j) \/ GiveUpPolling(j)
           \/ StopInstance(j) \/ ForgetTicket(j)
    PROVE  HandoffInv'
<1>1. ticket[j] \in Ticket /\ kv[j] \in KVRow /\ queue[j] \in Nat /\ Good(j) /\ failures \in Nat
  BY DEF HandoffInv, HandoffTypeOK
<1>2. UNCHANGED <<kv, route>> /\ failures' \in Nat /\ failures' >= failures
  BY <1>1 DEF EnqueueTicket, FailTicket, PollAnswer, GiveUpPolling, StopInstance, ForgetTicket, Failing
<1>3. CASE EnqueueTicket(j)
  <2>1. ticket' = [ticket EXCEPT ![j] = [ticket[j] EXCEPT !.phase = "waiting"]]
        /\ queue' = [queue EXCEPT ![j] = MaxTries] /\ MaxTries \in Nat
    BY <1>3, HandoffAssumption DEF EnqueueTicket
  <2>2. HandoffTypeOK' /\ ticket'[j] = [ticket[j] EXCEPT !.phase = "waiting"]
    BY <1>1, <1>2, <2>1 DEF HandoffInv, HandoffTypeOK, Ticket
  <2>3. kv[j] = Absence /\ ticket[j].answer = "none"
    BY <1>1, <1>3 DEF EnqueueTicket, Good, Unbegun
  <2>4. Good(j)'
    BY <1>1, <1>2, <2>2, <2>3 DEF Good, Unbegun, Found, Readable, Absence, Ticket
  <2>5. QED
    BY <1>2, <2>1, <2>2, <2>4, OneJob DEF HandoffInv, HandoffTypeOK
<1>4. ASSUME NEW answer \in {"yes", "no", "late"}, Found(j, answer), ticket' = Ended(j, answer), queue' = queue
      PROVE  HandoffInv'
  <2>1. ticket' = [ticket EXCEPT ![j] = [ticket[j] EXCEPT !.phase = "ended", !.answer = answer]]
    BY <1>4 DEF Ended
  <2>2. [ticket[j] EXCEPT !.phase = "ended", !.answer = answer] \in Ticket
    BY <1>1 DEF Ticket
  <2>3. HandoffTypeOK' /\ ticket'[j] = [ticket[j] EXCEPT !.phase = "ended", !.answer = answer]
    BY <1>2, <1>4, <2>1, <2>2 DEF HandoffInv, HandoffTypeOK
  <2>4. Good(j)'
    BY <1>1, <1>2, <1>4, <2>3 DEF Good, Unbegun, Found, Readable, Polls, Ticket
  <2>5. QED
    BY <1>2, <1>4, <2>1, <2>3, <2>4, OneJob DEF HandoffInv, HandoffTypeOK
<1>5. CASE FailTicket(j)
  <2>1. CASE ticket[j].kind = "google"
    BY <1>4, <1>5, <2>1 DEF FailTicket, Found
  <2>2. CASE ticket[j].kind # "google"
    <3>1. ticket' = [ticket EXCEPT ![j] = [ticket[j] EXCEPT !.phase = "waiting"]] /\ queue' = queue
      BY <1>5, <2>2 DEF FailTicket
    <3>2. HandoffTypeOK' /\ ticket'[j] = [ticket[j] EXCEPT !.phase = "waiting"]
      BY <1>1, <1>2, <3>1 DEF HandoffInv, HandoffTypeOK, Ticket
    <3>3. kv[j] = Absence /\ ticket[j].answer = "none"
      BY <1>1, <1>5 DEF FailTicket, Good, Unbegun
    <3>4. Good(j)'
      BY <1>1, <1>2, <3>2, <3>3 DEF Good, Unbegun, Found, Readable, Absence, Ticket
    <3>5. QED
      BY <1>2, <3>1, <3>2, <3>4, OneJob DEF HandoffInv, HandoffTypeOK
  <2>3. QED
    BY <2>1, <2>2
<1>6. CASE PollAnswer(j)
  <2>1. GetKV(ResultKey(j)) = kv[j].value /\ kv[j].value \in {"yes", "no"}
    BY <1>1, <1>6 DEF PollAnswer, GetKV, ResultKey, KVRow
  <2>2. Found(j, kv[j].value)
    BY <1>1 DEF Good
  <2>3. QED
    BY <1>4, <1>6, <2>1, <2>2 DEF PollAnswer
<1>7. CASE GiveUpPolling(j) \/ StopInstance(j)
  BY <1>4, <1>7 DEF GiveUpPolling, StopInstance, Found
<1>8. CASE ForgetTicket(j)
  <2>1. queue[j] = 0 /\ kv[j] = Absence /\ ticket' = [ticket EXCEPT ![j] = Free] /\ queue' = queue
    BY <1>8 DEF ForgetTicket, ResultKey
  <2>2. HandoffTypeOK' /\ ticket'[j] = Free
    BY <1>1, <1>2, <2>1 DEF HandoffInv, HandoffTypeOK, Ticket, Free
  <2>3. Good(j)'
    BY <1>1, <1>2, <2>1, <2>2 DEF Good, Unbegun, Found, Readable, Absence, Free
  <2>4. QED
    BY <1>2, <2>1, <2>2, <2>3, OneJob DEF HandoffInv, HandoffTypeOK
<1>9. QED
  BY <1>3, <1>5, <1>6, <1>7, <1>8

\* What the worker finds, or says of what failed.
LEMMA WorkerGood ==
    ASSUME HandoffInv, NEW j \in Tickets, VerifyGoogleToken(j) \/ ValidateFaceTask(j)
    PROVE  HandoffInv'
<1>1. ticket[j] \in Ticket /\ kv[j] \in KVRow /\ queue[j] \in Nat /\ Good(j) /\ failures \in Nat
      /\ AnswerTTL \in Nat
  BY HandoffAssumption DEF HandoffInv, HandoffTypeOK
<1>2. ticket[j].phase \in {"waiting", "ended"}
  BY <1>1 DEF VerifyGoogleToken, ValidateFaceTask, Good, Unbegun, Ticket
<1>3. UNCHANGED route /\ failures' \in Nat /\ failures' >= failures
  BY <1>1 DEF VerifyGoogleToken, ValidateFaceTask, Failing
<1>4. queue' \in [Tickets -> Nat] /\ \A i \in Tickets \ {j} : queue'[i] = queue[i]
  <2>1. 0 \in Nat /\ (queue[j] > 0 => queue[j] - 1 \in Nat)
    BY <1>1
  <2>2. \/ queue' = [queue EXCEPT ![j] = 0]
        \/ queue[j] > 0 /\ queue' = [queue EXCEPT ![j] = queue[j] - 1]
    BY DEF VerifyGoogleToken, ValidateFaceTask, Retried
  <2>3. QED
    BY <2>1, <2>2 DEF HandoffInv, HandoffTypeOK
<1>5. Finding(j) \in {"yes", "no"} /\ Found(j, Finding(j))
  BY DEF Finding, Found
<1>6. CASE VerifyGoogleToken(j)
  <2>1. UNCHANGED ticket
    BY <1>6 DEF VerifyGoogleToken
  <2>2. CASE UNCHANGED kv
    <3>1. HandoffTypeOK'
      BY <1>3, <1>4, <2>1, <2>2 DEF HandoffInv, HandoffTypeOK
    <3>2. Good(j)'
      BY <1>1, <1>2, <1>3, <2>1, <2>2 DEF Good, Unbegun, Found, Readable, Polls
    <3>3. QED
      BY <1>3, <1>4, <2>1, <2>2, <3>1, <3>2, OneJob DEF HandoffInv, HandoffTypeOK
  <2>3. ASSUME NEW answer \in {"yes", "no"}, kv' = SetKV(ResultKey(j), answer),
               Found(j, answer)'
        PROVE  HandoffInv'
    <3>1. kv' = [kv EXCEPT ![j] = [value |-> answer, count |-> 0, ttl |-> AnswerTTL]]
      BY <2>3 DEF SetKV, ResultKey
    <3>2. [value |-> answer, count |-> 0, ttl |-> AnswerTTL] \in KVRow
      BY <1>1 DEF KVRow
    <3>3. HandoffTypeOK' /\ kv'[j] = [value |-> answer, count |-> 0, ttl |-> AnswerTTL]
      BY <1>3, <1>4, <2>1, <3>1, <3>2 DEF HandoffInv, HandoffTypeOK
    <3>4. Found(j, kv[j].value)' /\ Unbegun(j)'
      BY <1>2, <2>1, <2>3, <3>3 DEF Unbegun, Found
    <3>5. Found(j, ticket[j].answer)'
      BY <1>1, <1>3, <2>1 DEF Good, Found
    <3>6. Readable(j)'
      BY <1>1, <2>1, <3>3 DEF Readable, Ticket
    <3>7. Good(j)'
      BY <3>4, <3>5, <3>6 DEF Good
    <3>8. QED
      BY <1>3, <1>4, <2>1, <3>1, <3>3, <3>7, OneJob DEF HandoffInv, HandoffTypeOK
  <2>4. CASE UNCHANGED failures /\ kv' = SetKV(ResultKey(j), Finding(j))
    BY <1>5, <2>1, <2>3, <2>4 DEF Found
  <2>5. CASE Failing /\ kv' = SetKV(ResultKey(j), "no")
    BY <1>1, <2>1, <2>3, <2>5 DEF Found, Failing
  <2>6. QED
    BY <1>6, <2>2, <2>4, <2>5 DEF VerifyGoogleToken
<1>7. CASE ValidateFaceTask(j)
  <2>1. UNCHANGED kv
    BY <1>7 DEF ValidateFaceTask
  <2>2. ASSUME NEW answer \in {"none", "yes", "no", "late"}, Found(j, answer) \/ (answer = "no" /\ failures' > 0),
               ticket' = [ticket EXCEPT ![j] = [ticket[j] EXCEPT !.answer = answer]]
        PROVE  HandoffInv'
    <3>0. [ticket[j] EXCEPT !.answer = answer] \in Ticket
      BY <1>1 DEF Ticket
    <3>1. HandoffTypeOK' /\ ticket'[j] = [ticket[j] EXCEPT !.answer = answer]
      BY <1>3, <1>4, <2>1, <2>2, <3>0 DEF HandoffInv, HandoffTypeOK
    <3>2. Found(j, ticket[j].answer)'
      BY <1>1, <1>3, <2>2, <3>1 DEF Found, Ticket
    <3>3. Found(j, kv[j].value)' /\ Unbegun(j)' /\ Readable(j)'
      BY <1>1, <1>2, <1>3, <2>1, <3>1 DEF Good, Unbegun, Found, Readable, Polls, Ticket
    <3>4. Good(j)'
      BY <3>2, <3>3 DEF Good
    <3>5. QED
      BY <1>3, <1>4, <2>1, <2>2, <3>1, <3>4, OneJob DEF HandoffInv, HandoffTypeOK
  <2>3. CASE ticket' = [ticket EXCEPT ![j].answer = Finding(j)]
    BY <1>5, <2>2, <2>3
  <2>4. CASE Failing /\ \E answer \in {"no", ticket[j].answer} : ticket' = [ticket EXCEPT ![j].answer = answer]
    <3>1. failures' > 0
      BY <1>1, <2>4 DEF Failing
    <3>2. Found(j, ticket[j].answer) /\ ticket[j].answer \in {"none", "yes", "no", "late"}
      BY <1>1 DEF Good, Ticket
    <3>3. QED
      BY <2>2, <2>4, <3>1, <3>2
  <2>5. QED
    BY <1>7, <2>3, <2>4 DEF ValidateFaceTask
<1>8. QED
  BY <1>6, <1>7

(***************************************************************************)
(* The theorems.                                                           *)
(***************************************************************************)

\* The invariant holds at the start.
LEMMA HandoffInitInv == HandoffInit => HandoffInv
<1> SUFFICES ASSUME HandoffInit PROVE HandoffInv
  OBVIOUS
<1>1. HandoffTypeOK
  BY DEF HandoffInit, HandoffTypeOK, KVRow, Absence, Ticket, Free, Kinds
<1>2. ASSUME NEW j \in Tickets PROVE Good(j)
  <2>1. ticket[j] = Free /\ queue[j] = 0 /\ kv[j] = Absence
    BY DEF HandoffInit
  <2>2. QED
    BY <2>1 DEF Good, Unbegun, Found, Readable, Free, Absence
<1>3. QED
  BY <1>1, <1>2 DEF HandoffInv

\* The invariant is kept by every step.
LEMMA HandoffInductive == HandoffInv /\ [HandoffNext]_handoff => HandoffInv'
<1> SUFFICES ASSUME HandoffInv, [HandoffNext]_handoff PROVE HandoffInv'
  OBVIOUS
<1>1. CASE UNCHANGED handoff
  <2>1. UNCHANGED <<kv, ticket, queue, failures, route>>
    BY <1>1 DEF handoff
  <2>2. \A j \in Tickets : Good(j)'
    BY <2>1, LeftAlone DEF HandoffInv, HandoffTypeOK
  <2>3. QED
    BY <2>1, <2>2 DEF HandoffInv, HandoffTypeOK
<1>2. CASE HandoffNext
  BY <1>2, ElapseGood, TableGood, AskedGood, HandlerGood, WorkerGood DEF HandoffNext
<1>3. QED
  BY <1>1, <1>2

\* The invariant holds in every state of every behaviour.
THEOREM HandoffInvariance == HandoffSpec => []HandoffInv
BY HandoffInitInv, HandoffInductive, PTL DEF HandoffSpec

\* A job is told what was found of its own credential or photo, through a table its
\* answers outlive it in, and a login that polls can read what was left for it.
THEOREM AnswersReachTheirJobs == HandoffSpec => []AnswersAreOwn
<1>1. ASSUME HandoffInv, NEW j \in Tickets
      PROVE  /\ ticket[j].answer = "yes" => ticket[j].thing \in Genuine
             /\ ticket[j].answer = "no" => ticket[j].thing \notin Genuine \/ failures > 0
             /\ Polls(j) /\ ticket[j].waited < Wait /\ kv[ResultKey(j)] # Absence =>
                    GetKV(ResultKey(j)) # "none"
  <2>1. Good(j) /\ kv[j] \in KVRow /\ ticket[j].waited \in Nat
    BY <1>1 DEF HandoffInv, HandoffTypeOK, Ticket
  <2>2. Polls(j) /\ ticket[j].waited < Wait /\ kv[j] # Absence => kv[j].ttl > 0 /\ kv[j].value # "none"
    BY <2>1, HandoffAssumption DEF Good, Readable, KVRow
  <2>3. QED
    BY <2>1, <2>2 DEF Good, Found, ResultKey, GetKV
<1>2. HandoffInv => AnswersAreOwn
  BY <1>1 DEF AnswersAreOwn
<1>3. QED
  BY <1>2, HandoffInvariance, PTL

--------------------------------------------------------------------------------
(* Rate limits *)

(***************************************************************************)
(* What a limiter lets through.  In its window the row has counted all     *)
(* that passed since the window began, and the stretch before was no       *)
(* more than a window's worth; when it has expired, all of the stretch was.*)
(***************************************************************************)
WindowOf(row, p) ==
    LET since == Window - row.ttl + 1   \* the ticks since the window began, with this one
    IN  /\ p \in [1 .. Window -> Nat]
        /\ row.ttl > 0 =>
            /\ row.ttl <= Window
            /\ SumOf(p, 1 .. since) <= row.count /\ SumOf(p, 1 .. since) <= Limit
            /\ SumOf(p, since + 1 .. Window) <= Limit
        /\ row.ttl <= 0 =>
            /\ p[1] = 0
            /\ SumOf(p, 1 .. Window) <= Limit

Windowed == WindowOf(kv[LimitKey], passed)

\* What passed in each of N ticks.
Stretches(p, N) == N \in Nat \ {0} /\ p \in [1 .. N -> Nat]

\* The ticks from i to j, parted after m.
AgesParted(N, i, m, j) == i \in Int /\ m \in Int /\ j \in Int /\ 1 <= i /\ i <= m + 1 /\ m <= j /\ j <= N

\* A stretch sums to the sum of its two parts.
LEMMA StretchParts ==
    ASSUME NEW p, NEW N, Stretches(p, N), NEW i, NEW m, NEW j, AgesParted(N, i, m, j)
    PROVE  /\ SumOf(p, i .. j) \in Nat /\ SumOf(p, i .. m) \in Nat /\ SumOf(p, m + 1 .. j) \in Nat
           /\ SumOf(p, i .. j) = SumOf(p, i .. m) + SumOf(p, m + 1 .. j)
<1>0. i \in Int /\ m \in Int /\ j \in Int /\ 1 <= i /\ i <= m + 1 /\ m <= j /\ j <= N
  BY DEF AgesParted
<1>1. N \in Nat /\ \A x \in 1 .. N : p[x] \in Nat
  BY DEF Stretches
<1>2. /\ i .. j = (i .. m) \cup (m + 1 .. j) /\ (i .. m) \cap (m + 1 .. j) = {}
      /\ i .. j \subseteq 1 .. N
  BY <1>0, <1>1
<1>3. IsFiniteSet(i .. j) /\ IsFiniteSet(i .. m) /\ IsFiniteSet(m + 1 .. j)
  BY <1>0, FS_Interval
<1>4. \A x \in i .. j : p[x] \in Nat
  BY <1>1, <1>2
<1>5. \A x \in (i .. m) \cup (m + 1 .. j) : p[x] \in Nat /\ p[x] \in Int
  BY <1>2, <1>4
<1> HIDE DEF Stretches
<1>6. SumOf(p, (i .. m) \cup (m + 1 .. j)) = SumOf(p, i .. m) + SumOf(p, m + 1 .. j)
  BY <1>2, <1>3, <1>5, SumOfParts
<1>7. SumOf(p, i .. j) \in Nat /\ SumOf(p, i .. m) \in Nat /\ SumOf(p, m + 1 .. j) \in Nat
  BY <1>3, <1>4, <1>5, SumNat
<1>8. QED
  BY <1>2, <1>6, <1>7

\* One tick.
LEMMA OneTick ==
    ASSUME NEW p, NEW N, Stretches(p, N)
    PROVE  SumOf(p, 1 .. 1) = p[1] /\ p[1] \in Nat /\ 1 .. 1 = {1}
<1>1. 1 .. 1 = {1} /\ p[1] \in Nat /\ {1} \ {1} = {}
  BY DEF Stretches
<1>2. IsFiniteSet({1}) /\ IsFiniteSet({})
  BY FS_Singleton, FS_EmptySet
<1>3. SumOf(p, {1}) = p[1] + SumOf(p, {1} \ {1})
  BY <1>1, <1>2, SumWithout
<1>4. SumOf(p, {}) = 0
  BY <1>2, SumUnfolds
<1>5. QED
  BY <1>1, <1>3, <1>4

\* The first tick, and the rest of a stretch.
LEMMA FirstTick ==
    ASSUME NEW p, NEW N, Stretches(p, N), NEW m \in 1 .. N
    PROVE  SumOf(p, 1 .. m) = p[1] + SumOf(p, 2 .. m) /\ p[1] \in Nat /\ SumOf(p, 2 .. m) \in Nat
<1>1. m \in Int /\ 1 .. m \subseteq 1 .. N /\ 2 .. m \subseteq 1 .. N /\ 1 \in 1 .. m /\ 1 \in 1 .. N
  BY DEF Stretches
<1>2. (1 .. m) \ {1} = 2 .. m
  BY <1>1
<1>2a. IsFiniteSet(1 .. m)
  BY <1>1, FS_Interval
<1>2b. IsFiniteSet(2 .. m)
  BY <1>1, FS_Interval
<1>3. \A x \in 1 .. N : p[x] \in Nat /\ p[x] \in Int
  BY DEF Stretches
<1>4. (\A x \in 1 .. m : p[x] \in Int) /\ \A x \in 2 .. m : p[x] \in Nat
  BY <1>1, <1>3
<1>5. SumOf(p, 1 .. m) = p[1] + SumOf(p, (1 .. m) \ {1})
  BY <1>1, <1>2a, <1>4, SumWithout
<1>6. SumOf(p, 2 .. m) \in Nat
  BY <1>2b, <1>4, SumNat
<1>7. QED
  BY <1>1, <1>2, <1>3, <1>5, <1>6

\* What passes in some ticks is a number.
LEMMA StretchNat ==
    ASSUME NEW p, NEW N, Stretches(p, N), NEW i \in Int, NEW j \in Int, 1 <= i, j <= N
    PROVE  SumOf(p, i .. j) \in Nat
<1>1. IsFiniteSet(i .. j)
  BY FS_Interval
<1>2. \A x \in i .. j : p[x] \in Nat
  BY DEF Stretches
<1>3. QED
  BY <1>1, <1>2, SumNat

\* One more passes in this tick; a tick goes by, and the oldest is forgotten.
Passes(p, q)   == q = [p EXCEPT ![1] = @ + 1]
Ages(p, q, N)  == q = <<0>> \o SubSeq(p, 1, N - 1)

\* What one more adds to.
LEMMA OneMore ==
    ASSUME NEW p, NEW N, Stretches(p, N), NEW q, Passes(p, q), NEW m \in 1 .. N
    PROVE  Stretches(q, N) /\ SumOf(q, 1 .. m) = SumOf(p, 1 .. m) + 1 /\ SumOf(q, m + 1 .. N) = SumOf(p, m + 1 .. N)
<1>1. Stretches(q, N) /\ q[1] = p[1] + 1 /\ \A x \in 2 .. N : q[x] = p[x]
  BY DEF Stretches, Passes
<1>2. N \in Nat \ {0}
  BY DEF Stretches
<1>3. \A x \in 2 .. m : q[x] = p[x]
  BY <1>1, <1>2
<1>4. \A x \in m + 1 .. N : q[x] = p[x]
  BY <1>1, <1>2
<1>5. IsFiniteSet(2 .. m) /\ IsFiniteSet(m + 1 .. N)
  BY <1>2, FS_Interval
<1>6. SumOf(q, 2 .. m) = SumOf(p, 2 .. m)
  BY <1>3, <1>5, SumSame
<1>7. SumOf(q, m + 1 .. N) = SumOf(p, m + 1 .. N)
  BY <1>4, <1>5, SumSame
<1>8. SumOf(q, 1 .. m) = q[1] + SumOf(q, 2 .. m)
  BY <1>1, FirstTick
<1>9. SumOf(p, 1 .. m) = p[1] + SumOf(p, 2 .. m) /\ p[1] \in Nat /\ SumOf(p, 2 .. m) \in Nat
  BY FirstTick
<1>10. QED
  BY <1>1, <1>6, <1>7, <1>8, <1>9

\* What a tick leaves.
LEMMA OneLater ==
    ASSUME NEW p, NEW N, Stretches(p, N), NEW q, Ages(p, q, N), NEW m \in 0 .. N - 1
    PROVE  Stretches(q, N) /\ q[1] = 0 /\ SumOf(q, 1 .. m + 1) = SumOf(p, 1 .. m)
           /\ SumOf(q, m + 2 .. N) = SumOf(p, m + 1 .. N - 1)
<1>1. N \in Nat \ {0} /\ p \in Seq(Nat) /\ Len(p) = N
  BY DEF Stretches
<1>2. SubSeq(p, 1, N - 1) \in Seq(Nat) /\ Len(SubSeq(p, 1, N - 1)) = N - 1
      /\ \A x \in 1 .. N - 1 : SubSeq(p, 1, N - 1)[x] = p[x]
  BY <1>1
<1>3. /\ q \in [1 .. N -> Nat] /\ q[1] = 0
      /\ \A x \in 1 .. N - 1 : q[x + 1] = p[x] /\ p[x] \in Nat
  <2> DEFINE r == SubSeq(p, 1, N - 1)
  <2>1. r \in Seq(Nat) /\ Len(r) = N - 1 /\ q = <<0>> \o r /\ 0 \in Nat /\ N - 1 \in Nat
    BY <1>1, <1>2 DEF Ages
  <2> HIDE DEF r
  <2>2. q \in Seq(Nat) /\ Len(q) = N /\ q[1] = 0 /\ \A x \in 1 .. N - 1 : q[x + 1] = r[x]
    BY <1>1, <2>1
  <2>3. q \in [1 .. N -> Nat]
    BY <2>2
  <2>4. \A x \in 1 .. N - 1 : p[x] \in Nat /\ r[x] = p[x]
    BY <1>1, <1>2 DEF r
  <2>5. QED
    BY <2>2, <2>3, <2>4
<1>4. Stretches(q, N)
  BY <1>1, <1>3 DEF Stretches
<1>5. ASSUME NEW a \in 1 .. N, NEW b \in 0 .. N - 1 PROVE SumOf(q, a + 1 .. b + 1) = SumOf(p, a .. b)
  <2>1. a .. b \subseteq 1 .. N - 1 /\ IsFiniteSet(a .. b)
    <3>1. a \in Int /\ b \in Int /\ 1 <= a /\ b <= N - 1
      BY <1>1
    <3>2. IsFiniteSet(a .. b)
      BY <3>1, FS_Interval
    <3>3. a .. b \subseteq 1 .. N - 1
      BY <1>1, <3>1
    <3>4. QED
      BY <3>2, <3>3
  <2>2. Moves(p, q, a .. b, 1)
    BY <1>1, <1>3, <2>1 DEF Moves
  <2>3. Moved(a .. b, 1) = a + 1 .. b + 1
    <3>1. ASSUME NEW x \in a + 1 .. b + 1 PROVE \E i \in a .. b : x = i + 1
      <4>1. x - 1 \in a .. b /\ x = (x - 1) + 1
        BY <1>1
      <4>2. QED
        BY <4>1
    <3>2. \A i \in a .. b : i + 1 \in a + 1 .. b + 1
      BY <1>1
    <3>3. QED
      BY <3>1, <3>2 DEF Moved
  <2>4. SumOf(q, Moved(a .. b, 1)) = SumOf(p, a .. b)
    BY <2>1, <2>2, SumRenumbered
  <2>5. QED
    BY <2>3, <2>4
<1>6. m + 1 \in 1 .. N /\ m \in Int /\ m <= N
  BY <1>1
<1>7. SumOf(q, 1 .. m + 1) = q[1] + SumOf(q, 2 .. m + 1)
  BY <1>4, <1>6, FirstTick
<1>8. SumOf(q, 1 + 1 .. m + 1) = SumOf(p, 1 .. m)
  BY <1>1, <1>5
<1>9. SumOf(p, 1 .. m) \in Nat
  BY <1>6, StretchNat
<1>10. SumOf(q, (m + 1) + 1 .. (N - 1) + 1) = SumOf(p, m + 1 .. N - 1)
  BY <1>1, <1>5
<1>11. (m + 1) + 1 = m + 2 /\ (N - 1) + 1 = N
  BY <1>1
<1>12. QED
  BY <1>3, <1>4, <1>6, <1>7, <1>8, <1>9, <1>10, <1>11

\* A row is counted on, or its window begins again.
LEMMA Hits ==
    ASSUME NEW row \in KVRow
    PROVE  /\ row.ttl <= 0 => RateLimitHit(row).ttl = Window /\ RateLimitHit(row).count = 1
           /\ row.ttl > 0 => /\ RateLimitHit(row).ttl = row.ttl
                             /\ RateLimitHit(row).count \in {row.count + 1, Limit + 1}
           /\ row.ttl \in Int /\ row.count \in Nat
           /\ Window \in Nat \ {0} /\ Limit \in Nat \ {0} /\ Grace \in Nat
<1>1. row.ttl \in Int /\ row.count \in Nat /\ Window \in Nat \ {0} /\ Limit \in Nat \ {0} /\ Grace \in Nat
  BY HandoffAssumption DEF KVRow
<1>2. Min({row.count + 1, Limit + 1}) \in {row.count + 1, Limit + 1}
  BY <1>1, MinOfTwo
<1>3. row.ttl > 0 => row # Absence
  BY DEF Absence
<1>4. ASSUME row.ttl > 0
      PROVE  RateLimitHit(row) = [row EXCEPT !.count = Min({row.count + 1, Limit + 1})]
  BY <1>1, <1>3, <1>4 DEF RateLimitHit
<1>5. ASSUME row.ttl <= 0
      PROVE  RateLimitHit(row) = [value |-> "none", count |-> 1, ttl |-> Window]
  BY <1>5 DEF RateLimitHit
<1>6. row.ttl > 0 => RateLimitHit(row).ttl = row.ttl /\ RateLimitHit(row).count \in {row.count + 1, Limit + 1}
  BY <1>2, <1>4 DEF KVRow
<1>7. row.ttl <= 0 => RateLimitHit(row).ttl = Window /\ RateLimitHit(row).count = 1
  BY <1>5
<1>8. QED
  BY <1>1, <1>6, <1>7

\* The request that passes is within the limit of its window; one that finds the window
\* expired begins another, and what passed before is within one.
LEMMA HitWithin ==
    ASSUME NEW row \in KVRow, NEW p, WindowOf(row, p), RateLimitHit(row).count <= Limit,
           NEW q, Passes(p, q)
    PROVE  WindowOf(RateLimitHit(row), q)
<1> DEFINE hit == RateLimitHit(row)
           since == Window - row.ttl + 1
<1>1. Stretches(p, Window)
  BY Hits DEF WindowOf, Stretches
<1>2. q \in [1 .. Window -> Nat] /\ 1 \in 1 .. Window
  <2>1. 1 \in 1 .. Window
    BY Hits
  <2>2. QED
    BY <1>1, <2>1, OneMore DEF Stretches
<1>3. CASE row.ttl > 0
  <2>1. since \in 1 .. Window /\ hit.ttl = row.ttl /\ hit.count = row.count + 1 /\ row.count + 1 <= Limit
    BY <1>3, Hits DEF WindowOf
  <2>2. SumOf(p, 1 .. since) <= row.count /\ SumOf(p, since + 1 .. Window) <= Limit
    BY <1>3 DEF WindowOf
  <2>3. SumOf(p, 1 .. since) \in Nat
    BY <1>1, <2>1, StretchNat, Hits
  <2> HIDE DEF since, hit
  <2>4. SumOf(q, 1 .. since) = SumOf(p, 1 .. since) + 1 /\ SumOf(q, since + 1 .. Window) = SumOf(p, since + 1 .. Window)
    BY <1>1, <2>1, OneMore
  <2>5. SumOf(q, 1 .. since) <= hit.count /\ SumOf(q, 1 .. since) <= Limit /\ SumOf(q, since + 1 .. Window) <= Limit
    BY <2>1, <2>2, <2>3, <2>4, Hits
  <2>6. hit.ttl > 0 /\ hit.ttl <= Window /\ since = Window - hit.ttl + 1 /\ ~(hit.ttl <= 0)
    BY <1>3, <2>1, Hits DEF WindowOf, since
  <2>7. QED
    BY <1>2, <2>5, <2>6 DEF WindowOf, hit
<1>4. CASE row.ttl <= 0
  <2>1. hit.ttl = Window /\ hit.count = 1 /\ Window \in Nat \ {0} /\ Limit \in Nat \ {0}
    BY <1>4, Hits
  <2>2. p[1] = 0 /\ SumOf(p, 1 .. Window) <= Limit
    BY <1>4 DEF WindowOf
  <2>3. SumOf(p, 1 .. Window) = p[1] + SumOf(p, 2 .. Window) /\ SumOf(p, 2 .. Window) \in Nat
    BY <1>1, <2>1, FirstTick
  <2>4. SumOf(p, 1 .. 1) = p[1]
    BY <1>1, OneTick
  <2>5. SumOf(q, 1 .. 1) = SumOf(p, 1 .. 1) + 1 /\ SumOf(q, 1 + 1 .. Window) = SumOf(p, 1 + 1 .. Window)
    <3> DEFINE one == 1
    <3>1. one \in 1 .. Window
      BY <1>2
    <3> HIDE DEF one
    <3>2. SumOf(q, 1 .. one) = SumOf(p, 1 .. one) + 1 /\ SumOf(q, one + 1 .. Window) = SumOf(p, one + 1 .. Window)
      BY <1>1, <3>1, OneMore
    <3>3. QED
      BY <3>2 DEF one
  <2> HIDE DEF hit
  <2>6. Window - hit.ttl + 1 = 1 /\ hit.ttl > 0 /\ hit.ttl <= Window /\ ~(hit.ttl <= 0) /\ 1 + 1 = 2
    BY <2>1
  <2>7. SumOf(q, 1 .. 1) <= hit.count /\ SumOf(q, 1 .. 1) <= Limit /\ SumOf(q, 1 + 1 .. Window) <= Limit
    BY <2>1, <2>2, <2>3, <2>4, <2>5
  <2>8. QED
    BY <1>2, <2>6, <2>7 DEF WindowOf, hit
<1>5. row.ttl \in Int
  BY Hits
<1>6. QED
  BY <1>3, <1>4, <1>5

\* Who is turned away is counted, and does not prolong the window.
LEMMA TurnedAwayWithin ==
    ASSUME NEW row \in KVRow, NEW p, WindowOf(row, p), RateLimitHit(row).count > Limit
    PROVE  WindowOf(RateLimitHit(row), p)
<1> DEFINE hit == RateLimitHit(row)
<1>1. row.ttl > 0 /\ hit.ttl = row.ttl /\ hit.count \in {row.count + 1, Limit + 1}
  BY Hits
<1>2. row.count \in Nat /\ Limit \in Nat /\ Window \in Nat /\ row.ttl \in Int
  BY Hits
<1>3. Stretches(p, Window)
  BY Hits DEF WindowOf, Stretches
<1> DEFINE since == Window - row.ttl + 1
<1>4. row.ttl <= Window /\ SumOf(p, 1 .. since) <= row.count /\ SumOf(p, 1 .. since) <= Limit
      /\ SumOf(p, since + 1 .. Window) <= Limit /\ p \in [1 .. Window -> Nat]
  BY <1>1 DEF WindowOf
<1>5. SumOf(p, 1 .. since) \in Nat
  <2>1. since \in Int /\ since <= Window /\ 1 <= 1
    BY <1>1, <1>2, <1>4
  <2> HIDE DEF since
  <2>2. QED
    BY <1>3, <2>1, StretchNat
<1> HIDE DEF since, hit
<1>6. SumOf(p, 1 .. since) <= hit.count
  BY <1>1, <1>2, <1>4, <1>5
<1>7. since = Window - hit.ttl + 1 /\ hit.ttl > 0 /\ hit.ttl <= Window /\ ~(hit.ttl <= 0)
  BY <1>1, <1>2, <1>4 DEF since
<1>8. QED
  BY <1>4, <1>6, <1>7 DEF WindowOf, hit

\* What time makes of a row.
Aged(row) == IF row = Absence THEN Absence ELSE [row EXCEPT !.ttl = Max({@ - 1, -Grace - 1})]

\* A tick goes by: the window is one older, or has expired.
LEMMA AgedWithin ==
    ASSUME NEW row \in KVRow, NEW p, WindowOf(row, p), NEW q, Ages(p, q, Window)
    PROVE  WindowOf(Aged(row), q)
<1> DEFINE since == Window - row.ttl + 1
<1>1. row.ttl \in Int /\ row.count \in Nat /\ Window \in Nat \ {0} /\ Limit \in Nat \ {0} /\ Grace \in Nat
  BY Hits
<1>2. Stretches(p, Window)
  BY <1>1 DEF WindowOf, Stretches
<1>3. Stretches(q, Window) /\ q[1] = 0 /\ q \in [1 .. Window -> Nat]
  <2>1. 0 \in 0 .. Window - 1
    BY <1>1
  <2>2. QED
    BY <1>2, <2>1, OneLater DEF Stretches
<1>4. /\ row.ttl <= 0 => Aged(row).ttl \in Int /\ Aged(row).ttl <= 0
      /\ row.ttl > 0 => Aged(row).ttl = row.ttl - 1 /\ Aged(row).count = row.count
  <2>1. Max({row.ttl - 1, -Grace - 1}) \in {row.ttl - 1, -Grace - 1} /\ Max({row.ttl - 1, -Grace - 1}) >= row.ttl - 1
    <3>1. row.ttl - 1 \in Int /\ -Grace - 1 \in Int
      BY <1>1
    <3>2. QED
      BY <3>1, MaxOfTwo
  <2>2. Absence.ttl = 0
    BY DEF Absence
  <2>3. row # Absence => Aged(row).ttl = Max({row.ttl - 1, -Grace - 1}) /\ Aged(row).count = row.count
    BY DEF Aged, KVRow
  <2>4. row = Absence => Aged(row).ttl = 0
    BY <2>2 DEF Aged
  <2>5. QED
    BY <1>1, <2>1, <2>2, <2>3, <2>4
<1>5. SumOf(q, 1 .. Window) = SumOf(p, 1 .. Window - 1)
  <2>1. Window - 1 \in 0 .. Window - 1 /\ (Window - 1) + 1 = Window
    BY <1>1
  <2>2. SumOf(q, 1 .. (Window - 1) + 1) = SumOf(p, 1 .. Window - 1)
    BY <1>2, <2>1, OneLater
  <2>3. QED
    BY <2>1, <2>2
<1>6. ASSUME NEW i \in Int, 1 <= i, i <= Window
      PROVE  SumOf(p, i .. Window - 1) \in Nat /\ SumOf(p, i .. Window - 1) <= SumOf(p, i .. Window)
             /\ SumOf(p, i .. Window) \in Nat
  <2> DEFINE m == Window - 1
  <2>1. AgesParted(Window, i, m, Window)
    BY <1>1, <1>6 DEF AgesParted
  <2> HIDE DEF m
  <2>2. /\ SumOf(p, i .. Window) \in Nat /\ SumOf(p, i .. m) \in Nat /\ SumOf(p, m + 1 .. Window) \in Nat
        /\ SumOf(p, i .. Window) = SumOf(p, i .. m) + SumOf(p, m + 1 .. Window)
    BY <1>2, <2>1, StretchParts
  <2>3. QED
    BY <2>2 DEF m
<1>7. CASE row.ttl <= 0
  <2>1. SumOf(p, 1 .. Window) <= Limit /\ Aged(row).ttl <= 0
    BY <1>4, <1>7 DEF WindowOf
  <2>2. SumOf(q, 1 .. Window) <= Limit
    BY <1>1, <1>5, <1>6, <2>1
  <2>3. ~(Aged(row).ttl > 0)
    BY <1>1, <1>4, <1>7, <2>1
  <2>4. QED
    BY <1>3, <2>1, <2>2, <2>3 DEF WindowOf
<1>8. CASE row.ttl = 1
  <2>1. Aged(row).ttl = 0
    BY <1>1, <1>4, <1>8
  <2>2. since = Window
    BY <1>1, <1>8
  <2>3. SumOf(p, 1 .. since) <= Limit
    BY <1>8 DEF WindowOf
  <2>4. SumOf(q, 1 .. Window) <= Limit
    BY <1>1, <1>5, <1>6, <2>2, <2>3
  <2>5. QED
    BY <1>3, <2>1, <2>4 DEF WindowOf
<1>9. CASE row.ttl > 1
  <2>1. row.ttl <= Window /\ SumOf(p, 1 .. since) <= row.count /\ SumOf(p, 1 .. since) <= Limit
        /\ SumOf(p, since + 1 .. Window) <= Limit
    BY <1>1, <1>9 DEF WindowOf
  <2>2. since \in 0 .. Window - 1 /\ since + 1 \in Int /\ 1 <= since + 1 /\ since + 1 <= Window
    BY <1>1, <1>9, <2>1
  <2>3. Aged(row).ttl = row.ttl - 1 /\ Aged(row).count = row.count
    BY <1>1, <1>4, <1>9
  <2>4. Window - Aged(row).ttl + 1 = since + 1 /\ Aged(row).ttl > 0 /\ Aged(row).ttl <= Window
        /\ ~(Aged(row).ttl <= 0)
    BY <1>1, <1>9, <2>1, <2>3
  <2> HIDE DEF since
  <2>5. SumOf(q, 1 .. since + 1) = SumOf(p, 1 .. since) /\ SumOf(q, since + 2 .. Window) = SumOf(p, since + 1 .. Window - 1)
    BY <1>2, <2>2, OneLater
  <2>6. SumOf(p, since + 1 .. Window - 1) <= Limit
    BY <1>1, <1>6, <2>1, <2>2
  <2>7. (since + 1) + 1 = since + 2
    BY <2>2
  <2>8. /\ SumOf(q, 1 .. since + 1) <= Aged(row).count /\ SumOf(q, 1 .. since + 1) <= Limit
        /\ SumOf(q, (since + 1) + 1 .. Window) <= Limit
    BY <2>1, <2>3, <2>5, <2>6, <2>7
  <2>9. QED
    BY <1>3, <2>4, <2>8 DEF WindowOf
<1>10. QED
  BY <1>1, <1>7, <1>8, <1>9

\* The sweep takes a row that has expired, which is none.
LEMMA SweptWithin ==
    ASSUME NEW row \in KVRow, NEW p, WindowOf(row, p), row.ttl < -Grace
    PROVE  WindowOf(Absence, p)
<1>1. row.ttl <= 0
  BY Hits
<1>2. Absence.ttl = 0
  BY DEF Absence
<1>3. QED
  BY <1>1, <1>2 DEF WindowOf

\* Every step keeps the row of the limiter to what it has let through.
LEMMA WindowedStep ==
    ASSUME HandoffInv, Windowed, HandoffNext
    PROVE  Windowed'
<1>1. /\ kv \in [{"auth", "cost"} \cup Tickets -> KVRow]
      /\ LimitKey \in {"auth", "cost"} /\ LimitKey \notin Tickets
      /\ LimitKey \in {"auth", "cost"} \cup Tickets /\ kv[LimitKey] \in KVRow
  BY HandoffAssumption DEF HandoffInv, HandoffTypeOK, LimitKey
<1>2. LimitKey' = LimitKey
  <2>1. route' = route
    BY DEF HandoffNext, Elapse, CleanupExpiredKV, PassElsewhere, TurnAway, LoginWithGoogle, ValidateFace,
           EnqueueTicket, FailTicket, PollAnswer, GiveUpPolling, StopInstance, ForgetTicket,
           VerifyGoogleToken, ValidateFaceTask
  <2>2. QED
    BY <2>1 DEF LimitKey
<1> DEFINE row == kv[LimitKey]
<1>3. WindowOf(row, passed) /\ row \in KVRow /\ passed \in [1 .. Window -> Nat]
  BY <1>1 DEF Windowed, WindowOf
<1>4. SUFFICES WindowOf(kv'[LimitKey], passed')
  BY <1>2 DEF Windowed
<1>5. CASE kv'[LimitKey] = row /\ passed' = passed
  BY <1>3, <1>5
<1>6. CASE RateLimit
  <2>1. CASE UNCHANGED <<kv, passed>>
    BY <1>5, <2>1
  <2>2. CASE /\ RateLimitHit(row).count <= Limit
             /\ kv' = [kv EXCEPT ![LimitKey] = RateLimitHit(row)]
             /\ passed' = [passed EXCEPT ![1] = @ + 1]
    <3>1. kv'[LimitKey] = RateLimitHit(row)
      BY <1>1, <2>2
    <3>2. Passes(passed, passed')
      BY <2>2 DEF Passes
    <3> HIDE DEF row
    <3>3. QED
      BY <1>3, <2>2, <3>1, <3>2, HitWithin
  <2>3. QED
    BY <1>6, <2>1, <2>2 DEF RateLimit
<1>7. CASE TurnAway
  <2>1. RateLimitHit(row).count > Limit /\ kv'[LimitKey] = RateLimitHit(row) /\ passed' = passed
    BY <1>1, <1>7 DEF TurnAway
  <2> HIDE DEF row
  <2>2. QED
    BY <1>3, <2>1, TurnedAwayWithin
<1>8. CASE Elapse
  <2>1. kv'[LimitKey] = Aged(row) /\ Ages(passed, passed', Window)
    BY <1>1, <1>8 DEF Elapse, Aged, Ages
  <2> HIDE DEF row
  <2>2. QED
    BY <1>3, <2>1, AgedWithin
<1>9. CASE CleanupExpiredKV
  <2>1. kv'[LimitKey] = (IF row.ttl < -Grace THEN Absence ELSE row) /\ passed' = passed
    BY <1>1, <1>9 DEF CleanupExpiredKV, DeleteExpiredKV
  <2> HIDE DEF row
  <2>2. QED
    BY <1>3, <2>1, SweptWithin
<1>10. ASSUME NEW j \in Tickets,
              \/ EnqueueTicket(j) \/ FailTicket(j) \/ PollAnswer(j) \/ GiveUpPolling(j)
              \/ StopInstance(j) \/ ForgetTicket(j) \/ ValidateFaceTask(j)
       PROVE  WindowOf(kv'[LimitKey], passed')
  <2>1. kv' = kv /\ passed' = passed
    BY <1>10 DEF EnqueueTicket, FailTicket, PollAnswer, GiveUpPolling, StopInstance, ForgetTicket, ValidateFaceTask
  <2>2. QED
    BY <1>5, <2>1
<1>11. ASSUME NEW j \in Tickets, VerifyGoogleToken(j) PROVE WindowOf(kv'[LimitKey], passed')
  <2>1. passed' = passed /\ (kv' = kv \/ kv' = SetKV(j, Finding(j)) \/ kv' = SetKV(j, "no"))
    BY <1>11 DEF VerifyGoogleToken, ResultKey
  <2>2. kv'[LimitKey] = row
    BY <1>1, <2>1 DEF SetKV
  <2>3. QED
    BY <1>5, <2>1, <2>2
<1>12. QED
  BY <1>6, <1>7, <1>8, <1>9, <1>10, <1>11 DEF HandoffNext, PassElsewhere, LoginWithGoogle, ValidateFace

\* At the start nothing has passed.
LEMMA WindowedInit ==
    ASSUME HandoffInit
    PROVE  Windowed
<1>1. kv[LimitKey] = Absence /\ passed \in [1 .. Window -> Nat] /\ (\A i \in 1 .. Window : passed[i] = 0)
  BY DEF HandoffInit, LimitKey
<1>2. Absence.ttl = 0 /\ Window \in Nat \ {0} /\ Limit \in Nat
  BY HandoffAssumption DEF Absence
<1>3. SumOf(passed, 1 .. Window) = 0
  <2>1. IsFiniteSet(1 .. Window)
    BY <1>2, FS_Interval
  <2>2. QED
    BY <1>1, <2>1, SumZero
<1>4. 1 \in 1 .. Window
  BY <1>2
<1>5. QED
  BY <1>1, <1>2, <1>3, <1>4 DEF Windowed, WindowOf

\* What passes in a window's time is within two windows' limits, for any limit, window and
\* sweep, and whatever other rows the table holds.
THEOREM TwoWindowsAtMost == HandoffSpec => []AtMostTwoWindows
<1>1. HandoffInv /\ Windowed /\ [HandoffNext]_handoff => Windowed'
  <2>1. ASSUME HandoffInv, Windowed, UNCHANGED handoff PROVE Windowed'
    BY <2>1 DEF handoff, Windowed, LimitKey
  <2>2. QED
    BY <2>1, WindowedStep
<1>2. ASSUME HandoffInv, Windowed PROVE AtMostTwoWindows
  <2> DEFINE row == kv[LimitKey]
             since == Window - row.ttl + 1
  <2>1. row \in KVRow /\ WindowOf(row, passed)
    BY <1>2 DEF HandoffInv, HandoffTypeOK, LimitKey, Windowed
  <2>2. Stretches(passed, Window) /\ Window \in Nat \ {0} /\ Limit \in Nat /\ row.ttl \in Int
    <3> HIDE DEF row
    <3>1. QED
      BY <2>1, Hits DEF WindowOf, Stretches
  <2> HIDE DEF row
  <2>3. SumOf(passed, 1 .. Window) <= 2 * Limit
    <3>1. CASE row.ttl <= 0
      <4>1. SumOf(passed, 1 .. Window) <= Limit
        BY <2>1, <3>1 DEF WindowOf
      <4>2. AgesParted(Window, 1, 0, Window)
        BY <2>2 DEF AgesParted
      <4>3. SumOf(passed, 1 .. Window) \in Nat
        BY <2>2, <4>2, StretchParts
      <4>4. QED
        BY <2>2, <4>1, <4>3
    <3>2. CASE row.ttl > 0
      <4>1. row.ttl <= Window /\ SumOf(passed, 1 .. since) <= Limit /\ SumOf(passed, since + 1 .. Window) <= Limit
        BY <2>1, <3>2 DEF WindowOf
      <4>2. AgesParted(Window, 1, since, Window)
        BY <2>2, <3>2, <4>1 DEF AgesParted
      <4> HIDE DEF since
      <4>3. /\ SumOf(passed, 1 .. since) \in Nat /\ SumOf(passed, since + 1 .. Window) \in Nat
            /\ SumOf(passed, 1 .. Window) = SumOf(passed, 1 .. since) + SumOf(passed, since + 1 .. Window)
        BY <2>2, <4>2, StretchParts
      <4>4. QED
        BY <2>2, <4>1, <4>3
    <3>3. QED
      BY <2>2, <3>1, <3>2
  <2>4. QED
    BY <2>3 DEF AtMostTwoWindows, SumOf
<1>3. HandoffInit => Windowed
  BY WindowedInit
<1>4. QED
  BY <1>1, <1>2, <1>3, HandoffInvariance, PTL DEF HandoffSpec
================================================================================
