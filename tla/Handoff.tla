-------------------------------- MODULE Handoff --------------------------------
(***************************************************************************)
(* What the API hands to the worker and waits for: a Google credential,    *)
(* answered through a row of app_kv (LoginWithGoogle,                      *)
(* worker/tasks/google_auth.go), and the photo of a face, answered in its  *)
(* own table (handlers/upload.go, services/face_validation.go).  Both stand*)
(* behind a rate limit that counts in app_kv (middleware/ratelimit.go), and*)
(* a scheduled task sweeps that table.                                     *)
(*                                                                         *)
(* Time is what the rows have left: Elapse takes a tick from each.         *)
(***************************************************************************)
EXTENDS Integers, Sequences, FiniteSets, FiniteSetsExt

CONSTANTS
    Tickets,        \* job ids; one is taken again when nothing is left of its job
    Things,         \* credentials, or photos
    Genuine,        \* those Google vouches for, or that show one face
    Limit, Window,  \* of a rate limit
    Wait,           \* how long a login polls
    AnswerTTL,      \* how long its answer can be read
    Grace,          \* how long an expired row is kept
    MaxTries,       \* bound on the deliveries of a message
    MaxFailures     \* bound on failed calls and stopped instances

ASSUME HandoffAssumption ==
    /\ Genuine \subseteq Things
    /\ {"auth", "cost"} \cap Tickets = {}       \* prefixes tell the keys apart
    /\ Limit \in Nat \ {0} /\ Window \in Nat \ {0} /\ Grace \in Nat
    /\ Wait \in Nat \ {0} /\ AnswerTTL \in Nat /\ Wait < AnswerTTL
    /\ MaxTries \in Nat \ {0} /\ MaxFailures \in Nat

VARIABLES
    kv,         \* app_kv
    ticket,     \* what becomes of each job
    queue,      \* the deliveries left of its message
    passed,     \* how many the limiter let through, tick by tick over the last Window
    failures,
    route       \* what is asked for: the two have limiters, and keys, of their own

handoff == <<kv, ticket, queue, passed, failures, route>>

--------------------------------------------------------------------------------
Kinds == {"google", "face"}

\* ratelimit:auth:{ip}, ratelimit:cost:{user}
LimitKey == IF route = "google" THEN "auth" ELSE "cost"

Absence == [value |-> "none", count |-> 0, ttl |-> 0]
Free    == [kind |-> "none", thing |-> "none", phase |-> "free", answer |-> "none", waited |-> 0]

\* Mutant: the answer is left under a key of the caller's.
ResultKeyOfCaller(j) == CHOOSE k \in Tickets : TRUE

\* google_auth:{job_id}
ResultKey(j) == j

HandoffInit ==
    /\ kv = [k \in {"auth", "cost"} \cup Tickets |-> Absence]
    /\ ticket = [j \in Tickets |-> Free]
    /\ queue = [j \in Tickets |-> 0]
    /\ passed = [i \in 1 .. Window |-> 0]
    /\ failures = 0
    /\ route \in Kinds

Failing == failures < MaxFailures /\ failures' = failures + 1

--------------------------------------------------------------------------------
(* app_kv *)

\* Mutant: every hit begins the window again.
HitProlonging(row) ==
    IF row = Absence \/ row.ttl <= 0 THEN [value |-> "none", count |-> 1, ttl |-> Window]
    ELSE [row EXCEPT !.count = Min({@ + 1, Limit + 1}), !.ttl = Window]

\* A count past the limit is not told from the next one.
RateLimitHit(row) ==
    IF row = Absence \/ row.ttl <= 0 THEN [value |-> "none", count |-> 1, ttl |-> Window]
    ELSE [row EXCEPT !.count = Min({@ + 1, Limit + 1})]

SetKV(key, value) == [kv EXCEPT ![key] = [value |-> value, count |-> 0, ttl |-> AnswerTTL]]

\* "none" for no rows.
GetKV(key) == IF kv[key].ttl > 0 THEN kv[key].value ELSE "none"

\* Mutants: the counters are swept while they count; the answers are not swept.
SweepAnyCounter ==
    [k \in DOMAIN kv |-> IF kv[k].count > 0 \/ kv[k].ttl < -Grace THEN Absence ELSE kv[k]]
SweepCountersOnly ==
    [k \in DOMAIN kv |-> IF kv[k].count > 0 /\ kv[k].ttl < -Grace THEN Absence ELSE kv[k]]

DeleteExpiredKV == [k \in DOMAIN kv |-> IF kv[k].ttl < -Grace THEN Absence ELSE kv[k]]

\* The scheduled task.
CleanupExpiredKV ==
    /\ kv' = DeleteExpiredKV
    /\ UNCHANGED <<ticket, queue, passed, failures, route>>

\* A request is let through; on an error of the database as well, uncounted.
RateLimit ==
    \/ \E hit \in {RateLimitHit(kv[LimitKey])} :
        /\ hit.count <= Limit
        /\ kv' = [kv EXCEPT ![LimitKey] = hit]
        /\ passed' = [passed EXCEPT ![1] = @ + 1]
        /\ UNCHANGED failures
    \/ Failing /\ UNCHANGED <<kv, passed>>

\* Or it is turned away, and counted all the same.
TurnAway ==
    /\ RateLimitHit(kv[LimitKey]).count > Limit
    /\ kv' = [kv EXCEPT ![LimitKey] = RateLimitHit(@)]
    /\ UNCHANGED <<ticket, queue, passed, failures, route>>

\* The other routes behind the limiters.
PassElsewhere == RateLimit /\ UNCHANGED <<ticket, queue, route>>

--------------------------------------------------------------------------------
(* The API *)

Asked(kind, thing) ==
    [kind |-> kind, thing |-> thing, phase |-> "asked", answer |-> "none", waited |-> 0]

Ended(j, answer) == [ticket EXCEPT ![j] = [ticket[j] EXCEPT !.phase = "ended", !.answer = answer]]

\* POST /google-login
LoginWithGoogle(j, thing) ==
    /\ route = "google" /\ ticket[j] = Free /\ RateLimit
    /\ ticket' = [ticket EXCEPT ![j] = Asked("google", thing)]
    /\ UNCHANGED <<queue, route>>

\* POST /upload/validate-face: InsertJob puts a pending row.
ValidateFace(j, thing) ==
    /\ route = "face" /\ ticket[j] = Free /\ RateLimit
    /\ ticket' = [ticket EXCEPT ![j] = Asked("face", thing)]
    /\ UNCHANGED <<queue, route>>

\* The statement after it.
EnqueueTicket(j) ==
    /\ ticket[j].phase = "asked"
    /\ ticket' = [ticket EXCEPT ![j].phase = "waiting"]
    /\ queue' = [queue EXCEPT ![j] = MaxTries]
    /\ UNCHANGED <<kv, passed, failures, route>>

\* The login fails with it; the page of the photo is not told.  An instance that
\* stops leaves the same behind.
FailTicket(j) ==
    /\ ticket[j].phase = "asked" /\ Failing
    /\ ticket' = IF ticket[j].kind = "google" THEN Ended(j, "late")
                 ELSE [ticket EXCEPT ![j].phase = "waiting"]
    /\ UNCHANGED <<kv, queue, passed, route>>

Polls(j) == ticket[j].kind = "google" /\ ticket[j].phase = "waiting"

PollAnswer(j) ==
    /\ Polls(j) /\ ticket[j].waited < Wait
    /\ GetKV(ResultKey(j)) # "none"
    /\ ticket' = Ended(j, GetKV(ResultKey(j)))
    /\ UNCHANGED <<kv, queue, passed, failures, route>>

GiveUpPolling(j) ==
    /\ Polls(j) /\ ticket[j].waited = Wait
    /\ ticket' = Ended(j, "late")
    /\ UNCHANGED <<kv, queue, passed, failures, route>>

StopInstance(j) ==
    /\ Polls(j) /\ Failing
    /\ ticket' = Ended(j, "late")
    /\ UNCHANGED <<kv, queue, passed, route>>

\* Nothing is left of a job, and its page has gone: its ticket stands for another.
ForgetTicket(j) ==
    /\ ticket[j] # Free /\ ticket[j].answer # "none"
    /\ queue[j] = 0 /\ kv[ResultKey(j)] = Absence
    /\ ticket' = [ticket EXCEPT ![j] = Free]
    /\ UNCHANGED <<kv, queue, passed, failures, route>>

--------------------------------------------------------------------------------
(* The worker *)

Finding(j) == IF ticket[j].thing \in Genuine THEN "yes" ELSE "no"

\* A task that returns an error may be tried again.
Retried(j) == \E left \in {0, queue[j] - 1} : queue' = [queue EXCEPT ![j] = left]

\* The answer is written before the error of a credential that did not verify is
\* returned; Google out of reach looks the same.
VerifyGoogleToken(j) ==
    /\ queue[j] > 0 /\ ticket[j].kind = "google"
    /\ \/ UNCHANGED failures /\ kv' = SetKV(ResultKey(j), Finding(j))
            /\ IF Finding(j) = "yes" THEN queue' = [queue EXCEPT ![j] = 0] ELSE Retried(j)
       \/ Failing /\ kv' = SetKV(ResultKey(j), "no") /\ Retried(j)
       \/ Failing /\ UNCHANGED kv /\ Retried(j)
    /\ UNCHANGED <<ticket, passed, route>>

\* An error of the detection is written as an answer, and the write may be lost.
ValidateFaceTask(j) ==
    /\ queue[j] > 0 /\ ticket[j].kind = "face"
    /\ \/ /\ UNCHANGED failures
          /\ ticket' = [ticket EXCEPT ![j].answer = Finding(j)]
          /\ queue' = [queue EXCEPT ![j] = 0]
       \/ /\ Failing /\ Retried(j)
          /\ \E answer \in {"no", ticket[j].answer} : ticket' = [ticket EXCEPT ![j].answer = answer]
    /\ UNCHANGED <<kv, passed, route>>

--------------------------------------------------------------------------------
\* A row that has expired for longer than Grace is not told from the next one.
Elapse ==
    /\ kv' = [k \in DOMAIN kv |->
                IF kv[k] = Absence THEN Absence ELSE [kv[k] EXCEPT !.ttl = Max({@ - 1, -Grace - 1})]]
    /\ ticket' = [j \in Tickets |->
                IF Polls(j) THEN [ticket[j] EXCEPT !.waited = Min({@ + 1, Wait})] ELSE ticket[j]]
    /\ passed' = <<0>> \o SubSeq(passed, 1, Window - 1)
    /\ UNCHANGED <<queue, failures, route>>

HandoffNext ==
    \/ Elapse \/ CleanupExpiredKV
    \/ PassElsewhere \/ TurnAway
    \/ \E j \in Tickets :
        \/ \E thing \in Things : LoginWithGoogle(j, thing) \/ ValidateFace(j, thing)
        \/ EnqueueTicket(j) \/ FailTicket(j)
        \/ PollAnswer(j) \/ GiveUpPolling(j) \/ StopInstance(j) \/ ForgetTicket(j)
        \/ VerifyGoogleToken(j) \/ ValidateFaceTask(j)

\* Time passes and the schedule keeps its beat; a handler goes on and gives up when
\* its time has come; the worker takes every message in the end.
HandoffFairness ==
    /\ WF_handoff(Elapse) /\ WF_handoff(CleanupExpiredKV)
    /\ \A j \in Tickets :
        /\ WF_handoff(EnqueueTicket(j)) /\ WF_handoff(GiveUpPolling(j)) /\ WF_handoff(ForgetTicket(j))
        /\ WF_handoff(VerifyGoogleToken(j)) /\ WF_handoff(ValidateFaceTask(j))

--------------------------------------------------------------------------------
(* Properties *)

\* A job is granted only what was found of its own credential or photo, and denied it
\* only for that or a failure, however late the answers of earlier jobs arrive; and an
\* answer left while its login polls can be read until the login gives up.
AnswersAreOwn ==
    \A j \in Tickets :
        /\ ticket[j].answer = "yes" => ticket[j].thing \in Genuine
        /\ ticket[j].answer = "no" => ticket[j].thing \notin Genuine \/ failures > 0
        /\ Polls(j) /\ ticket[j].waited < Wait /\ kv[ResultKey(j)] # Absence => GetKV(ResultKey(j)) # "none"

\* The windows are fixed, so a stretch as long as one meets two of them at most,
\* whatever is turned away, expires or is swept in between (app_kv.sql, ratelimit.go).
AtMostTwoWindows ==
    MapThenSumSet(LAMBDA i : passed[i], 1 .. Window) <= 2 * Limit

\* Who is turned away is let through in the end, however many go on asking meanwhile.
TurnedAwayForAWindow ==
    RateLimitHit(kv[LimitKey]).count > Limit ~> RateLimitHit(kv[LimitKey]).count <= Limit

\* A job comes to its end and leaves no row and no message behind; only the photo
\* whose enqueue or answer failed may be pending for good.
JobsEndCleanly ==
    \A j \in Tickets :
        ticket[j] # Free ~> \/ ticket[j] = Free
                            \/ failures > 0 /\ ticket[j].kind = "face" /\ ticket[j].answer = "none"
================================================================================
