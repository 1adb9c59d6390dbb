---------------------------- MODULE MCWorkerAnswers ----------------------------
(***************************************************************************)
(* Instances of Attendance and of Handoff for TLC: the three requests that *)
(* leave a job with the worker and have its answer from a table.  The two  *)
(* share no row; either moves while the other is still.                    *)
(***************************************************************************)
EXTENDS Attendance, Handoff

VARIABLE part

CONSTANTS north, south

\* Everybody is in both teams.
MCTeamsOf == [u \in Users |-> {north, south}]

\* The other part has one state to be still in.
AnswersInit ==
    /\ Init /\ HandoffInit
    /\ \/ part = "attendance" /\ route = "google"
       \/ part = "handoff" /\ enabled /\ registered = {} /\ minute = Min(Minutes)

AnswersNext ==
    \/ part = "attendance" /\ Next /\ UNCHANGED <<handoff, part>>
    \/ part = "handoff" /\ HandoffNext /\ UNCHANGED <<vars, part>>

\* Where nothing has been asked for, nothing that is fair has anything to do.
AnswersSpec ==
    AnswersInit /\ [][AnswersNext]_<<vars, handoff, part>> /\ Fairness /\ HandoffFairness
================================================================================
