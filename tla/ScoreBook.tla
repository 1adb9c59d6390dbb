------------------------------- MODULE ScoreBook -------------------------------
(***************************************************************************)
(* What the score ledger promises the leaderboard, whatever the order of   *)
(* requests and pollers: for each task and user one standing, or none, and *)
(* one flag for a missed deadline.  A decision settles the standing of all *)
(* the users it concerns in one step; the poller only ever raises the      *)
(* flag, and never twice.                                                  *)
(***************************************************************************)
CONSTANTS
    Tasks, Users,
    Awards,         \* what a decision can leave a user with
    NoStanding      \* no decision counts for the user

VARIABLES standing, missed

vars == <<standing, missed>>

Init ==
    /\ standing = [t \in Tasks |-> [u \in Users |-> NoStanding]]
    /\ missed = [t \in Tasks |-> [u \in Users |-> FALSE]]

\* A flag raised while the decision was being taken may outlive it.
Settle(t, us, s) ==
    /\ standing' = [standing EXCEPT ![t] =
                        [u \in Users |-> IF u \in us THEN s ELSE @[u]]]
    /\ \E kept \in SUBSET us :
        missed' = [missed EXCEPT ![t] =
                    [u \in Users |-> IF u \in us \ kept THEN FALSE ELSE @[u]]]

Miss(t, u) ==
    /\ ~missed[t][u]
    /\ missed' = [missed EXCEPT ![t][u] = TRUE]
    /\ UNCHANGED standing

Next ==
    \E t \in Tasks :
        \/ \E us \in SUBSET Users, s \in Awards \cup {NoStanding} : Settle(t, us, s)
        \/ \E u \in Users : Miss(t, u)

Spec == Init /\ [][Next]_vars
================================================================================
