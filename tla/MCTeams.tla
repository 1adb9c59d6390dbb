-------------------------------- MODULE MCTeams --------------------------------
(***************************************************************************)
(* Instances of Teams for TLC: two organisations, of two teams and of one, *)
(* registered by different people.  What happens is inside the first or    *)
(* between the two.                                                        *)
(***************************************************************************)
EXTENDS Teams, TLC

CONSTANTS
    o1, o2, t1, t2, t3, ada, bob,
    MaxBetween      \* bound on the requests between organisations

VARIABLE part

TwoFounders == o1 :> ada @@ o2 :> bob
TwoAndOne   == t1 :> o1 @@ t2 :> o1 @@ t3 :> o2

Symmetry == Permutations(Requests) \cup Permutations({t1, t2})

\* Nobody of the second organisation does anything.
Inside ==
    /\ t3 \notin teams' /\ member'[o2] = member[o2]
    /\ \A r \in Requests : req'[r] # Idle /\ req'[r].step \in {"status", "wipe", "insert"} =>
        req'[r].org = o1

\* Each has one team.
Between == served' <= MaxBetween /\ ~({t1, t2} \subseteq teams')

PartsInit == Init /\ part \in {"inside", "between"}

PartsNext ==
    \/ part = "inside" /\ Next /\ Inside /\ UNCHANGED part
    \/ part = "between" /\ Next /\ Between /\ UNCHANGED part

PartsSpec == PartsInit /\ [][PartsNext]_<<vars, part>>
================================================================================
