------------------------------ MODULE MCTimeline ------------------------------
(***************************************************************************)
(* Instances of TaskThreads and of MediaJobs for TLC: what is posted to a  *)
(* task's timeline.  The two share no row; either moves while the other is *)
(* still.                                                                  *)
(***************************************************************************)
EXTENDS TaskThreads, MediaJobs

CONSTANTS
    ada, bob, cyd,
    MaxTroubles     \* bound on the faults and stops of the media jobs together

VARIABLE part

Again(p) == [Id(p) EXCEPT !.nr = 2]
Other(p) == [Id(p) EXCEPT !.spelling = "other"]

\* Bob alone, Bob twice and in two roles with Cyd as a subscriber, and Cyd alone, spelled
\* otherwise.
MCLists ==
    {[assignees |-> {Id(bob)}, subscribers |-> {}],
     [assignees |-> {Id(bob), Again(bob)}, subscribers |-> {Id(bob), Id(cyd)}],
     [assignees |-> {Other(cyd)}, subscribers |-> {}]}

\* Nobody, Bob twice and once more in another spelling, Ada and Bob in another, and
\* Ada and Cyd as the database has them.
MCMentions ==
    {{}, {Id(bob), Again(bob), Other(bob)}, {Other(ada), Other(bob)}, {Id(ada), Id(cyd)}}

TimelineInit == Init /\ MediaInit /\ part \in {"threads", "media"}

TimelineNext ==
    \/ part = "threads" /\ Next /\ UNCHANGED <<media, part>>
    \/ /\ part = "media" /\ MediaNext /\ UNCHANGED <<vars, part>>
       /\ faults' + stops' <= MaxTroubles
       /\ source' \cap Compatible = {}  \* no transcode looks at these (Skips)

\* Where nothing has been posted, nothing that is fair has anything to do.
TimelineSpec ==
    TimelineInit /\ [][TimelineNext]_<<vars, media, part>> /\ Fairness /\ MediaFairness
================================================================================
