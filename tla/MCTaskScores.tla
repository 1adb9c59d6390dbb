----------------------------- MODULE MCTaskScores -----------------------------
(* Instances of TaskScores for TLC. *)
EXTENDS TaskScores, TLC

CONSTANTS u1, u2

Alone     == {u1}
Together  == {u1, u2}

\* The assignees of a task never change.
FixedAssignees == {Together}
\* A second assignee comes and goes.
VaryingAssignees == {Alone, Together}

DatedPayloads   == {1, 2}
UndatedPayloads == {1, NoDue}

Symmetry == Permutations(Requests) \cup Permutations(Pollers)
================================================================================
