------------------------------- MODULE MCPages --------------------------------
(***************************************************************************)
(* Instances of the calculations and of Listings for TLC: what the pages   *)
(* compute and what they list.  The two share no row; either moves while   *)
(* the other is still.                                                     *)
(***************************************************************************)
EXTENDS MCCalculations, Listings

VARIABLE part

MCCreatedAt == (ada :> 1) @@ (bob :> 2) @@ (cyd :> 3)
MCTeamName  == (north :> 1) @@ (south :> 2)

\* The calculations have one state to be still in.
PagesInit ==
    /\ Init /\ ListingsInit
    /\ \/ part = "calculations"
       \/ part = "lists" /\ LedgerInit

PagesNext ==
    \/ part = "calculations" /\ Next /\ UNCHANGED <<listings, part>>
    \/ part = "lists" /\ ListingsNext /\ UNCHANGED <<vars, part>>

PagesSpec == PagesInit /\ [][PagesNext]_<<vars, listings, part>>
================================================================================
