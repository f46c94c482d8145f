---------------------------- MODULE RunContract ----------------------------
(***************************************************************************)
(* What the system promises about the end of a run.  An attempt ends once; *)
(* the run ends once, either as its attempt did or because its owner       *)
(* cancelled it; and a run whose attempt ended by itself ends too, unless  *)
(* telling it is given up, which stays visible.                            *)
(***************************************************************************)
VARIABLES
    outcome,    \* how the attempt ended, or "open"
    told,       \* how the run ended, or "open"
    givenUp     \* whether telling the run was given up

vars == <<outcome, told, givenUp>>

ByItself == {"completed", "failed", "timeout"}

Init ==
    /\ outcome = "open"
    /\ told = "open"
    /\ givenUp = FALSE

AttemptEnds ==
    /\ outcome = "open"
    /\ outcome' \in ByItself \cup {"cancelled"}
    /\ UNCHANGED <<told, givenUp>>

Tell ==
    /\ outcome \in ByItself
    /\ told = "open"
    /\ told' = outcome
    /\ UNCHANGED <<outcome, givenUp>>

OwnerCancels ==
    /\ told = "open"
    /\ told' = "cancelled"
    /\ UNCHANGED <<outcome, givenUp>>

GiveUp ==
    /\ outcome \in ByItself
    /\ givenUp' = TRUE
    /\ UNCHANGED <<outcome, told>>

Next == AttemptEnds \/ Tell \/ OwnerCancels \/ GiveUp

Safety == Init /\ [][Next]_vars

Spec == Safety /\ (outcome \in ByItself ~> told # "open" \/ givenUp)
=============================================================================
