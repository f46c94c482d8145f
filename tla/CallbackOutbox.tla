--------------------------- MODULE CallbackOutbox ---------------------------
(***************************************************************************)
(* The callback that tells the Web application how an attempt ended: one   *)
(* row of hosted_callback_outbox and the orchestrator processes that       *)
(* deliver it (callback-outbox.ts, the routines claim_ and reconcile_      *)
(* hosted_callback_outbox).                                                *)
(*                                                                         *)
(* A claim is a lock with a time limit that nobody checks afterwards:      *)
(* marking a row delivered or failed asks only for the status              *)
(* "delivering", whoever claimed it.  A worker that outlives its claim     *)
(* therefore works on next to its successor, and may mark its claim.       *)
(*                                                                         *)
(* Time is one bit of the row.  A row is ripe when next_attempt_at has     *)
(* passed (pending) or locked_at is more than five minutes old             *)
(* (delivering).  The other rows of a batch matter only in that a failed   *)
(* call drops the rest of the batch: Abandon.                              *)
(***************************************************************************)
EXTENDS Naturals

CONSTANTS
    Workers,        \* processes that deliver callbacks
    MaxAttempts     \* claims of a row before it is given up: 8 in the code

VARIABLES
    row,        \* hosted_callback_outbox.status, "none" while absent
    attempts,   \* its attempts column: how often it was claimed
    ripe,       \* whether it may be claimed as far as time goes
    phase,      \* what a worker does with the row
    claim       \* the attempts column in the worker's copy, 0 without one

vars == <<row, attempts, ripe, phase, claim>>

RowStatus == {"none", "pending", "delivering", "delivered", "dead"}
Phase == {"idle", "posting", "accepted", "refused"}
Settled == {"delivered", "dead"}

Init ==
    /\ row = "none"
    /\ attempts = 0
    /\ ripe = FALSE
    /\ phase = [w \in Workers |-> "idle"]
    /\ claim = [w \in Workers |-> 0]

(* An attempt takes its final status: the trigger inserts the row in the   *)
(* same transaction.  Reconciliation inserts it if it is missing, and does *)
(* nothing otherwise.                                                      *)
Enqueue ==
    /\ row = "none"
    /\ row' = "pending"
    /\ ripe' = TRUE
    /\ UNCHANGED <<attempts, phase, claim>>

(* Seeded fault: an old lock is never taken over. *)
TimePassesPendingOnly ==
    /\ row = "pending"
    /\ ~ripe
    /\ ripe' = TRUE
    /\ UNCHANGED <<row, attempts, phase, claim>>

(* The back-off ends, or the lock has been held for five minutes.          *)
TimePasses ==
    /\ row \in {"pending", "delivering"}
    /\ ~ripe
    /\ ripe' = TRUE
    /\ UNCHANGED <<row, attempts, phase, claim>>

Claimable == row \in {"pending", "delivering"} /\ ripe

(* claim_hosted_callback_outbox first gives up the rows whose attempts are *)
(* used, then takes the others, with a copy of the counted row.            *)
GiveUp(w) ==
    /\ phase[w] = "idle"
    /\ Claimable
    /\ attempts >= MaxAttempts
    /\ row' = "dead"
    /\ UNCHANGED <<attempts, ripe, phase, claim>>

Claim(w) ==
    /\ phase[w] = "idle"
    /\ Claimable
    /\ attempts < MaxAttempts
    /\ row' = "delivering"
    /\ attempts' = attempts + 1
    /\ ripe' = FALSE
    /\ phase' = [phase EXCEPT ![w] = "posting"]
    /\ claim' = [claim EXCEPT ![w] = attempts']

(* The answer to the POST, as the worker sees it.  It may see a failure    *)
(* although the receiver did its work: the response was lost, or came late.*)
Answered(w) ==
    /\ phase[w] = "posting"
    /\ phase' = [phase EXCEPT ![w] = "accepted"]
    /\ UNCHANGED <<row, attempts, ripe, claim>>

Refused(w) ==
    /\ phase[w] = "posting"
    /\ phase' = [phase EXCEPT ![w] = "refused"]
    /\ UNCHANGED <<row, attempts, ripe, claim>>

Finish(w) ==
    /\ phase' = [phase EXCEPT ![w] = "idle"]
    /\ claim' = [claim EXCEPT ![w] = 0]
    /\ UNCHANGED attempts

(* Seeded fault: a refused callback is marked delivered as well. *)
MarkDeliveredRegardless(w) ==
    /\ phase[w] \in {"accepted", "refused"}
    /\ row' = IF row = "delivering" THEN "delivered" ELSE row
    /\ Finish(w)
    /\ UNCHANGED ripe

MarkDelivered(w) ==
    /\ phase[w] = "accepted"
    /\ row' = IF row = "delivering" THEN "delivered" ELSE row
    /\ Finish(w)
    /\ UNCHANGED ripe

(* The mark is inside the try block: its failure counts as a failed        *)
(* delivery, although the receiver has accepted the callback.              *)
MarkThrows(w) ==
    /\ phase[w] = "accepted"
    /\ phase' = [phase EXCEPT ![w] = "refused"]
    /\ UNCHANGED <<row, attempts, ripe, claim>>

(* Seeded fault: the update does not ask for the status "delivering". *)
MarkFailedRegardless(w) ==
    /\ phase[w] = "refused"
    /\ row' = IF claim[w] >= MaxAttempts THEN "dead" ELSE "pending"
    /\ ripe' = FALSE
    /\ Finish(w)

(* The worker's own copy decides whether the row is given up or backs off. *)
MarkFailed(w) ==
    /\ phase[w] = "refused"
    /\ IF row = "delivering"
       THEN /\ row' = IF claim[w] >= MaxAttempts THEN "dead" ELSE "pending"
            /\ ripe' = FALSE
       ELSE UNCHANGED <<row, ripe>>
    /\ Finish(w)

(* The process dies, or the mark of another row of the batch fails: the    *)
(* row stays "delivering" until its lock is old.                           *)
Abandon(w) ==
    /\ phase[w] # "idle"
    /\ Finish(w)
    /\ UNCHANGED <<row, ripe>>

(* What a worker does of its own accord; the answers come from outside.    *)
Step(w) ==
    GiveUp(w) \/ Claim(w) \/ MarkDelivered(w) \/ MarkThrows(w) \/ MarkFailed(w)

-----------------------------------------------------------------------------
TypeOK ==
    /\ row \in RowStatus
    /\ attempts \in 0..MaxAttempts
    /\ ripe \in BOOLEAN
    /\ phase \in [Workers -> Phase]
    /\ claim \in [Workers -> 0..MaxAttempts]

(* A callback is given up only after all its claims were used up, however  *)
(* many workers outlive their claims (callback-outbox.ts:132, and the      *)
(* first statement of the claim).                                          *)
DeadAfterAllAttempts == row = "dead" => attempts = MaxAttempts
=============================================================================
