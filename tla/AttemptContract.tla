-------------------------- MODULE AttemptContract --------------------------
(***************************************************************************)
(* What a hosted benchmark attempt promises to whoever reads its outcome:  *)
(* the sessions of the suite are finished one at a time and in suite       *)
(* order; the attempt then takes exactly one final status, together with   *)
(* exactly one verdict and, unless its owner cancelled it, exactly one     *)
(* notice to the Web control plane; nothing of that changes afterwards;    *)
(* and an attempt does not stay open for ever.                             *)
(*                                                                         *)
(* The promise says nothing of commands, retries, workers, deadlines or    *)
(* database rows: AttemptLifecycle implements it with those.               *)
(***************************************************************************)
EXTENDS Naturals

CONSTANT N      \* how many sessions the suite has

VARIABLES
    status,     \* "running" or the final status
    finished,   \* the sessions that have a result: a prefix of 1..N
    verdict,    \* the verdict on the whole suite, or "none"
    notice      \* the status announced to the control plane, or "none"

vars == <<status, finished, verdict, notice>>

FinalStatus(v) == IF v = "error" THEN "failed" ELSE "completed"

Init ==
    /\ status = "running"
    /\ finished = {}
    /\ verdict = "none"
    /\ notice = "none"

(* The next session in suite order gets its result; others remain. *)
Advance ==
    /\ status = "running"
    /\ \E s \in 1..(N - 1) : finished = 1..(s - 1) /\ finished' = 1..s
    /\ UNCHANGED <<status, verdict, notice>>

(* The last session gets its result and the suite its verdict. *)
Finish ==
    /\ status = "running"
    /\ finished = 1..(N - 1)
    /\ finished' = 1..N
    /\ verdict' \in {"passed", "failed", "error"}
    /\ status' = FinalStatus(verdict')
    /\ notice' = status'

TimeOut ==
    /\ status = "running"
    /\ status' = "timeout"
    /\ verdict' = "error"
    /\ notice' = "timeout"
    /\ UNCHANGED finished

(* A cancelled attempt is not scored, and the control plane, which asked   *)
(* for it, is not told.                                                    *)
Cancel ==
    /\ status = "running"
    /\ status' = "cancelled"
    /\ UNCHANGED <<finished, verdict, notice>>

Next == Advance \/ Finish \/ TimeOut \/ Cancel

(* Without the fairness: what TLAPS proves AttemptLifecycle implements. *)
Safety == Init /\ [][Next]_vars

Spec == Safety /\ WF_vars(Next)
=============================================================================
