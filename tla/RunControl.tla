----------------------------- MODULE RunControl -----------------------------
(***************************************************************************)
(* A run as the Web application keeps it: the row of benchmark_runs with   *)
(* its events, and the requests that write them (web-control-plane/        *)
(* repository.ts, lib/db.ts, the routes under app/api/runs).               *)
(*                                                                         *)
(* Every write is one transaction with a compare-and-set on the status,    *)
(* but the requests read the run before it, in calls of their own.         *)
(***************************************************************************)
EXTENDS Naturals, Sequences

CONSTANTS
    Submitters,     \* requests that report the agent's identity
    Cancellers      \* requests of the owner to cancel the run

VARIABLES
    run,            \* benchmark_runs.status
    connected,      \* how many events "agent.connected" the run has
    endings,        \* the final events of the run, in the order inserted
    submission,     \* per submitter: what it has read, or its answer
    cancellation    \* per canceller: where the route stands, or its answer

vars == <<run, connected, endings, submission, cancellation>>

Open == {"queued", "waiting_for_agent", "agent_connected", "starting",
         "running", "scoring"}
Final == {"completed", "failed", "cancelled", "timeout"}

(* Answers of the cancel route. *)
CancelAnswer == {"200", "409", "503"}

Init ==
    /\ run \in {"waiting_for_agent", "queued"}
    /\ connected = 0
    /\ endings = <<>>
    /\ submission = [m \in Submitters |-> "none"]
    /\ cancellation = [c \in Cancellers |-> "none"]

-----------------------------------------------------------------------------
(* PATCH .../metadata.  The status the update writes is computed from a    *)
(* first read; identity is looked up in the model catalogue meanwhile.     *)
ReadForMetadata(m) ==
    /\ submission[m] = "none"
    /\ submission' = [submission EXCEPT ![m] = IF run \in Final THEN "locked"
                                               ELSE run]
    /\ UNCHANGED <<run, connected, endings, cancellation>>

(* The transaction reads the status again and writes only if it is still   *)
(* that one; the event is inserted if this second read saw a waiting run.  *)
WriteMetadata(m) ==
    /\ submission[m] \in Open
    /\ run \in Open
    /\ run' = IF submission[m] = "waiting_for_agent" THEN "agent_connected"
              ELSE submission[m]
    /\ connected' = connected +
         (IF submission[m] = "waiting_for_agent" /\ run = "waiting_for_agent"
          THEN 1 ELSE 0)
    /\ submission' = [submission EXCEPT ![m] = "written"]
    /\ UNCHANGED <<endings, cancellation>>

(* hasRegisteredRunMetadata: the identity came from the connection page, or*)
(* from the creation of a run that waits no more.                          *)
Registered ==
    \/ \E m \in Submitters : submission[m] = "written"
    \/ run \in Open \ {"waiting_for_agent"}

(* The run has ended since, or its status changed between the second read  *)
(* and the update: nothing is written and the route answers 404.           *)
MetadataConflict(m) ==
    /\ submission[m] \in Open
    /\ run \in Final \/ run # submission[m]
    /\ submission' = [submission EXCEPT ![m] = "lost"]
    /\ UNCHANGED <<run, connected, endings, cancellation>>

(* POST .../events with the type agent.connected, run.running,             *)
(* run.completed or run.failed: the event is inserted and the status is    *)
(* set to what the type reports, whatever it was.                          *)
ReportStatus(reported) ==
    /\ run' = reported
    /\ connected' = connected + (IF reported = "agent_connected" THEN 1 ELSE 0)
    /\ endings' = IF reported \in Final THEN Append(endings, reported) ELSE endings
    /\ UNCHANGED <<submission, cancellation>>

-----------------------------------------------------------------------------
(* Seeded fault: the update does not compare the status. *)
CompleteRegardless(outcome) ==
    /\ run' = outcome
    /\ endings' = Append(endings, outcome)
    /\ UNCHANGED <<connected, submission, cancellation>>

(* POST .../complete: the first final status wins, and only the winner     *)
(* inserts its event and artifacts.  Losing is answered 200 as well.       *)
Complete(outcome) ==
    /\ IF run \in Open
       THEN /\ run' = outcome
            /\ endings' = Append(endings, outcome)
       ELSE UNCHANGED <<run, endings>>
    /\ UNCHANGED <<connected, submission, cancellation>>

-----------------------------------------------------------------------------
(* POST .../cancel: read the run, have the orchestrator cancel the         *)
(* attempt, then compare-and-set the run.  After a 503 the owner may try   *)
(* again.                                                                  *)
ReadForCancel(c) ==
    /\ cancellation[c] \in {"none", "503"}
    /\ cancellation' = [cancellation EXCEPT ![c] =
         IF run = "cancelled" THEN "200" ELSE IF run \in Final THEN "409" ELSE "asking"]
    /\ UNCHANGED <<run, connected, endings, submission>>

(* The orchestrator's answer: cancelled or not initialized (ok), ended     *)
(* otherwise (409), or none (503).                                         *)
AttemptCancelled(c, ok) ==
    /\ cancellation[c] = "asking"
    /\ cancellation' = [cancellation EXCEPT ![c] = IF ok THEN "writing" ELSE "409"]
    /\ UNCHANGED <<run, connected, endings, submission>>

OrchestratorSilent(c) ==
    /\ cancellation[c] = "asking"
    /\ cancellation' = [cancellation EXCEPT ![c] = "503"]
    /\ UNCHANGED <<run, connected, endings, submission>>

(* Seeded fault: losing the compare-and-set is answered as success. *)
CancelRunAnyway(c) ==
    /\ cancellation[c] = "writing"
    /\ IF run \in Open
       THEN /\ run' = "cancelled"
            /\ endings' = Append(endings, "cancelled")
       ELSE UNCHANGED <<run, endings>>
    /\ cancellation' = [cancellation EXCEPT ![c] = "200"]
    /\ UNCHANGED <<connected, submission>>

CancelRun(c) ==
    /\ cancellation[c] = "writing"
    /\ IF run \in Open
       THEN /\ run' = "cancelled"
            /\ endings' = Append(endings, "cancelled")
       ELSE UNCHANGED <<run, endings>>
    /\ cancellation' = [cancellation EXCEPT ![c] =
                          IF run' = "cancelled" THEN "200" ELSE "409"]
    /\ UNCHANGED <<connected, submission>>

(* The Web process dies before its answer.                                 *)
CancelLost(c) ==
    /\ cancellation[c] \in {"asking", "writing"}
    /\ cancellation' = [cancellation EXCEPT ![c] = "503"]
    /\ UNCHANGED <<run, connected, endings, submission>>
=============================================================================
