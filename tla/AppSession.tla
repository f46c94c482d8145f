----------------------------- MODULE AppSession -----------------------------
(***************************************************************************)
(* What the hosted applications share: the requests a session takes until  *)
(* it is closed, and its judgement (routes/api.ts, server.ts of            *)
(* hosted-sites).  An application adds its requests, its evaluator and the *)
(* validation of a recovered snapshot.                                     *)
(*                                                                         *)
(* One request is one step here, judgement apart: what overlapping         *)
(* requests, caches and snapshots do to a session is SessionStore's        *)
(* subject.  A refused request that changes nothing is no step.            *)
(***************************************************************************)
EXTENDS Naturals, Sequences

CONSTANT MaxRequests    \* bound on the accepted requests of a session

VARIABLES
    task,       \* what the generated question asks for
    work,       \* the application's state
    open,       \* whether the envelope says that the session takes requests
    finishing,  \* whether a request has come to evaluate the work
    result,     \* the result the orchestrator stored: none, passed, failed
    log         \* history: the accepted requests

Fresh(t, w) ==
    /\ task = t /\ work = w
    /\ open = TRUE /\ finishing = FALSE /\ result = "none" /\ log = <<>>

(* A request that changes the work, and ends the session or not. *)
Accept(request, w, ends) ==
    /\ open /\ ~finishing /\ Len(log) < MaxRequests
    /\ work' = w
    /\ log' = Append(log, request)
    /\ finishing' = ends
    /\ UNCHANGED <<task, open, result>>

(* POST /api/sessions/<token>/complete. *)
Complete ==
    /\ open /\ ~finishing
    /\ finishing' = TRUE
    /\ UNCHANGED <<task, work, open, result, log>>

Stored(verdict) == IF result = "none" THEN verdict ELSE result

Answered(verdict) == result' = Stored(verdict) /\ open' = FALSE
AnswerLost(verdict) == result' = Stored(verdict) /\ UNCHANGED open
NotReached == UNCHANGED <<result, open>>

(* Without an answer of the orchestrator the request ends in a 502 and the *)
(* session goes on.                                                        *)
Judge(verdict) ==
    /\ finishing /\ finishing' = FALSE
    /\ \/ Answered(verdict)
       \/ AnswerLost(verdict)
       \/ NotReached
    /\ UNCHANGED <<task, work, log>>

(* The envelope is lost and made again from the row and its snapshot. *)
Recover(w) ==
    /\ open /\ ~finishing
    /\ work' = w
    /\ open' = (result = "none")
    /\ UNCHANGED <<task, finishing, result, log>>

TypeOfEnvelope ==
    /\ open \in BOOLEAN /\ finishing \in BOOLEAN
    /\ result \in {"none", "passed", "failed"}
    /\ finishing => open
=============================================================================
