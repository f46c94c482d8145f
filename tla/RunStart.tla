------------------------------ MODULE RunStart ------------------------------
(***************************************************************************)
(* The start of a run: the Web application's connect route and the owner's *)
(* cancellation, composed with the initialization of the attempt in the    *)
(* orchestrator.  The agent's identity is known from the creation of the   *)
(* run (RunOutcome has it reported later).  Connects name the revision of  *)
(* the case that is current when they read it; a new one may be published  *)
(* at any time.                                                            *)
(***************************************************************************)
EXTENDS Naturals, Sequences, FiniteSets

CONSTANTS Processes, Revisions, Commands, Nobody, Cancellers

ASSUME NobodyAssumption == Nobody \notin (Processes \X Revisions) \cup Revisions

VARIABLES
    transactional, attempt, sessions, announced, lease, outlived, stage,
    leased, command,                            \* the orchestrator
    run, connected, endings, submission, cancellation,      \* the run in Web
    current,        \* benchmark_cases.current_revision_id
    connect,        \* per connect request: where the route stands, or its answer
    unseen          \* whether a cancellation found no attempt to cancel

initVars == <<transactional, attempt, sessions, announced, lease, outlived,
              stage, leased, command>>
webVars == <<run, connected, endings, submission, cancellation>>
vars == <<initVars, webVars, current, connect, unseen>>

(* A connect sends at most one command, which carries its name.            *)
Orchestrator == INSTANCE AttemptInitialization
Web == INSTANCE RunControl WITH Submitters <- {}

Init ==
    /\ Orchestrator!Init
    /\ Web!Init /\ Web!Registered
    /\ current \in Revisions
    /\ connect = [c \in Commands |-> [state |-> "none", revision |-> Nobody]]
    /\ unseen = FALSE

Answer == {"connected", "410", "409", "retry"}
GoOn(c, state, revision) ==
    connect' = [connect EXCEPT ![c] = [state |-> state, revision |-> revision]]

(* GET .../connect: an ended run is turned away.                           *)
ReadRun(c) ==
    /\ connect[c].state \in {"none", "retry"}
    /\ command[c].state = "new"
    /\ IF run \in Web!Final THEN GoOn(c, "410", Nobody)
                            ELSE GoOn(c, "recovering", current)
    /\ UNCHANGED <<initVars, webVars, current, unseen>>

(* GET /api/attempts/connection of the orchestrator refuses an attempt of  *)
(* another revision, and one whose sessions are not there yet.             *)
Found(revision) ==
    IF attempt.revision # revision THEN "409"
    ELSE IF sessions THEN "connected" ELSE "retry"

(* The web asks for a connection to an attempt that exists; if there is    *)
(* none it goes on to POST /api/attempts/init, whose command looks for     *)
(* itself.                                                                 *)
RecoverConnection(c) ==
    /\ connect[c].state = "recovering"
    /\ ~Orchestrator!Absent
    /\ GoOn(c, Found(connect[c].revision), Nobody)
    /\ UNCHANGED <<initVars, webVars, current, unseen>>

PostInit(c) ==
    /\ connect[c].state = "recovering"
    /\ Orchestrator!Absent
    /\ GoOn(c, "waiting", Nobody)
    /\ Orchestrator!Enqueue(c, connect[c].revision)
    /\ UNCHANGED <<webVars, current, unseen>>

InitAnswered(c) ==
    /\ connect[c].state = "waiting"
    /\ command[c].state \in {"ok", "error"}
    /\ GoOn(c, IF command[c].state = "ok" THEN "connected" ELSE "retry", Nobody)
    /\ UNCHANGED <<initVars, webVars, current, unseen>>

(* 504 of the command backbone, while the command lives on.                *)
GiveUpWaiting(c) ==
    /\ connect[c].state \in {"recovering", "waiting"}
    /\ GoOn(c, "retry", Nobody)
    /\ UNCHANGED <<initVars, webVars, current, unseen>>

Publish ==
    /\ current' \in Revisions \ {current}
    /\ UNCHANGED <<initVars, webVars, connect, unseen>>

-----------------------------------------------------------------------------
Dispatch(c, p) ==
    /\ Orchestrator!Dispatch(c, p)
    /\ UNCHANGED <<webVars, current, connect, unseen>>

FlightStep(f) ==
    /\ Orchestrator!FlightStep(f)
    /\ UNCHANGED <<webVars, current, connect, unseen>>

Crash(p) ==
    /\ Orchestrator!Crash(p)
    /\ UNCHANGED <<webVars, current, connect, unseen>>

LeaseExpires(r) ==
    /\ Orchestrator!LeaseExpires(r)
    /\ UNCHANGED <<webVars, current, connect, unseen>>

(* Seeded fault: an attempt whose sessions are not there yet is missed. *)
CancelCompleteAttempt(k) ==
    /\ Web!AttemptCancelled(k, TRUE)
    /\ IF sessions THEN Orchestrator!CancelRow ELSE UNCHANGED initVars
    /\ unseen' = (unseen \/ Orchestrator!Absent)
    /\ UNCHANGED <<current, connect>>

(* The orchestrator cancels the attempt, or answers not_initialized.       *)
CancelAttempt(k) ==
    /\ Web!AttemptCancelled(k, TRUE)
    /\ Orchestrator!CancelRow
    /\ unseen' = (unseen \/ Orchestrator!Absent)
    /\ UNCHANGED <<current, connect>>

CancelStep(k) ==
    /\ \/ Web!ReadForCancel(k) \/ Web!OrchestratorSilent(k)
       \/ Web!CancelRun(k) \/ Web!CancelLost(k)
    /\ UNCHANGED <<initVars, current, connect, unseen>>

Next ==
    \/ \E c \in Commands :
         \/ ReadRun(c) \/ RecoverConnection(c) \/ PostInit(c)
         \/ InitAnswered(c) \/ GiveUpWaiting(c)
         \/ \E p \in Processes : Dispatch(c, p)
    \/ \E f \in Orchestrator!Flights : FlightStep(f)
    \/ \E p \in Processes : Crash(p)
    \/ \E r \in Revisions : LeaseExpires(r)
    \/ \E k \in Cancellers : CancelAttempt(k) \/ CancelStep(k)
    \/ Publish

Spec == Init /\ [][Next]_vars

-----------------------------------------------------------------------------
TypeOK ==
    /\ Orchestrator!TypeOK
    /\ current \in Revisions
    /\ connect \in [Commands -> [state : {"none", "recovering", "waiting"}
                                         \cup Answer,
                                 revision : Revisions \cup {Nobody}]]
    /\ unseen \in BOOLEAN

AnnouncedOnce == Orchestrator!AnnouncedOnce
LeaseHeld == Orchestrator!LeaseHeld

(* An agent that is told to start has an attempt with all its sessions,    *)
(* however the connects raced, crashed or were given up (attempt-          *)
(* consistency.md:49).                                                     *)
ConnectedToAttempt ==
    \A c \in Commands : connect[c].state = "connected" => Orchestrator!Complete

(* An attempt goes on under a cancelled run only if the orchestrator had   *)
(* found none when the owner asked: a cancellation never misses an attempt *)
(* that exists.                                                            *)
CancellationReaches ==
    run = "cancelled" /\ attempt.status = "running" => unseen
=============================================================================
