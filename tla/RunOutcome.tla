----------------------------- MODULE RunOutcome -----------------------------
(***************************************************************************)
(* The end of a run: the hosted attempt, the callback that reports it, the *)
(* Web application's row and its owner, composed.                          *)
(*                                                                         *)
(* The attempt is its contract, which AttemptLifecycle implements, with    *)
(* the suite as one session: what happens between the sessions does not    *)
(* reach the run.  Its final status and the outbox row are one             *)
(* transaction.  The Web application and the orchestrator only meet in     *)
(* requests, any of which may fail, or take effect and seem to fail.       *)
(*                                                                         *)
(* Assumed of the senders of run events: ReportRunning.                    *)
(***************************************************************************)
EXTENDS Naturals, Sequences

CONSTANTS Workers, MaxAttempts, Submitters, Cancellers

ASSUME MaxAttemptsAssumption == MaxAttempts \in Nat \ {0}

VARIABLES
    connect,                                    \* how far the agent's connect came
    status, finished, verdict, notice,          \* the attempt
    row, attempts, ripe, phase, claim,          \* its callback
    run, connected, endings, submission, cancellation   \* the run

attemptVars == <<status, finished, verdict, notice>>
outboxVars == <<row, attempts, ripe, phase, claim>>
webVars == <<run, connected, endings, submission, cancellation>>
vars == <<connect, attemptVars, outboxVars, webVars>>

Attempt == INSTANCE AttemptContract WITH N <- 1
Outbox == INSTANCE CallbackOutbox
Web == INSTANCE RunControl

Init ==
    /\ connect = "none"
    /\ Attempt!Init
    /\ Outbox!Init
    /\ Web!Init

Begun == connect = "begun"

-----------------------------------------------------------------------------
(* GET .../connect turns away a run that has ended, and otherwise has the  *)
(* attempt initialized, without looking at the run again.                  *)
Admit ==
    /\ connect = "none"
    /\ run \in Web!Open /\ Web!Registered
    /\ connect' = "admitted"
    /\ UNCHANGED <<attemptVars, outboxVars, webVars>>

Initialize ==
    /\ connect = "admitted"
    /\ connect' = "begun"
    /\ UNCHANGED <<attemptVars, outboxVars, webVars>>

(* Seeded fault: the callback always reports a completion. *)
AttemptEndsCompleted ==
    /\ Begun
    /\ status = "running"
    /\ status' \in {"completed", "failed", "timeout"}
    /\ finished' = {1}
    /\ verdict' = "passed"
    /\ notice' = "completed"
    /\ Outbox!Enqueue
    /\ UNCHANGED <<connect, webVars>>

AttemptEnds ==
    /\ Begun
    /\ Attempt!Finish \/ Attempt!TimeOut
    /\ Outbox!Enqueue
    /\ UNCHANGED <<connect, webVars>>

-----------------------------------------------------------------------------
(* The callback reaches the Web application and is answered.               *)
Deliver(w) ==
    /\ Outbox!Answered(w)
    /\ Web!Complete(notice)
    /\ UNCHANGED <<connect, attemptVars>>

(* It takes effect, but the worker sees an error.                          *)
ResponseLost(w) ==
    /\ Outbox!Refused(w)
    /\ Web!Complete(notice)
    /\ UNCHANGED <<connect, attemptVars>>

DeliveryFails(w) ==
    /\ Outbox!Refused(w)
    /\ UNCHANGED <<connect, attemptVars, webVars>>

OutboxStep(w) ==
    /\ Outbox!Step(w)
    /\ UNCHANGED <<connect, attemptVars, webVars>>

Abandon(w) ==
    /\ Outbox!Abandon(w)
    /\ UNCHANGED <<connect, attemptVars, webVars>>

TimePasses ==
    /\ Outbox!TimePasses
    /\ UNCHANGED <<connect, attemptVars, webVars>>

-----------------------------------------------------------------------------
(* The orchestrator's part of a cancellation: nothing to do before the     *)
(* attempt is initialized or after it was cancelled, and refused once it   *)
(* has ended otherwise.  No callback is enqueued.                          *)
CancelAttempt(c) ==
    /\ Web!AttemptCancelled(c, ~Begun \/ status \in {"running", "cancelled"})
    /\ IF Begun /\ status = "running" THEN Attempt!Cancel ELSE UNCHANGED attemptVars
    /\ UNCHANGED <<connect, outboxVars>>

(* The answer of the orchestrator is lost after it has cancelled.          *)
CancelAnswerLost(c) ==
    /\ Web!OrchestratorSilent(c)
    /\ IF Begun /\ status = "running" THEN Attempt!Cancel ELSE UNCHANGED attemptVars
    /\ UNCHANGED <<connect, outboxVars>>

CancelStep(c) ==
    /\ \/ Web!ReadForCancel(c) \/ Web!OrchestratorSilent(c)
       \/ Web!CancelRun(c) \/ Web!CancelLost(c)
    /\ UNCHANGED <<connect, attemptVars, outboxVars>>

MetadataStep(m) ==
    /\ Web!ReadForMetadata(m) \/ Web!WriteMetadata(m) \/ Web!MetadataConflict(m)
    /\ UNCHANGED <<connect, attemptVars, outboxVars>>

(* A runner says that the run is running.  The handler would take any      *)
(* status at any time; that no sender reports a connection or an end, nor  *)
(* anything after the end, is assumed here: nothing in the repository      *)
(* sends such an event.                                                    *)
ReportRunning ==
    /\ run \in Web!Open
    /\ Web!ReportStatus("running")
    /\ UNCHANGED <<connect, attemptVars, outboxVars>>

-----------------------------------------------------------------------------
Next ==
    \/ Admit \/ Initialize \/ AttemptEnds \/ TimePasses \/ ReportRunning
    \/ \E w \in Workers : \/ Deliver(w) \/ ResponseLost(w) \/ DeliveryFails(w)
                          \/ OutboxStep(w) \/ Abandon(w)
    \/ \E c \in Cancellers : CancelAttempt(c) \/ CancelAnswerLost(c) \/ CancelStep(c)
    \/ \E m \in Submitters : MetadataStep(m)

(* The sweep ends every attempt; maintenance claims due callbacks for      *)
(* ever, and every POST ends, well or badly.  Owners and agents need not   *)
(* do anything.                                                            *)
Fairness ==
    /\ WF_vars(AttemptEnds)
    /\ WF_vars(TimePasses)
    /\ \A w \in Workers :
         WF_vars(Deliver(w) \/ ResponseLost(w) \/ DeliveryFails(w) \/ OutboxStep(w))

Safety == Init /\ [][Next]_vars

Spec == Safety /\ Fairness

-----------------------------------------------------------------------------
TypeOK ==
    /\ connect \in {"none", "admitted", "begun"}
    /\ status \in {"running", "completed", "failed", "timeout", "cancelled"}
    /\ notice \in {"none", "completed", "failed", "timeout"}
    /\ Outbox!TypeOK
    /\ run \in Web!Open \cup Web!Final
    /\ submission \in [Submitters -> Web!Open \cup {"none", "locked", "written", "lost"}]
    /\ cancellation \in [Cancellers -> {"none", "asking", "writing"} \cup Web!CancelAnswer]

(* A run has one final event, of its final status, and an open run has     *)
(* none, however often its callback is delivered (completeRun, cancelRun). *)
OneEnding == endings = IF run \in Web!Final THEN <<run>> ELSE <<>>

(* Unless its owner cancelled it, a run ends as its attempt did; and a     *)
(* cancelled attempt is never reported as ended by itself.                 *)
RunTellsAttempt ==
    run \in Web!Final \ {"cancelled"} => Begun /\ run = status /\ notice = status

(* A callback marked delivered has reached the run: it is never marked for *)
(* a delivery the Web application did not accept.                          *)
DeliveredIsKnown == row = "delivered" => run \in Web!Final

(* What the owner was told stays true: 200, the run is cancelled; 409, it  *)
(* or its attempt has ended in another way, and the run will say so.       *)
AnswersAreTrue ==
    \A c \in Cancellers :
      /\ cancellation[c] = "200" => run = "cancelled"
      /\ cancellation[c] = "409" => \/ run \in Web!Final \ {"cancelled"}
                                    \/ status \in {"completed", "failed", "timeout"}

(* The first final status of a run is its last, and a settled callback     *)
(* stays settled.                                                          *)
EndStays ==
    [][/\ run \in Web!Final => run' = run
       /\ row \in Outbox!Settled => row' = row]_vars

(* Every attempt that ended by itself ends its run, or its callback is     *)
(* visibly dead: with the other promises, the contract of a run.           *)
Contract == INSTANCE RunContract WITH
    outcome <- IF Begun /\ status # "running" THEN status ELSE "open",
    told <- IF run \in Web!Final THEN run ELSE "open",
    givenUp <- row = "dead"
ImplementsRunContract == Contract!Spec

(* Every callback is delivered or given up, also when workers die with it. *)
CallbackSettles == row # "none" ~> row \in Outbox!Settled
=============================================================================
