------------------------------- MODULE LiveRun -------------------------------
(***************************************************************************)
(* An attempt that is scored while a page follows its run: the events the  *)
(* orchestrator forwards, the callback of the end and the owner's          *)
(* cancellation tie RunScoring to RunView.  A suite nobody watches is      *)
(* scored all the same.                                                    *)
(*                                                                         *)
(* Of a run that is followed by its page (suite.watched = "page") the      *)
(* events that make up its score are forwarded, and its end; of one whose  *)
(* sessions are followed ("sessions") the pages the agent loads, the score *)
(* and the progress, which the handler of a finished session sends before  *)
(* the score, each when the last one was answered.                         *)
(***************************************************************************)
EXTENDS RunScoring, RunView, HostedViewer

VARIABLES
    sending,    \* what the orchestrator has yet to forward, in order
    missed      \* history: kinds of events that were lost or came late

vars == <<scoringVars, viewVars, sending, missed>>

Init == ScoringInit /\ ViewInit /\ sending = <<>> /\ missed = {}

Watched == suite.watched # "no"
Followed == suite.watched = "sessions"

(* The active session of the attempt as it is stored, none when it ended. *)
ReadModel == IF attempt = "running" THEN ActiveTask ELSE "none"

ProgressEvent == [kind |-> "progress", session |-> ReadModel, weight |-> 0, score |-> -1]
PageEvent(task) == [kind |-> "page", session |-> task, weight |-> 0, score |-> -1]

EndEvent ==
    [kind |-> attempt', session |-> "none", weight |-> 0, score |-> outcome'.score]

(* The agent reports its identity, connects, and the attempt is created;   *)
(* its sessions are announced before it is told of them.                   *)
Connect ==
    /\ CreateAttempt
    /\ IF Watched
       THEN /\ row.status = "waiting_for_agent"
            /\ row' = [row EXCEPT !.status = "agent_connected"]
            /\ clock' = clock + 1
            /\ \E known \in SUBSET TasksOf(suite) :
                 /\ log' = log \cup Inserted({CreatedEvent(task) : task \in known}, clock + 1)
                 /\ missed' = IF Followed /\ known # TasksOf(suite) THEN {"created"} ELSE {}
            /\ sending' = IF Followed THEN <<"progress">> ELSE <<>>
            /\ UNCHANGED <<calls, server, pageVars, stop>>
       ELSE UNCHANGED <<viewVars, sending, missed>>

(* What is finished is forwarded once, the end with its score by the       *)
(* outbox.  Commands of an attempt are executed one after the other.       *)
Score ==
    /\ ScoringNext
    /\ IF Watched
       THEN /\ calls' = calls
                 \cup (IF Followed THEN {} ELSE Posted({ScoreEvent(s) : s \in evidence' \ evidence}))
                 \cup (IF Followed \/ attempt' = attempt THEN {} ELSE Posted({EndEvent}))
                 \cup (IF Followed /\ telemetry' # telemetry /\ Last(telemetry').type = "page.load"
                       THEN Posted({PageEvent(ActiveTask)}) ELSE {})
            /\ IF Followed /\ evidence' # evidence
               THEN sending = <<>> /\ sending' = <<"progress", "score">>
               ELSE UNCHANGED sending
            /\ UNCHANGED <<row, log, clock, server, pageVars, stop, missed>>
       ELSE UNCHANGED <<viewVars, sending, missed>>

Finished == SessionOf(suite.tasks[Cardinality(evidence)])

NextEvent == IF Head(sending) = "progress" THEN ProgressEvent ELSE ScoreEvent(Finished)

(* The handler sends the next event and waits: it is inserted, or lost, or *)
(* the answer is lost and it may be inserted later.  The progress is that  *)
(* of the moment.  Bound: one event is late at a time.                     *)
Forward ==
    /\ sending # <<>>
    /\ sending' = Tail(sending)
    /\ \/ /\ clock' = clock + 1
          /\ log' = log \cup Inserted({NextEvent}, clock + 1)
          /\ UNCHANGED <<calls, missed>>
       \/ /\ missed' = missed \cup {Head(sending)}
          /\ calls' \in {calls} \cup
               (IF {c \in calls : c.event.kind # "page"} = {}
                THEN {calls \cup Posted({NextEvent})} ELSE {})
          /\ UNCHANGED <<log, clock>>
    /\ UNCHANGED <<scoringVars, row, server, pageVars, stop>>

(* The orchestrator cancels the attempt, unless there is none yet or it    *)
(* has ended; then the run is cancelled.                                   *)
AskOrchestrator ==
    /\ stop = "asking"
    /\ IF attempt \in {"none", "running"}
       THEN /\ IF attempt = "none" THEN UNCHANGED scoringVars ELSE CancelAttempt
            /\ stop' = "writing"
       ELSE stop' = "done" /\ UNCHANGED scoringVars
    /\ UNCHANGED <<dbVars, server, pageVars, sending, missed>>

(* It cannot be reached. *)
OrchestratorSilent ==
    /\ stop = "asking"
    /\ stop' = "done"
    /\ UNCHANGED <<scoringVars, dbVars, server, pageVars, sending, missed>>

(* A step of the view, which the attempt takes no part in. *)
Apart(step) == step /\ UNCHANGED <<scoringVars, sending, missed>>

Next ==
    \/ Connect \/ Score \/ Forward \/ AskOrchestrator \/ OrchestratorSilent
    \/ suite.watched = "page" /\ Apart(ViewNext)
    \/ Followed /\ Apart(\E call \in calls : Begin(call) \/ Commit(call) \/ Lose(call))

(* Queries and fetches end, timers fire, a stream goes on until it expires *)
(* and what it sends arrives, and a poll does not fail for ever.  Owners,  *)
(* agents and the network need do nothing.                                 *)
Fairness ==
    /\ WF_viewVars(StreamReads)
    /\ WF_viewVars(Receive \/ (server.stage = "closed" /\ StreamLost))
    /\ WF_viewVars(Tick \/ \E f \in polls : PollReads(f))
    /\ SF_viewVars(\E f \in polls : PollDone(f))

Spec == Init /\ [][Next]_vars /\ Fairness
-----------------------------------------------------------------------------
(* Properties. *)

AllEvents ==
    Inserted({CreatedEvent(task) : task \in TasksOf(suite)}, 1)
      \cup Inserted({ScoreEvent(s) : s \in evidence}, 2)

(* The score a page shows of a run that has ended is the one that was      *)
(* stored, none if it was cancelled; and where a suite is only its         *)
(* sessions, the score of their events comes to the same, but for sessions *)
(* that weigh nothing: they score 0, and no score is shown of their events *)
(* (deriveScore, deriveHostedScoring, aggregateSuiteScore).                *)
ShownScoreIsTrue ==
    /\ page.phase \in FinalPhase => page.score = row.score
    /\ Ended /\ suite.checks = {} /\ suite.matrix = NoMatrix =>
         deriveHostedScoring(AllEvents) =
           IF \E t \in TasksOf(suite) : suite.weight[t] > 0 THEN outcome.score ELSE -1

Place(task) == CHOOSE i \in DOMAIN suite.tasks : suite.tasks[i] = task

(* Unless progress was lost or came late, the live page finds the active   *)
(* session and shows its page, whatever became of the scores and of the    *)
(* announcements; it finds none when every event of a completed attempt    *)
(* is there.  Whatever was lost of an attempt that was announced, it never *)
(* shows a session that is yet to come (deriveActiveHostedSessionId,       *)
(* deriveActiveHostedViewerUrl, forwardSessionProgressForAttempt).         *)
ViewerFollows ==
    Followed /\ sending = <<>> =>
      LET active == deriveActiveHostedSessionId(log, suite.tasks)
          shown == deriveActiveHostedViewerUrl(log, suite.tasks, active)
      IN  /\ attempt = "running" /\ "progress" \notin missed =>
                active = ActiveTask /\ shown = ActiveTask
          /\ attempt = "completed" /\ missed = {} => active = "none"
          /\ attempt = "running" /\ "created" \notin missed /\ active # "none" =>
                Place(active) <= Place(ActiveTask)
=============================================================================
