----------------------------- MODULE RunScoring -----------------------------
(***************************************************************************)
(* An attempt from its first request to its score: the agent works through *)
(* the sessions in their order, scheduled faults answer some requests in   *)
(* place of the application, each session is scored strictly when it is    *)
(* finished, and the last one brings the score of the suite                *)
(* (hosted-sites/src/server.ts, attempt-lifecycle.ts, attempt-handlers.ts).*)
(***************************************************************************)
EXTENDS Scoring, DeterministicFaults

CONSTANT Suites   \* the suites that may be played

ASSUME SuitesAssumption == \A s \in Suites : ValidSuite(s)

VARIABLES
    suite,       \* the suite of the attempt
    variant,     \* the question variant selected for each task
    faultState,  \* scenarioFaultState of the active session
    telemetry,   \* the recorded actions of the attempt
    saved,       \* tasks with a change the application made
    strayed,     \* history: tasks where a fault was not retried at once
    evidence,    \* the sessions that are finished, with what was found
    carried,     \* per finished task: the values in its final state
    attempt,     \* the attempt's status
    outcome      \* the result of the suite, once there is one

scoringVars == <<suite, variant, faultState, telemetry, saved, strayed,
                 evidence, carried, attempt, outcome>>

NoOutcome == [status |-> "none", score |-> -1]

(* One published variant for each task, picked at random. *)
Selections(s) ==
    {v \in [TasksOf(s) -> UNION {s.variants[t] : t \in TasksOf(s)}] :
        \A t \in TasksOf(s) : v[t] \in s.variants[t]}

ScoringInit ==
    /\ suite \in Suites
    /\ variant \in Selections(suite)
    /\ faultState = emptyState
    /\ telemetry = <<>>
    /\ saved = {} /\ strayed = {}
    /\ evidence = {}
    /\ carried = <<>>
    /\ attempt = "none"
    /\ outcome = NoOutcome

ActiveTask == suite.tasks[Cardinality(evidence) + 1]
Faults(task) == buildSessionScenarioFaultSchedule(suite.graph, task)

-----------------------------------------------------------------------------
(* The attempt and its sessions are created, with their fault schedules. *)
CreateAttempt ==
    /\ attempt = "none"
    /\ attempt' = "running"
    /\ UNCHANGED <<suite, variant, faultState, telemetry, saved, strayed, evidence, carried, outcome>>

(* A page or a form of the active session's application.  The browser      *)
(* records a submission before it is sent, a page once it is loaded; the   *)
(* page of a fault records nothing.                                        *)
Request(method) ==
    LET task == ActiveTask
        actions == ActionsOf(method)
        seen == observeDeterministicFault(Faults(task), faultState, actions)
    IN  /\ attempt = "running"
        /\ Len(telemetry) < suite.actions
        /\ faultState' = seen.state
        /\ saved' = IF method = "POST" /\ ~seen.injected THEN saved \cup {task} ELSE saved
        /\ strayed' = IF faultState.pending \notin {"none"} \cup Ids({f \in Faults(task) : f.action \in actions})
                      THEN strayed \cup {task} ELSE strayed
        /\ telemetry' = IF method = "GET" /\ seen.injected THEN telemetry
                        ELSE Append(telemetry, [session |-> task, field |-> "none",
                               type |-> IF method = "POST" THEN "submit" ELSE "page.load"])
        /\ UNCHANGED <<suite, variant, evidence, carried, attempt, outcome>>

(* Typing into a field sends no request. *)
Edit(field) ==
    /\ attempt = "running"
    /\ Len(telemetry) < suite.actions
    /\ telemetry' = Append(telemetry, [session |-> ActiveTask, type |-> "input", field |-> field])
    /\ UNCHANGED <<suite, variant, faultState, saved, strayed, evidence, carried, attempt, outcome>>

(* What an evaluator may find: the state of the backend is right only if   *)
(* some change was made.                                                   *)
Findings(task) ==
    {f \in [suite.evaluators[task] -> suite.findings] :
       \A e \in suite.evaluators[task] :
         e.type = "backend_state" /\ f[e] = "passed" => task \in saved}

(* Costs are counted when the suite is scored, from all the telemetry.     *)
WithCosts(sessions) == {[s EXCEPT !.cost = ActionCost(telemetry, s.task)] : s \in sessions}

(* The session is finished and scored; its values are those of its final   *)
(* state.  The last one is scored together with the rest; a scored attempt *)
(* is completed, whether it passed or not, unless scoring it failed.       *)
FinishSession(findings, values) ==
    LET task == ActiveTask
        results == {EvaluatorResult(e, findings[e]) : e \in suite.evaluators[task]}
        result == aggregateStrictScore(results)
        sessions == evidence \cup
          {[task |-> task, variant |-> variant[task], status |-> result.status,
            score |-> result.score, evaluators |-> results,
            recovered |-> faultState.recovered, cost |-> 0]}
    IN  /\ attempt = "running"
        /\ evidence' = sessions
        /\ carried' = carried @@ (task :> values)
        /\ faultState' = emptyState
        /\ IF Cardinality(sessions) < Len(suite.tasks)
           THEN UNCHANGED <<attempt, outcome>>
           ELSE /\ outcome' = aggregateSuiteScore(suite, WithCosts(sessions), carried')
                /\ attempt' = IF outcome'.status = "error" THEN "failed" ELSE "completed"
        /\ UNCHANGED <<suite, variant, telemetry, saved, strayed>>

(* The owner's cancellation reaches the attempt before its end. *)
CancelAttempt ==
    /\ attempt = "running"
    /\ attempt' = "cancelled"
    /\ UNCHANGED <<suite, variant, faultState, telemetry, saved, strayed, evidence, carried, outcome>>

ScoringNext ==
    \/ \E method \in {"GET", "POST"} : Request(method)
    \/ \E field \in suite.fields : Edit(field)
    \/ attempt = "running" /\ \E findings \in Findings(ActiveTask), values \in suite.values :
         FinishSession(findings, values)

-----------------------------------------------------------------------------
(* The events the orchestrator forwards: hosted.session.created for every  *)
(* session when the attempt is created, hosted.score for one finished.     *)
CreatedEvent(task) ==
    [kind |-> "created", session |-> task, weight |-> suite.weight[task], score |-> -1]

ScoreEvent(session) ==
    [kind |-> "score", session |-> session.task, weight |-> suite.weight[session.task],
     score |-> session.score]
-----------------------------------------------------------------------------
(* Properties. *)

Ended == outcome # NoOutcome
SessionOf(task) == CHOOSE s \in evidence : s.task = task

(* The graph as it should have been played.  A distractor is not to be     *)
(* worked on; of several revisions between two nodes one proof serves all; *)
(* and what is done to a distractor is neither a revision nor a recovery.  *)
NodeOf(id) == CHOOSE n \in suite.graph.nodes : n.id = id

PlayedRight(node) ==
    IF node.kind = "distractor" THEN Proven(SessionOf(node.task), node.proof)
    ELSE SessionOf(node.task).status = "passed"

Revises(edge) ==
    edge.relation = "revises" =>
      /\ NodeOf(edge.to).kind # "distractor"
      /\ \E d \in suite.graph.edges :
           /\ d.relation = "revises" /\ d.from = edge.from /\ d.to = edge.to
           /\ Proven(SessionOf(NodeOf(edge.to).task), d.proof)

Recovered(fault) ==
    /\ NodeOf(fault.node).kind # "distractor"
    /\ fault.id \in SessionOf(NodeOf(fault.node).task).recovered

WholeGraph ==
    /\ \A n \in suite.graph.nodes : PlayedRight(n)
    /\ \A e \in Required(suite.graph.edges) : Revises(e)
    /\ \A f \in Required(suite.graph.faults) : Recovered(f)

(* Everything that bears on a capability or a dimension, and whether it is *)
(* as it should be: the reference PassIsWhole compares the code with.      *)
Covered(task, dimension) ==
    {c \in matchingCoverage(suite.matrix, SessionOf(task)) : dimension \in c.dimensions}

Shown(session) == {e \in Required(session.evaluators) : e.type \in {"retrieve_value", "ui_state"}}

Found(right) == IF right THEN "right" ELSE "wrong"

Facts ==
    (UNION {{<<c.capabilities, "final-state-correctness", Found(s.status = "passed")>>
               : c \in Covered(s.task, "final-state-correctness")} : s \in evidence})
    \cup (UNION {{<<c.capabilities, "evidence-verification", Found(\A e \in Shown(s) : e.status = "passed")>>
               : c \in Covered(s.task, "evidence-verification")}
               : s \in {x \in evidence : Shown(x) # {}}})
    \cup {<<NodeOf(e.to).capabilities, "dependency-consistency",
            Found(PlayedRight(NodeOf(e.from)) /\ PlayedRight(NodeOf(e.to)) /\ Revises(e))>>
          : e \in {d \in Required(suite.graph.edges) :
                      Covered(NodeOf(d.to).task, "dependency-consistency") # {}}}
    \cup {<<NodeOf(f.node).capabilities, "recovery-safety",
            Found(Recovered(f) /\ SessionOf(NodeOf(f.node).task).status # "error")>>
          : f \in {d \in Required(suite.graph.faults) :
                      Covered(NodeOf(d.node).task, "recovery-safety") # {}}}

WholeCapabilities ==
    LET OfTrack(t) == {f \in Facts : t.id \in f[1]}
        OfDimension(d) == {f \in Facts : f[2] = d.id}
        Borne(facts) == facts # {} /\ \A f \in facts : f[3] = "right"
    IN  /\ \A t \in Required(suite.matrix.capabilities) : Borne(OfTrack(t))
        /\ \A d \in Required(suite.matrix.dimensions) : Borne(OfDimension(d))

(* An attempt passes if and only if its required sessions passed, every    *)
(* required value was carried, each required capability and dimension was  *)
(* measured and found right, every distractor was left alone, and required *)
(* revisions and recoveries are proven.  What the agent's actions cost     *)
(* never decides (aggregateSuiteScore over the whole pipeline).            *)
PassIsWhole ==
    Ended =>
      (outcome.status = "passed" <=>
         /\ \A s \in evidence : s.task \in suite.required => s.status = "passed"
         /\ \A c \in Required(suite.checks) : CheckPassed(c, carried)
         /\ WholeCapabilities
         /\ WholeGraph)

Rank(status) == CASE status = "passed" -> 2 [] status = "failed" -> 1 [] status = "error" -> 0

Improved(session, evaluator) ==
    LET results == (session.evaluators \ {evaluator}) \cup {EvaluatorResult(evaluator, "passed")}
        result == aggregateStrictScore(results)
    IN  [session EXCEPT !.evaluators = results, !.status = result.status, !.score = result.score]

(* Doing better at one thing never costs anything: had one more evaluator  *)
(* passed, neither the verdict nor the score would be lower (weights, rounding *)
(* and the shares of dimensions in capability-aggregation.ts, scoring).    *)
BetterNeverHurts ==
    Ended => \A s \in evidence : \A e \in s.evaluators :
      LET better == aggregateSuiteScore(suite,
                      WithCosts((evidence \ {s}) \cup {Improved(s, e)}), carried)
      IN  better.score >= outcome.score /\ Rank(better.status) >= Rank(outcome.status)

(* The retry of the first is the occurrence of the second. *)
Precedes(first, second) ==
    /\ first.required
    /\ RequestClass(first.action) = RequestClass(second.action)
    /\ second.occurrence = first.occurrence + 1

(* An agent that repeats a request a fault has answered can recover every  *)
(* required fault, but for one whose occurrence is the retry of another:   *)
(* observeDeterministicFault skips what is due while another is pending,   *)
(* and no schema keeps the two apart.                                      *)
FaultsInReach ==
    attempt = "running" /\ ActiveTask \notin strayed =>
      \A f \in Faults(ActiveTask) :
        f.required /\ OutOfReach(f, faultState) => \E h \in Faults(ActiveTask) : Precedes(h, f)

=============================================================================
