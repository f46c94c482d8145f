------------------------------ MODULE Scoring ------------------------------
(***************************************************************************)
(* How a finished attempt is scored: the strict score of a session, the    *)
(* weighted score of a suite, its cross-application checks, and the        *)
(* capability and scenario-graph aggregation on top (packages/scoring,     *)
(* capability-aggregation.ts, action-cost.ts, and the live score of the    *)
(* Web application, hosted-scoring.ts).                                    *)
(*                                                                         *)
(* A score is an integer in ten-thousandths, the four digits toFixed(4)    *)
(* leaves.                                                                 *)
(* Everything the code collects in lists keyed by unique ids is a set.     *)
(***************************************************************************)
EXTENDS Suites, SequencesExt

Unit == 10000
Statuses == {"passed", "failed", "error"}

(* Number((n / d).toFixed(4)), of n already in ten-thousandths. *)
Rounded(n, d) == (2 * n + d) \div (2 * d)

Part(id, status, score, weight, required) ==
    [id |-> id, status |-> status, score |-> score, weight |-> weight,
     required |-> required]

Required(parts) == {p \in parts : p.required}

(* componentStatus: an error decides, then a failure. *)
Verdict(parts) ==
    IF \E p \in parts : p.status = "error" THEN "error"
    ELSE IF \A p \in parts : p.status = "passed" THEN "passed" ELSE "failed"

TotalWeight(parts) == SumFunction([p \in parts |-> p.weight])

WeightedScore(parts) ==
    IF TotalWeight(parts) = 0 THEN 0
    ELSE Rounded(SumFunction([p \in parts |-> p.score * p.weight]), TotalWeight(parts))

-----------------------------------------------------------------------------
(* A session. *)

EvaluatorResult(evaluator, status) ==
    [name |-> evaluator.name, type |-> evaluator.type, required |-> evaluator.required,
     status |-> status, score |-> IF status = "passed" THEN Unit ELSE 0]

aggregateStrictScore(evaluators) ==
    LET status == IF Required(evaluators) = {} THEN "failed"
                  ELSE Verdict(Required(evaluators))
    IN  [status |-> status, score |-> IF status = "passed" THEN Unit ELSE 0]

(* Actions of one session among the events of the attempt, oldest first: a *)
(* run of edits of one field counts once, what the servers record does not *)
(* count and does not break such a run.                                    *)
directActionTypes == {"page.load", "navigation", "click", "submit"}

ActionCost(events, session) ==
    LET Actions == {i \in DOMAIN events : /\ events[i].session = session
                                          /\ events[i].type \in directActionTypes \cup {"input"}}
        EditsOn(i) == \E j \in Actions :
          /\ j < i /\ \A k \in Actions : k < i => k <= j
          /\ events[i].type = "input" /\ events[j].type = "input"
          /\ events[j].field = events[i].field
    IN  Cardinality({i \in Actions : ~EditsOn(i)})

-----------------------------------------------------------------------------
(* Cross-application checks.  A value is what a final state holds after    *)
(* trimming, folding blanks and case: the set of its words, or the digest  *)
(* of such a value.                                                        *)

Digest(value) == [value EXCEPT !.digest = TRUE]

Carries(rule, source, target) ==
    CASE rule = "equal-normalized" -> target = source
      [] rule = "target-contains-source" ->
           target.digest = source.digest /\ source.words \subseteq target.words
      [] rule = "target-digest-matches-source" -> target = Digest(source)

(* finalStates: per task with a result, the values its path reaches. *)
CheckPassed(check, finalStates) ==
    /\ {check.source, check.target} \subseteq DOMAIN finalStates
    /\ \E source \in finalStates[check.source], target \in finalStates[check.target] :
         Carries(check.rule, source, target)

evaluateSuiteConsistency(checks, finalStates) ==
    {LET passed == CheckPassed(c, finalStates)
     IN  Part(<<"check", c.name>>, IF passed THEN "passed" ELSE "failed",
              IF passed THEN Unit ELSE 0, c.weight, c.required) : c \in checks}

-----------------------------------------------------------------------------
(* Capabilities and dimensions. *)

(* Seeded fault: a track or dimension nothing was measured for passes. *)
aggregateAnyEvidence(components, required) ==
    [score |-> WeightedScore(components), status |-> Verdict(Required(components))]

(* Components of a track or of a dimension; a required one needs evidence. *)
aggregateComponents(components, required) ==
    [score |-> WeightedScore(components),
     status |-> IF required /\ Required(components) = {} THEN "failed"
                ELSE Verdict(Required(components))]

Tracks(matrix, components) ==
    {LET a == aggregateComponents({c \in components : t.id \in c.capabilities}, t.required)
     IN  Part(<<"track", t.id>>, a.status, a.score, 0, t.required) : t \in matrix.capabilities}

DimensionResults(matrix, components) ==
    {LET a == aggregateComponents({c \in components : c.dimension = d.id}, d.required)
     IN  Part(<<"dimension", d.id>>, a.status, a.score, d.weight, d.required)
       : d \in matrix.dimensions}

aggregateCapabilityScores(matrix, components) ==
    LET dimensions == DimensionResults(matrix, components)
    IN  [status |-> Verdict(Required(Tracks(matrix, components)) \cup Required(dimensions)),
         score |-> WeightedScore(dimensions)]

-----------------------------------------------------------------------------
(* The scenario graph.  outcomes maps the ids of nodes with an outcome to  *)
(* its status, score, revised nodes and recovered faults.                  *)

(* Seeded fault: a distractor passes when it was touched. *)
TouchedStatus(node, outcomes) ==
    IF node.id \in DOMAIN outcomes
    THEN IF node.kind = "distractor" THEN "passed" ELSE outcomes[node.id].status
    ELSE "failed"

NodeStatus(node, outcomes) ==
    LET known == node.id \in DOMAIN outcomes
    IN  IF node.kind = "distractor" THEN IF known THEN "failed" ELSE "passed"
        ELSE IF known THEN outcomes[node.id].status ELSE "failed"

NodeResults(graph, outcomes) ==
    {LET status == NodeStatus(n, outcomes)
     IN  Part(<<"node", n.id>>, status,
              IF status # "passed" THEN 0
              ELSE IF n.kind = "distractor" THEN Unit ELSE outcomes[n.id].score,
              n.weight, TRUE) : n \in graph.nodes}

EdgeResults(graph, outcomes) ==
    LET StatusOf(id) == NodeStatus(CHOOSE n \in graph.nodes : n.id = id, outcomes)
        Ends(e) == {StatusOf(e.from), StatusOf(e.to)}
        Revised(e) == /\ e.to \in DOMAIN outcomes
                      /\ e.from \in outcomes[e.to].revised
        Passed(e) == Ends(e) = {"passed"} /\ (e.relation = "revises" => Revised(e))
    IN  {Part(<<"edge", e.id>>,
              IF "error" \in Ends(e) THEN "error" ELSE IF Passed(e) THEN "passed" ELSE "failed",
              IF Passed(e) THEN Unit ELSE 0, e.weight, e.required) : e \in graph.edges}

FaultResults(graph, outcomes) ==
    {LET known == f.node \in DOMAIN outcomes
         recovered == known /\ f.id \in outcomes[f.node].recovered
     IN  Part(<<"fault", f.id>>,
              IF known /\ outcomes[f.node].status = "error" THEN "error"
              ELSE IF recovered THEN "passed" ELSE "failed",
              IF recovered THEN Unit ELSE 0, f.weight, f.required) : f \in graph.faults}

evaluateScenarioGraph(graph, outcomes) ==
    LET parts == NodeResults(graph, outcomes) \cup EdgeResults(graph, outcomes)
                   \cup FaultResults(graph, outcomes)
    IN  [status |-> Verdict(Required(parts)), score |-> WeightedScore(parts)]

-----------------------------------------------------------------------------
(* From the evidence of the sessions to components and outcomes.  A        *)
(* session has its task, variant, result, evaluators, recovered faults and *)
(* cost, 0 when no action was counted (which the code keeps as null).      *)

matchingCoverage(matrix, session) ==
    {c \in matrix.coverage : c.task = session.task /\ c.variant = session.variant}

Component(id, entry, dimension, part) ==
    [id |-> id, capabilities |-> entry.capabilities, dimension |-> dimension,
     status |-> part.status, score |-> part.score, weight |-> part.weight,
     required |-> part.required]

finalStateComponent(session, entry) ==
    Component(<<"final-state", session.task>>, entry, "final-state-correctness",
      Part("", session.status, IF session.status = "passed" THEN session.score ELSE 0, 1, TRUE))

evidenceComponent(session, entry) ==
    LET evidence == {e \in Required(session.evaluators) : e.type \in {"retrieve_value", "ui_state"}}
    IN  IF evidence = {} THEN {}
        ELSE {Component(<<"evidence", session.task>>, entry, "evidence-verification",
                Part("", Verdict(evidence),
                     Rounded(SumFunction([e \in evidence |-> e.score]), Cardinality(evidence)),
                     1, TRUE))}

(* Seeded fault: going over the budget fails the session. *)
interactionCostGates(session, entry) ==
    IF session.cost = 0 THEN {}
    ELSE {Component(<<"interaction-cost", session.task>>, entry, "interaction-cost",
            Part("", IF session.cost >= entry.hard THEN "failed" ELSE "passed", 0, 1, TRUE))}

interactionCostComponent(session, entry) ==
    LET score == IF session.cost <= entry.preferred THEN Unit
                 ELSE IF session.cost >= entry.hard THEN 0
                 ELSE Rounded(Unit * (entry.hard - session.cost), entry.hard - entry.preferred)
    IN  IF session.cost = 0 THEN {}
        ELSE {Component(<<"interaction-cost", session.task>>, entry, "interaction-cost",
                Part("", "passed", score, 1, FALSE))}

buildSessionComponents(matrix, sessions) ==
    UNION {UNION {
        (IF "final-state-correctness" \in c.dimensions THEN {finalStateComponent(s, c)} ELSE {})
        \cup (IF "evidence-verification" \in c.dimensions THEN evidenceComponent(s, c) ELSE {})
        \cup (IF "interaction-cost" \in c.dimensions THEN interactionCostComponent(s, c) ELSE {})
      : c \in matchingCoverage(matrix, s)} : s \in sessions}

Proven(session, name) ==
    \E e \in session.evaluators : e.name = name /\ e.status = "passed"

(* A distractor that was proven avoided has no outcome. *)
OutcomeKnown(node, session) ==
    /\ session.task = node.task
    /\ node.kind = "distractor" => ~Proven(session, node.proof)

Outcome(graph, node, session) ==
    IF node.kind = "distractor"
    THEN [status |-> IF \E e \in session.evaluators : e.name = node.proof /\ e.status = "error"
                     THEN "error" ELSE "failed",
          score |-> 0, revised |-> {}, recovered |-> {}]
    ELSE [status |-> session.status,
          score |-> IF session.status = "passed" THEN session.score ELSE 0,
          revised |-> {e.from : e \in {d \in graph.edges : /\ d.relation = "revises"
                                                           /\ d.to = node.id
                                                           /\ Proven(session, d.proof)}},
          recovered |-> session.recovered]

buildScenarioOutcomes(graph, sessions) ==
    LET Reported == {n \in graph.nodes : \E s \in sessions : OutcomeKnown(n, s)}
        NodeOf(id) == CHOOSE n \in Reported : n.id = id
    IN  [id \in {n.id : n \in Reported} |->
           Outcome(graph, NodeOf(id), CHOOSE s \in sessions : s.task = NodeOf(id).task)]

(* Edges count for the task they lead to, faults for the one they strike,  *)
(* if the variant played there is covered in that dimension.               *)
buildGraphComponents(matrix, graph, sessions) ==
    LET outcomes == buildScenarioOutcomes(graph, sessions)
        NodeOf(id) == CHOOSE n \in graph.nodes : n.id = id
        Covered(node, dimension) ==
          \E s \in sessions : /\ s.task = node.task
                              /\ \E c \in matchingCoverage(matrix, s) : dimension \in c.dimensions
        ResultOf(parts, id) == CHOOSE p \in parts : p.id = id
    IN  {Component(<<"dependency", e.id>>, NodeOf(e.to), "dependency-consistency",
                   ResultOf(EdgeResults(graph, outcomes), <<"edge", e.id>>))
           : e \in {d \in graph.edges : Covered(NodeOf(d.to), "dependency-consistency")}}
        \cup
        {Component(<<"recovery", f.id>>, NodeOf(f.node), "recovery-safety",
                   ResultOf(FaultResults(graph, outcomes), <<"fault", f.id>>))
           : f \in {d \in graph.faults : Covered(NodeOf(d.node), "recovery-safety")}}

buildCapabilityAttemptEvaluation(matrix, graph, sessions) ==
    [capabilities |-> aggregateCapabilityScores(matrix,
         buildSessionComponents(matrix, sessions) \cup buildGraphComponents(matrix, graph, sessions)),
     scenarioGraph |-> evaluateScenarioGraph(graph, buildScenarioOutcomes(graph, sessions))]
-----------------------------------------------------------------------------
(* The suite. *)

SessionParts(suite, sessions) ==
    {Part(<<"session", s.task>>, s.status, s.score, suite.weight[s.task],
          s.task \in suite.required) : s \in sessions}

(* Seeded fault: a failed check lowers the score only. *)
aggregateSessionsAlone(suite, sessions, finalStates) ==
    LET ofSessions == SessionParts(suite, sessions)
    IN  [status |-> Verdict(Required(ofSessions)),
         score |-> WeightedScore(ofSessions \cup
                     evaluateSuiteConsistency(suite.checks, finalStates))]

aggregateSuiteScore(suite, sessions, finalStates) ==
    LET ofSessions == SessionParts(suite, sessions)
        ofChecks == evaluateSuiteConsistency(suite.checks, finalStates)
        evaluation == buildCapabilityAttemptEvaluation(suite.matrix, suite.graph, sessions)
        verdicts == {Verdict(Required(ofSessions)), Verdict(Required(ofChecks))}
          \cup (IF suite.matrix = NoMatrix THEN {} ELSE {evaluation.capabilities.status})
          \cup (IF suite.graph = NoGraph THEN {} ELSE {evaluation.scenarioGraph.status})
    IN  [status |-> IF "error" \in verdicts THEN "error"
                    ELSE IF verdicts = {"passed"} THEN "passed" ELSE "failed",
         score |-> IF suite.matrix = NoMatrix THEN WeightedScore(ofSessions \cup ofChecks)
                   ELSE evaluation.capabilities.score]

(* The score a page shows meanwhile, from the events of the run with their *)
(* times: the created sessions give the weights, the scored ones, each by  *)
(* its latest event, the results; -1 stands for null.                      *)
deriveHostedScoring(events) ==
    LET Known(kind) == {c \in events : c.event.kind = kind}
        Results == {c.event : c \in {d \in Known("score") :
                      \A e \in Known("score") :
                        e.event.session = d.event.session => e.stamp <= d.stamp}}
        Unscored == {c.event : c \in {d \in Known("created") :
                       \A r \in Results : r.session # d.event.session}}
        total == TotalWeight(Results \cup Unscored)
    IN  IF total = 0 THEN -1
        ELSE Rounded(SumFunction([r \in Results |-> r.score * r.weight]), total)
=============================================================================
