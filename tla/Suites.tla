------------------------------- MODULE Suites -------------------------------
(***************************************************************************)
(* What a published suite may look like: the checks the schemas of         *)
(* packages/test-cases make when a manifest is parsed.  A suite has        *)
(*   tasks       the tasks of its sessions, in their order                 *)
(*   weight, required, variants, evaluators    per task                    *)
(*   checks      the cross-application checks                              *)
(*   matrix      capabilities, scoring dimensions and coverage             *)
(*   graph       the private scenario graph and its faults                 *)
(* Weights are naturals, those of the dimensions in hundredths.            *)
(***************************************************************************)
EXTENDS Integers, Sequences, FiniteSets, Functions

Whole == 100    \* the weights of the dimensions are in hundredths

Dimensions == {"final-state-correctness", "dependency-consistency",
               "evidence-verification", "recovery-safety", "interaction-cost"}

NoMatrix == [capabilities |-> {}, dimensions |-> {}, coverage |-> {}]
NoGraph == [nodes |-> {}, edges |-> {}, faults |-> {}]

Unique(S) == \A x, y \in S : x.id = y.id => x = y
Weighed(S) == IsFiniteSet(S) /\ \A x \in S : x.weight \in Nat
Ids(S) == {x.id : x \in S}
TasksOf(suite) == {suite.tasks[i] : i \in DOMAIN suite.tasks}
Position(suite, task) == CHOOSE i \in DOMAIN suite.tasks : suite.tasks[i] = task

(* Every track and dimension is covered by two variants, every reference   *)
(* resolves, budgets belong to interaction cost, which never gates.        *)
ValidMatrix(m) ==
    /\ m.capabilities # {} /\ Unique(m.capabilities)
    /\ m.dimensions # {} /\ Unique(m.dimensions) /\ Ids(m.dimensions) \subseteq Dimensions
    /\ \A c, d \in m.coverage : c.task = d.task /\ c.variant = d.variant => c = d
    /\ Weighed(m.dimensions) /\ SumFunction([d \in m.dimensions |-> d.weight]) = Whole
    /\ \A d \in m.dimensions : d.weight > 0
    /\ IsFiniteSet(m.coverage)
    /\ \A c \in m.coverage :
         /\ c.preferred \in Nat /\ c.hard \in Nat
         /\ c.capabilities # {} /\ c.capabilities \subseteq Ids(m.capabilities)
         /\ c.dimensions # {} /\ c.dimensions \subseteq Ids(m.dimensions)
         /\ "interaction-cost" \in c.dimensions <=> c.hard > 0
         /\ c.hard > 0 => 0 < c.preferred /\ c.preferred < c.hard
    /\ \A d \in m.dimensions : d.id = "interaction-cost" => ~d.required
    /\ \A id \in Ids(m.capabilities) : Cardinality({c \in m.coverage : id \in c.capabilities}) >= 2
    /\ \A id \in Ids(m.dimensions) : Cardinality({c \in m.coverage : id \in c.dimensions}) >= 2

(* Every set of nodes has one no edge of the set leads to. *)
Acyclic(g) ==
    \A S \in SUBSET Ids(g.nodes) \ {{}} :
      \E n \in S : \A e \in g.edges : ~(e.from \in S /\ e.to = n)

TaskOf(g, id) == (CHOOSE n \in g.nodes : n.id = id).task

FaultActions == {"read", "mutation", "navigation"}

(* POST requests are mutations, GET requests are reads and navigations. *)
RequestClass(action) == IF action = "mutation" THEN "POST" ELSE "GET"

(* A proof belongs to a distractor (that it was avoided) and to a revision;*)
(* no two faults strike the same request of a task.                        *)
ValidGraph(g) ==
    /\ g.nodes # {} /\ Unique(g.nodes) /\ Unique(g.edges) /\ Unique(g.faults)
    /\ Weighed(g.nodes) /\ Weighed(g.edges) /\ Weighed(g.faults)
    /\ \A n \in g.nodes : n.kind = "distractor" <=> n.proof # "none"
    /\ \A e \in g.edges : /\ {e.from, e.to} \subseteq Ids(g.nodes)
                          /\ e.from # e.to
                          /\ e.relation = "revises" <=> e.proof # "none"
    /\ "none" \notin Ids(g.faults)
    /\ \A f \in g.faults : /\ f.node \in Ids(g.nodes)
                           /\ f.action \in FaultActions /\ f.occurrence \in Nat \ {0}
    /\ \A f, h \in g.faults :
         /\ TaskOf(g, f.node) = TaskOf(g, h.node)
         /\ RequestClass(f.action) = RequestClass(h.action)
         /\ f.occurrence = h.occurrence
         => f = h
    /\ Acyclic(g)

(* That tasks are distinct is what every manifest has and all the code that*)
(* finds a session by its task relies on; no schema asks for it.  No task  *)
(* is called as an absent one is here.                                     *)
ValidSuite(suite) ==
    /\ suite.tasks \in Seq(TasksOf(suite)) \ {<<>>} /\ "none" \notin TasksOf(suite)
    /\ \A i, j \in DOMAIN suite.tasks : suite.tasks[i] = suite.tasks[j] => i = j
    /\ \A t \in TasksOf(suite) :
         suite.weight[t] \in Nat /\ IsFiniteSet(suite.evaluators[t])
    /\ Weighed(suite.checks)
    /\ \A c \in suite.checks :
         /\ {c.source, c.target} \subseteq TasksOf(suite)
         /\ Position(suite, c.source) < Position(suite, c.target)
    /\ suite.matrix # NoMatrix =>
         /\ ValidMatrix(suite.matrix)
         /\ \A c \in suite.matrix.coverage :
              c.task \in TasksOf(suite) /\ c.variant \in suite.variants[c.task]
    /\ suite.graph # NoGraph =>
         /\ suite.matrix # NoMatrix
         /\ ValidGraph(suite.graph)
         /\ \A n \in suite.graph.nodes :
              n.task \in TasksOf(suite) /\ n.capabilities \subseteq Ids(suite.matrix.capabilities)
=============================================================================
