------------------------------ MODULE MCLiveRun ------------------------------
EXTENDS LiveRun
Evaluator(name, type, required) == [name |-> name, type |-> type, required |-> required]
Word(w) == [words |-> {w}, digest |-> FALSE]
Words(ws) == [words |-> ws, digest |-> FALSE]
Check(name, rule, weight, required) ==
    [name |-> name, source |-> "a", target |-> "b", rule |-> rule, weight |-> weight, required |-> required]

(* Two sessions of different weight, one of them optional, and checks. *)
Plain ==
    [tasks |-> <<"a", "b">>, weight |-> [a |-> 3, b |-> 0], required |-> {"a"},
     variants |-> [a |-> {"v"}, b |-> {"v"}],
     evaluators |-> [a |-> {Evaluator("state", "backend_state", TRUE), Evaluator("hint", "ui_state", FALSE)},
                     b |-> {Evaluator("answer", "final_response", TRUE)}],
     checks |-> {Check("equal", "equal-normalized", 2, TRUE), Check("digest", "target-digest-matches-source", 1, FALSE)
        , Check("part", "target-contains-source", 1, TRUE)},
     matrix |-> NoMatrix, graph |-> NoGraph,
     values |-> {{}, {Word("x")}, {Words({"x","y"}), Digest(Word("x"))}, {Word("x"), Digest(Word("x"))}},
     findings |-> Statuses, fields |-> {}, actions |-> 1, watched |-> "no"]

Coverage(task, version, capabilities, dimensions) ==
    [task |-> task, variant |-> version, capabilities |-> capabilities, dimensions |-> dimensions,
     preferred |-> IF "interaction-cost" \in dimensions THEN 1 ELSE 0,
     hard |-> IF "interaction-cost" \in dimensions THEN 3 ELSE 0]
Track(id, required) == [id |-> id, required |-> required]
Dimension(id, weight, required) == [id |-> id, weight |-> weight, required |-> required]
Node(id, task, proof, capabilities) ==
    [id |-> id, task |-> task, kind |-> IF proof = "none" THEN "required" ELSE "distractor",
     capabilities |-> capabilities, weight |-> 1, proof |-> proof]
Edge(id, from, to, proof, required) ==
    [id |-> id, from |-> from, to |-> to, relation |-> IF proof = "none" THEN "requires" ELSE "revises",
     required |-> required, weight |-> 1, proof |-> proof]
Fault(id, node, action, occurrence, required) ==
    [id |-> id, node |-> node, action |-> action, occurrence |-> occurrence, required |-> required, weight |-> 1]

Capability ==
    [tasks |-> <<"a", "b">>, weight |-> [a |-> 1, b |-> 1], required |-> {"a", "b"},
     variants |-> [a |-> {"v", "w"}, b |-> {"v", "w"}],
     evaluators |-> [a |-> {Evaluator("answer", "retrieve_value", TRUE)},
                     b |-> {Evaluator("state", "backend_state", TRUE), Evaluator("proof", "backend_state", FALSE),
                            Evaluator("untouched", "final_response", FALSE)}],
     checks |-> {},
     matrix |-> [capabilities |-> {Track("research", TRUE), Track("planning", TRUE), Track("style", FALSE)},
                 dimensions |-> {Dimension("final-state-correctness", 60, TRUE), Dimension("evidence-verification", 10, FALSE),
                    Dimension("dependency-consistency", 15, TRUE), Dimension("recovery-safety", 10, TRUE), Dimension("interaction-cost", 5, FALSE)},
                 coverage |-> {Coverage("a", "v", {"research", "planning"}, {"final-state-correctness", "evidence-verification", "interaction-cost"}),
                    Coverage("a", "w", {"research", "style"}, {"evidence-verification", "interaction-cost"}),
                    Coverage("b", "v", {"planning", "style"}, {"final-state-correctness", "dependency-consistency", "recovery-safety", "interaction-cost"}),
                    Coverage("b", "w", {"planning"}, {"dependency-consistency", "recovery-safety"})}],
     graph |-> [nodes |-> {Node("na", "a", "none", {"research"}), Node("nb", "b", "none", {"planning"}), Node("nd", "b", "untouched", {"style"})},
                edges |-> {Edge("e1", "na", "nb", "proof", TRUE), Edge("e2", "na", "nb", "none", FALSE)},
                faults |-> {Fault("f1", "nb", "mutation", 1, TRUE), Fault("f2", "nb", "read", 1, TRUE), Fault("f3", "nb", "navigation", 3, FALSE)}],
     values |-> {{}}, findings |-> {"passed", "failed"}, fields |-> {"f"}, actions |-> 4, watched |-> "no"]

(* Two revisions of one node, a distractor that others depend on, and two  *)
(* faults of which the second falls on the retry of the first.             *)
Entangled ==
    [tasks |-> <<"a">>, weight |-> [a |-> 1], required |-> {"a"}, variants |-> [a |-> {"v", "w"}],
     evaluators |-> [a |-> {Evaluator("first", "backend_state", FALSE), Evaluator("second", "ui_state", TRUE),
                            Evaluator("untouched", "final_response", FALSE)}],
     checks |-> {},
     matrix |-> [capabilities |-> {Track("research", TRUE)},
                 dimensions |-> {Dimension("dependency-consistency", 70, TRUE), Dimension("recovery-safety", 30, TRUE)},
                 coverage |-> {Coverage("a", version, {"research"}, {"dependency-consistency", "recovery-safety"})
                                 : version \in {"v", "w"}}],
     graph |-> [nodes |-> {Node("n1", "a", "none", {"research"}), Node("n2", "a", "none", {"research"}),
                           Node("nd", "a", "untouched", {"research"})},
                edges |-> {Edge("e1", "n1", "n2", "first", TRUE), Edge("e2", "n1", "n2", "second", TRUE),
                           Edge("e3", "nd", "n1", "none", TRUE)},
                faults |-> {Fault("f1", "n1", "read", 1, TRUE), Fault("f2", "n2", "navigation", 2, FALSE),
                            Fault("f3", "n1", "mutation", 1, FALSE), Fault("f4", "n2", "mutation", 2, FALSE)}],
     values |-> {{}}, findings |-> {"passed", "failed"}, fields |-> {}, actions |-> 3, watched |-> "no"]

(* A required fault on the retry of another: nobody passes this suite. *)
Crowded ==
    [Entangled EXCEPT !.graph.faults = {Fault("f1", "n1", "read", 1, TRUE), Fault("f2", "n2", "navigation", 2, TRUE)}]

(* One session, and a page that follows its run. *)
Paged ==
    [tasks |-> <<"a">>, weight |-> [a |-> 2], required |-> {"a"}, variants |-> [a |-> {"v"}],
     evaluators |-> [a |-> {Evaluator("answer", "final_response", TRUE)}],
     checks |-> {}, matrix |-> NoMatrix, graph |-> NoGraph,
     values |-> {{}}, findings |-> {"passed"}, fields |-> {}, actions |-> 0, watched |-> "page"]

(* Two sessions and nothing else. *)
Weighted ==
    [tasks |-> <<"a", "b">>, weight |-> [a |-> 3, b |-> 4], required |-> {"a"},
     variants |-> [a |-> {"v"}, b |-> {"v"}],
     evaluators |-> [t \in {"a", "b"} |-> {Evaluator("answer", "final_response", TRUE)}],
     checks |-> {}, matrix |-> NoMatrix, graph |-> NoGraph,
     values |-> {{}}, findings |-> Statuses, fields |-> {}, actions |-> 0, watched |-> "no"]

(* Sessions that weigh nothing. *)
Weightless == [Weighted EXCEPT !.weight = [a |-> 0, b |-> 0], !.findings = {"passed"}]

(* Two sessions, and a page that shows the active one. *)
Viewed ==
    [tasks |-> <<"a", "b">>, weight |-> [a |-> 1, b |-> 1],
     required |-> {"a", "b"}, variants |-> [a |-> {"v"}, b |-> {"v"}],
     evaluators |-> [t \in {"a", "b"} |-> {Evaluator("answer", "final_response", TRUE)}],
     checks |-> {}, matrix |-> NoMatrix, graph |-> NoGraph,
     values |-> {{}}, findings |-> {"passed"}, fields |-> {}, actions |-> 1, watched |-> "sessions"]

MCSuites == {Plain, Weighted, Weightless, Capability, Entangled, Crowded, Paged, Viewed}
=============================================================================
