------------------------ MODULE DeterministicFaults ------------------------
(***************************************************************************)
(* The faults a scenario schedules for a session, kept in its metadata and *)
(* observed before a request of the agent reaches the application          *)
(* (hosted-sites/src/runtime/deterministic-faults.ts, server.ts).          *)
(***************************************************************************)
EXTENDS Suites

emptyState == [occurrences |-> [a \in FaultActions |-> 0],
               applied |-> {}, recovered |-> {}, pending |-> "none"]

buildSessionScenarioFaultSchedule(graph, task) ==
    {f \in graph.faults : TaskOf(graph, f.node) = task}

(* What the server takes a request for. *)
ActionsOf(method) == IF method = "POST" THEN {"mutation"} ELSE {"navigation", "read"}

Counted(state, actions) ==
    [state EXCEPT !.occurrences = [a \in FaultActions |->
        IF a \in actions THEN @[a] + 1 ELSE @[a]]]

(* A fault strikes at its occurrence, once, and only if none is pending.   *)
Due(faults, state, actions) ==
    {f \in faults : /\ f.action \in actions
                    /\ state.occurrences[f.action] = f.occurrence
                    /\ f.id \notin state.applied}

Retries(fault, actions) == fault.action \in actions

(* Seeded fault: only an optional fault waits for its retry. *)
StrikeOptional(state, fault) ==
    [state EXCEPT !.applied = @ \cup {fault.id},
                  !.pending = IF fault.required THEN "none" ELSE fault.id]

Strike(state, fault) ==
    [state EXCEPT !.applied = @ \cup {fault.id},
                  !.pending = IF fault.required THEN fault.id ELSE "none"]

(* The state after a request, and whether a fault answers it in place of   *)
(* the application.  At most one fault is due, for no two faults of a task *)
(* share a request.                                                        *)
observeDeterministicFault(faults, state, actions) ==
    LET counted == Counted(state, actions)
        awaited == {f \in faults : f.id = state.pending}
        due == Due(faults, counted, actions)
    IN  IF faults = {} THEN [state |-> state, injected |-> FALSE]
        ELSE IF \E f \in awaited : Retries(f, actions)
        THEN [state |-> [counted EXCEPT !.recovered = @ \cup {state.pending}, !.pending = "none"],
              injected |-> FALSE]
        ELSE IF awaited # {} \/ due = {} THEN [state |-> counted, injected |-> FALSE]
        ELSE [state |-> Strike(counted, CHOOSE d \in due : TRUE), injected |-> TRUE]

(* The fault can no longer be recovered: it is neither recovered nor       *)
(* awaiting its retry, and its occurrence has passed.                      *)
OutOfReach(fault, state) ==
    /\ fault.id \notin state.recovered
    /\ fault.id # state.pending
    /\ state.occurrences[fault.action] >= fault.occurrence
=============================================================================
