----------------------------- MODULE SheetsLite -----------------------------
(***************************************************************************)
(* The spreadsheet application (apps/sheets-lite).  The question asks for  *)
(* the rows of two of three orders, calculated `right', and for a          *)
(* validation; one of the rows is there from the start, and wrong.         *)
(***************************************************************************)
EXTENDS AppSession, FiniteSetsExt, Functions

Orders == {"first", "second", "third"}
Asked(orders) == [o \in orders |-> "right"]

(* The row that is there has to be repaired, or removed. *)
Questions == {[rows |-> Asked(orders)] : orders \in {{"first", "second"}, {"second", "third"}}}

(* validated: the latest validation run, its status and number of rows. *)
Init == \E t \in Questions :
    Fresh(t, [rows |-> [o \in {"first"} |-> "wrong"],
              validated |-> [passed |-> FALSE, count |-> 0]])

RowsAreExact(w) == w.rows = task.rows

(* Seeded fault: the rows are not compared again after the validation. *)
EvaluateValidated(w) ==
    IF w.validated.passed /\ w.validated.count = Cardinality(DOMAIN w.rows)
    THEN "passed" ELSE "failed"

Evaluate(w) ==
    IF /\ RowsAreExact(w)
       /\ w.validated.passed
       /\ w.validated.count = Cardinality(DOMAIN w.rows)
    THEN "passed" ELSE "failed"

Upsert(o, value) ==
    Accept([op |-> "upsert", row |-> o, value |-> value],
           [work EXCEPT !.rows = [r \in DOMAIN @ \cup {o} |->
                IF r = o THEN value ELSE @[r]]], FALSE)

Remove(o) ==
    /\ o \in DOMAIN work.rows
    /\ Accept([op |-> "remove", row |-> o, value |-> "absent"],
              [work EXCEPT !.rows = Restrict(@, DOMAIN @ \ {o})], FALSE)

Validate ==
    LET exact == RowsAreExact(work)
    IN  Accept([op |-> "validate", row |-> "all", value |-> "absent"],
               [work EXCEPT !.validated =
                    [passed |-> exact, count |-> Cardinality(DOMAIN work.rows)]], exact)

Hydrate(w) == w

Next ==
    \/ \E o \in Orders : Remove(o) \/ \E value \in {"right", "wrong"} : Upsert(o, value)
    \/ Validate
    \/ Complete
    \/ Judge(Evaluate(work))
    \/ Recover(Hydrate(work))

TypeOfWork ==
    /\ DOMAIN work.rows \subseteq Orders
    /\ Range(work.rows) \subseteq {"right", "wrong"}
    /\ work.validated \in [passed : BOOLEAN, count : 0..Cardinality(Orders)]

-----------------------------------------------------------------------------
(* The value the first n requests left a row with. *)
Left(o, n) ==
    LET writes == {i \in 1..n : log[i].row = o}
    IN  IF writes # {} THEN log[Max(writes)].value
        ELSE IF o = "first" THEN "wrong" ELSE "absent"

ExactAfter(n) ==
    \A o \in Orders : Left(o, n) = (IF o \in DOMAIN task.rows THEN "right" ELSE "absent")

Deserved ==
    LET runs == {i \in DOMAIN log : log[i].op = "validate"}
    IN  runs # {} /\ ExactAfter(Max(runs)) /\ ExactAfter(Len(log))
=============================================================================
