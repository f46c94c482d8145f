----------------------------- MODULE ForumLite ------------------------------
(***************************************************************************)
(* The forum (apps/forum-lite).  A request on the thread the question is   *)
(* about is `right' when its value - the reply's text, the reason, the     *)
(* category, the title, the canonical thread - is the one asked for.  A    *)
(* second thread is a duplicate of it; of its own title and category, and  *)
(* of the replies to it, no question asks anything.                        *)
(***************************************************************************)
EXTENDS AppSession, FiniteSetsExt, SequencesExt

Threads == {"target", "duplicate"}

(* required: what must be done besides replying and locking; order: what   *)
(* must be done in this order.                                             *)
Question(required, order) == [required |-> required, order |-> order]
Questions == {
    Question({}, <<>>),
    Question({"report", "pin"}, <<"report", "lock", "pin">>),
    Question({"move", "edit_title"}, <<>>),
    Question({"mark_duplicate", "move"}, <<"mark_duplicate", "move", "lock">>)}

Init == \E t \in Questions :
    Fresh(t, [locked |-> {}, replied |-> FALSE, answered |-> FALSE,
              value |-> [kind \in {"move", "edit_title"} |-> FALSE], actions |-> <<>>])

(* The first action of a kind on the thread decides. *)
FirstOf(w, kind) ==
    SelectInSeq(w.actions, LAMBDA a : a.thread = "target" /\ a.kind = kind)
FirstIsRight(w, kind) == FirstOf(w, kind) # 0 /\ w.actions[FirstOf(w, kind)].right

(* The actions that are looked at in order: with a duplicate to mark, those *)
(* on the duplicate as well.                                               *)
Relevant(action) == action.thread = "target" \/ "mark_duplicate" \in task.required

(* How far the actions follow the order asked for. *)
Follows(w) ==
    FoldLeft(LAMBDA n, action :
                IF /\ Relevant(action) /\ n < Len(task.order)
                   /\ action.kind = task.order[n + 1]
                THEN n + 1 ELSE n,
             0, w.actions)

(* Seeded fault: the actions may be in any order. *)
EvaluateUnordered(w) ==
    LET needs(kind) == kind \in task.required
    IN  IF /\ w.answered /\ "target" \in w.locked /\ FirstIsRight(w, "lock")
           /\ needs("pin") => FirstOf(w, "pin") # 0
           /\ needs("report") => FirstIsRight(w, "report")
           /\ \A kind \in {"move", "edit_title"} :
                needs(kind) => FirstIsRight(w, kind) /\ w.value[kind]
           /\ needs("mark_duplicate") =>
                \E i \in DOMAIN w.actions :
                    w.actions[i] = [thread |-> "duplicate", kind |-> "mark_duplicate",
                                    right |-> TRUE]
        THEN "passed" ELSE "failed"

Evaluate(w) ==
    LET needs(kind) == kind \in task.required
    IN  IF /\ w.answered
           /\ w.replied /\ "target" \in w.locked /\ FirstIsRight(w, "lock")
           /\ needs("pin") => FirstOf(w, "pin") # 0
           /\ needs("report") => FirstIsRight(w, "report")
           /\ \A kind \in {"move", "edit_title"} :
                needs(kind) => FirstIsRight(w, kind) /\ w.value[kind]
           /\ needs("mark_duplicate") =>
                \E i \in DOMAIN w.actions :
                    w.actions[i] = [thread |-> "duplicate", kind |-> "mark_duplicate",
                                    right |-> TRUE]
           /\ Follows(w) = Len(task.order)
        THEN "passed" ELSE "failed"

Request(thread, kind, right) == [thread |-> thread, kind |-> kind, right |-> right]
Acted(w, request) == [w EXCEPT !.actions = Append(@, request)]
CompletionAction == IF "pin" \in task.required THEN "pin" ELSE "lock"

Reply(right) ==
    /\ "target" \notin work.locked
    /\ Accept(Request("target", "reply", right),
              [work EXCEPT !.replied = TRUE, !.answered = @ \/ right], FALSE)

Lock(thread, right) ==
    LET request == Request(thread, "lock", right)
    IN  Accept(request, [Acted(work, request) EXCEPT !.locked = @ \cup {thread}],
               CompletionAction = "lock")

Pin(thread) ==
    LET request == Request(thread, "pin", TRUE)
    IN  thread \in work.locked
        /\ Accept(request, Acted(work, request), CompletionAction = "pin")

Report(thread, right) ==
    LET request == Request(thread, "report", right)
    IN  thread \notin work.locked /\ Accept(request, Acted(work, request), FALSE)

(* moveThread and editThreadTitle. *)
Rewrite(thread, kind, right) ==
    LET request == Request(thread, kind, right)
        value == IF thread = "target" THEN right ELSE work.value[kind]
    IN  thread \notin work.locked
        /\ Accept(request, [Acted(work, request) EXCEPT !.value[kind] = value], FALSE)

(* Of each of the two threads, as a duplicate of the other. *)
MarkDuplicate(thread) ==
    LET request == Request(thread, "mark_duplicate", thread = "duplicate")
    IN  thread \notin work.locked /\ Accept(request, Acted(work, request), FALSE)

Hydrate(w) == w

(* What is done to an open thread, the reply apart. *)
Triage ==
    \/ \E thread \in Threads, right \in BOOLEAN :
        /\ thread = "duplicate" => ~right
        /\ \/ Report(thread, right)
           \/ Rewrite(thread, "move", right) \/ Rewrite(thread, "edit_title", right)
    \/ \E thread \in Threads : MarkDuplicate(thread)

Next ==
    \/ \E right \in BOOLEAN : Reply(right) \/ Lock("target", right)
    \/ Lock("duplicate", FALSE)
    \/ \E thread \in Threads : Pin(thread)
    \/ Triage
    \/ Complete
    \/ Judge(Evaluate(work))
    \/ Recover(Hydrate(work))

TypeOfWork ==
    /\ work.locked \subseteq Threads
    /\ work.replied \in BOOLEAN /\ work.answered \in BOOLEAN
    /\ work.value \in [{"move", "edit_title"} -> BOOLEAN]
    /\ work.answered => work.replied

-----------------------------------------------------------------------------
Doing(kind) == {i \in DOMAIN log : log[i].kind = kind /\ log[i].thread = "target"}
NoneWrong(kind) == Doing(kind) # {} /\ log[Min(Doing(kind))].right

(* The requests of an order can be found one after the other.  This is as  *)
(* tolerant as the evaluator: requests before, between and after them are  *)
(* allowed, and one on the duplicate counts as one on the target, though   *)
(* the goal of the hard question speaks of this exact order.               *)
InOrder(order) ==
    \E place \in [DOMAIN order -> DOMAIN log] :
        /\ \A n \in DOMAIN order : log[place[n]].kind = order[n]
        /\ \A n, m \in DOMAIN order : n < m => place[n] < place[m]

(* The right reply, the lock for the right reason and what else is asked   *)
(* for; the first attempt at each counts, and a title or a category must   *)
(* also be right in the end.                                               *)
Deserved ==
    /\ \E i \in Doing("reply") : log[i].right
    /\ \A kind \in {"lock"} \cup (task.required \cap {"report", "move", "edit_title"}) :
        NoneWrong(kind)
    /\ \A kind \in task.required \cap {"move", "edit_title"} : log[Max(Doing(kind))].right
    /\ "pin" \in task.required => Doing("pin") # {}
    /\ "mark_duplicate" \in task.required =>
        \E i \in DOMAIN log : log[i].kind = "mark_duplicate" /\ log[i].thread = "duplicate"
    /\ InOrder(task.order)
=============================================================================
