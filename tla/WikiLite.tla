------------------------------ MODULE WikiLite ------------------------------
(***************************************************************************)
(* The wiki application (apps/wiki-lite).  The question asks for an answer *)
(* found in its target article, with the target and the other required     *)
(* articles opened.  Page loads reach the evaluator without their article  *)
(* (safeTelemetryRoute), so only the list kept by the pages counts.        *)
(***************************************************************************)
EXTENDS AppSession, FiniteSetsExt

Articles == {"target", "policy", "glossary"}

(* How an answer is compared with the expected one: as it is, or whatever  *)
(* its case, or whatever its case and punctuation.                         *)
Policies == {"trim", "trim-casefold", "trim-casefold-punctuation"}

(* The expected answer as it stands, in another case, with other           *)
(* punctuation, or another answer.                                         *)
Answers == {"exact", "recased", "punctuated", "wrong"}

Question(required, policy) == [required |-> required, normalization |-> policy]

(* The target alone or with a secondary article; an older question lists   *)
(* its articles.                                                           *)
Questions ==
    {Question(required, policy) : required \in {{"target"}, {"target", "policy"}},
                                  policy \in Policies}
    \cup {Question(Articles, "trim-casefold-punctuation")}

Init == \E t \in Questions : Fresh(t, [viewed |-> {}, answer |-> "none"])

(* The answers that a policy makes equal to the expected one. *)
Accepted(policy) ==
    {"exact"}
    \cup (IF policy # "trim" THEN {"recased"} ELSE {})
    \cup (IF policy = "trim-casefold-punctuation" THEN {"punctuated"} ELSE {})

(* Seeded fault: any article that was opened will do. *)
EvaluateAnyArticle(w) ==
    IF w.answer \in Accepted(task.normalization) /\ w.viewed # {}
    THEN "passed" ELSE "failed"

Evaluate(w) ==
    IF w.answer \in Accepted(task.normalization) /\ task.required \subseteq w.viewed THEN "passed" ELSE "failed"

View(article) ==
    /\ article \notin work.viewed
    /\ Accept([op |-> "view", on |-> article],
              [work EXCEPT !.viewed = @ \cup {article}], FALSE)

Answer(answer) ==
    Accept([op |-> "answer", on |-> answer], [work EXCEPT !.answer = answer], TRUE)

Hydrate(w) == w

Next ==
    \/ \E article \in Articles : View(article)
    \/ \E answer \in Answers : Answer(answer)
    \/ Complete
    \/ Judge(Evaluate(work))
    \/ Recover(Hydrate(work))

TypeOfWork ==
    work \in [viewed : SUBSET Articles, answer : Answers \cup {"none"}]

-----------------------------------------------------------------------------
Deserved ==
    LET answers == {i \in DOMAIN log : log[i].op = "answer"}
    IN  /\ answers # {} /\ log[Max(answers)].on \in Accepted(task.normalization)
        /\ \A article \in task.required :
            \E i \in DOMAIN log : log[i] = [op |-> "view", on |-> article]
=============================================================================
