----------------------------- MODULE NotesLite ------------------------------
(***************************************************************************)
(* The notes application (apps/notes-lite).  A text stands for a title, a  *)
(* body and a tag: `alpha' and `beta' are two a question may spell out,    *)
(* `tagged' has the tag of a question that leaves title and body to be     *)
(* carried over from an earlier session.                                   *)
(***************************************************************************)
EXTENDS AppSession, FiniteSetsExt

Texts == {"alpha", "beta", "tagged", "stray"}
Seed == 1       \* a seeded note

(* all: the texts every one of which is asked for; fits: those that do for *)
(* the one note asked for; target: the seeded note it must be, or 0; seed: *)
(* what the seeded note says.                                              *)
Question(all, fits, target, seed) ==
    [all |-> all, fits |-> fits, target |-> target, seed |-> seed]
Questions == {
    Question({}, {"alpha"}, 0, "stray"),
    Question({}, {"alpha"}, Seed, "stray"),
    Question({}, {"tagged"}, 0, "stray"),
    Question({}, {"tagged"}, Seed, "tagged"),
    Question({"alpha", "beta"}, {"tagged"}, 0, "stray")}

Init == \E t \in Questions : Fresh(t, <<t.seed>>)

Evaluate(w) ==
    LET candidates == IF task.all = {} /\ task.target # 0 THEN {task.target} ELSE DOMAIN w
    IN  IF /\ \A text \in task.all : \E n \in DOMAIN w : w[n] = text
           /\ \E n \in candidates : w[n] \in task.fits
        THEN "passed" ELSE "failed"

Create(text) ==
    LET w == Append(work, text)
    IN  Accept([note |-> Len(w), text |-> text], w,
               task.all = {} \/ Evaluate(w) = "passed")

(* Seeded fault: an edit makes another note. *)
UpdateAsCopy(n, text) ==
    n \in DOMAIN work /\ Accept([note |-> n, text |-> text], Append(work, text), TRUE)

Update(n, text) ==
    n \in DOMAIN work
    /\ Accept([note |-> n, text |-> text], [work EXCEPT ![n] = text], TRUE)

Hydrate(w) == w

Next ==
    \/ \E text \in Texts : Create(text) \/ \E n \in 1..MaxRequests : Update(n, text)
    \/ Complete
    \/ Judge(Evaluate(work))
    \/ Recover(Hydrate(work))

TypeOfWork == work \in Seq(Texts)

-----------------------------------------------------------------------------
(* What the requests left of a note, by the last one that wrote it. *)
Says(n) ==
    LET writes == {i \in DOMAIN log : log[i].note = n}
    IN  IF writes = {} THEN task.seed ELSE log[Max(writes)].text

Deserved ==
    LET notes == {Seed} \cup {log[i].note : i \in DOMAIN log}
    IN  /\ \A text \in task.all : \E n \in notes : Says(n) = text
        /\ \E n \in notes :
            Says(n) \in task.fits /\ (task.all = {} => task.target \in {0, n})
=============================================================================
