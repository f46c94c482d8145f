------------------------------ MODULE RepoLite ------------------------------
(***************************************************************************)
(* The repository application (apps/repo-lite).  The question asks for     *)
(* some files to be edited as told and for a merge request with the title, *)
(* branches, message and reviewer it names.  The simulated CI is advice to *)
(* the agent and no part of the verdict.                                   *)
(*                                                                         *)
(* A merge request holds a copy of the files, but the verdict is about the *)
(* files as they are when it is given.                                     *)
(***************************************************************************)
EXTENDS AppSession, FiniteSetsExt

Files == {"readme", "version", "changelog"}
Contents == {"seed", "asked", "stray"}
Untouched == [f \in Files |-> "seed"]

(* One file to edit, with a secondary one, with an additional one as well. *)
Questions == [files : {{"readme"}, {"readme", "version"}, Files}]

Init == \E t \in Questions : Fresh(t, [files |-> Untouched, requests |-> <<>>])

(* The file has the text that is asked for and not the one to be replaced. *)
Satisfied(w, f) == w.files[f] = "asked"

(* Seeded fault: only the first file is looked at. *)
EvaluateReadme(w) ==
    IF /\ w.requests # <<>> /\ w.requests[Len(w.requests)].asked
       /\ Satisfied(w, "readme")
    THEN "passed" ELSE "failed"

Evaluate(w) ==
    IF /\ w.requests # <<>> /\ w.requests[Len(w.requests)].asked
       /\ \A f \in task.files : Satisfied(w, f)
    THEN "passed" ELSE "failed"

Edit(f, content) ==
    Accept([op |-> "edit", file |-> f, content |-> content],
           [work EXCEPT !.files[f] = content], FALSE)

CreateMergeRequest(asked) ==
    Accept([op |-> "merge", file |-> "all", content |-> IF asked THEN "asked" ELSE "stray"],
           [work EXCEPT !.requests =
                Append(@, [asked |-> asked, files |-> work.files])], TRUE)

Hydrate(w) == w

Next ==
    \/ \E f \in Files, content \in Contents : Edit(f, content)
    \/ \E asked \in BOOLEAN : CreateMergeRequest(asked)
    \/ Complete
    \/ Judge(Evaluate(work))
    \/ Recover(Hydrate(work))

TypeOfWork ==
    /\ work.files \in [Files -> Contents]
    /\ work.requests \in Seq([asked : BOOLEAN, files : [Files -> Contents]])

-----------------------------------------------------------------------------
Deserved ==
    LET merges == {i \in DOMAIN log : log[i].op = "merge"}
        edits(f) == {i \in DOMAIN log : log[i].file = f}
    IN  /\ merges # {} /\ log[Max(merges)].content = "asked"
        /\ \A f \in task.files :
            edits(f) # {} /\ log[Max(edits(f))].content = "asked"
=============================================================================
