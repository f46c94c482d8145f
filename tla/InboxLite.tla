------------------------------ MODULE InboxLite -----------------------------
(***************************************************************************)
(* The inbox application (apps/inbox-lite).  The letter of a draft is      *)
(* `asked' when its recipients, subject and body are those asked for,      *)
(* `provisional' when they follow the policy before its amendment, `stray' *)
(* otherwise.  All drafts are on the thread the question is about.  The    *)
(* question with an amendment wants the provisional draft saved, the       *)
(* policy rechecked twice, then that draft revised and sent.               *)
(***************************************************************************)
EXTENDS AppSession, FiniteSetsExt, SequencesExt

Letters == {"asked", "provisional", "stray"}
RequiredRechecks == 2

Questions == [amended : BOOLEAN]    \* amended: with a policy amendment

Init == \E t \in Questions :
    Fresh(t, [threads |-> TRUE, drafts |-> <<>>, sent |-> <<>>, violated |-> FALSE,
              checks |-> <<>>])

NewDraft(letter) ==
    [id |-> Len(work.drafts) + Len(work.sent) + 1, letter |-> letter, revision |-> 0]
DraftIndex(w, id) == SelectInSeq(w.drafts, LAMBDA d : d.id = id)
UpdatedCheck(w) == SelectInSeq(w.checks, LAMBDA c : c.updated)     \* 0: none yet

(* Seeded fault: neither the other drafts nor the violations count. *)
EvaluateSentOnly(w) ==
    IF Len(w.sent) = 1 /\ w.sent[1].letter = "asked" THEN "passed" ELSE "failed"

Evaluate(w) ==
    LET updated == UpdatedCheck(w)
        revised == /\ Len(w.checks) >= RequiredRechecks /\ updated # 0
                   /\ w.sent[1].id = w.checks[updated].draft
                   /\ w.sent[1].revision > w.checks[updated].baseline
                   /\ w.drafts = <<>>
    IN  IF /\ Len(w.sent) = 1 /\ w.sent[1].letter = "asked"
           /\ ~w.violated
           /\ task.amended => revised
        THEN "passed" ELSE "failed"

(* With an amendment, only the tracked draft that was revised is sent. *)
MaySend(w, d) ==
    task.amended =>
        LET updated == UpdatedCheck(w)
        IN  /\ updated # 0 /\ w.checks[updated].draft = d.id
            /\ d.revision > w.checks[updated].baseline
            /\ d.letter = "asked"

SentDraft(w, d) ==
    [w EXCEPT !.drafts = RemoveAt(@, DraftIndex(w, d.id)), !.sent = Append(@, d)]

(* POST /inbox/drafts, and /inbox/send, which saves the draft in any case. *)
Save(letter, send) ==
    /\ work.threads
    /\ LET draft == NewDraft(letter)
           w == [work EXCEPT !.drafts = Append(@, draft)]
           sends == send /\ MaySend(w, draft)
       IN  Accept([op |-> IF sends THEN "save_send" ELSE "save",
                   draft |-> draft.id, letter |-> letter],
                  IF sends THEN SentDraft(w, draft) ELSE w, sends)

(* A letter against the policy is refused, and the violation recorded. *)
Violate ==
    /\ work.threads \/ work.drafts # <<>>
    /\ Accept([op |-> "violate", draft |-> 0, letter |-> "stray"],
              [work EXCEPT !.violated = TRUE], FALSE)

Revise(id, letter) ==
    LET i == DraftIndex(work, id)
    IN  /\ i # 0
        /\ Accept([op |-> "revise", draft |-> id, letter |-> letter],
                  [work EXCEPT !.drafts[i].letter = letter,
                               !.drafts[i].revision = @ + 1], FALSE)

Send(id) ==
    LET i == DraftIndex(work, id)
    IN  /\ i # 0
        /\ MaySend(work, work.drafts[i])
        /\ Accept([op |-> "send", draft |-> id, letter |-> "stray"],
                  SentDraft(work, work.drafts[i]), TRUE)

Recheck ==
    /\ task.amended /\ UpdatedCheck(work) = 0
    /\ LET first == work.checks = <<>>
           i == IF first THEN SelectInSeq(work.drafts, LAMBDA d : d.letter = "provisional")
                ELSE DraftIndex(work, work.checks[1].draft)
           draft == work.drafts[i]
           baseline == IF first THEN draft.revision ELSE work.checks[1].baseline
       IN  /\ i # 0
           /\ draft.letter = "provisional" /\ draft.revision = baseline
           /\ Accept([op |-> "recheck", draft |-> draft.id, letter |-> "stray"],
                     [work EXCEPT !.checks = Append(@,
                        [draft |-> draft.id, baseline |-> baseline,
                         updated |-> Len(@) + 1 >= RequiredRechecks])], FALSE)

(* The validation of a message asks for fields of a draft, which no message *)
(* has: none of the threads of a snapshot outlives a recovery.              *)
Hydrate(w) == [w EXCEPT !.threads = FALSE]

Next ==
    \/ \E letter \in Letters :
        \/ \E send \in BOOLEAN : Save(letter, send)
        \/ \E id \in 1..MaxRequests : Revise(id, letter)
    \/ \E id \in 1..MaxRequests : Send(id)
    \/ Violate
    \/ Recheck
    \/ Complete
    \/ Judge(Evaluate(work))
    \/ Recover(Hydrate(work))
    \/ log = <<>> /\ Recover(work)     \* no snapshot yet: the seed again

TypeOfWork ==
    LET Draft == [id : 1..MaxRequests, letter : Letters, revision : 0..MaxRequests]
    IN  /\ work.threads \in BOOLEAN /\ work.violated \in BOOLEAN
        /\ work.drafts \in Seq(Draft) /\ work.sent \in Seq(Draft)
        /\ work.checks \in
            Seq([draft : 1..MaxRequests, baseline : 0..MaxRequests, updated : BOOLEAN])

-----------------------------------------------------------------------------
At(ops) == {i \in DOMAIN log : log[i].op \in ops}
Writes(id) == {i \in At({"save", "save_send", "revise"}) : log[i].draft = id}

Deserved ==
    /\ At({"violate"}) = {}
    /\ Cardinality(At({"send", "save_send"})) = 1
    /\ LET sent == log[Max(At({"send", "save_send"}))].draft
       IN  /\ log[Max(Writes(sent))].letter = "asked"
           /\ task.amended =>
                /\ At({"save"}) = {Min(Writes(sent))}
                /\ Cardinality(At({"recheck"})) = RequiredRechecks
                /\ \A i \in Writes(sent) :
                    i < Min(At({"recheck"})) \/ i > Max(At({"recheck"}))
                /\ Max(Writes(sent)) > Max(At({"recheck"}))
=============================================================================
