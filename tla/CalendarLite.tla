---------------------------- MODULE CalendarLite ----------------------------
(***************************************************************************)
(* The calendar application (apps/calendar-lite).  An entry is `asked'     *)
(* when it is all the question asks for, `tentative' when it is at the     *)
(* time that is free until an actor's calendar changes.  The question with *)
(* an actor update wants the tentative entry booked, the availability      *)
(* rechecked twice with that entry untouched, then the entry moved.        *)
(***************************************************************************)
EXTENDS AppSession, FiniteSetsExt

Entries == {"asked", "tentative", "stray"}
RequiredRechecks == 2

(* update: the entry asked for is at the time that is free after an update *)
(* of an actor.  How the agent finds a free time is no part of a question. *)
Questions == [update : BOOLEAN]

Init == \E t \in Questions : Fresh(t, [events |-> <<>>, checks |-> <<>>])

Updated(w) == \E c \in DOMAIN w.checks : w.checks[c].updated

Evaluate(w) ==
    LET matches == {e \in DOMAIN w.events : w.events[e].entry = "asked"}
        Match == Min(matches)
        updated == {c \in DOMAIN w.checks : w.checks[c].updated}
        check == w.checks[Min(updated)]
        revised == /\ Len(w.checks) >= RequiredRechecks /\ updated # {}
                   /\ Match = check.event
                   /\ w.events[Match].revision > check.baseline
                   /\ Len(w.events) = 1
    IN  IF matches # {} /\ (task.update => revised) THEN "passed" ELSE "failed"

(* The route looks for an entry before it reads the form; a session's      *)
(* requests come one after the other here, so nothing is in between.       *)
Create(entry) ==
    /\ ~(task.update /\ work.events # <<>>)
    /\ Accept([op |-> "create", entry |-> entry, event |-> Len(work.events) + 1],
              [work EXCEPT !.events = Append(@, [entry |-> entry, revision |-> 0])],
              ~task.update)

Update(e, entry) ==
    /\ e \in DOMAIN work.events
    /\ LET w == [work EXCEPT !.events[e] =
                    [entry |-> entry, revision |-> @.revision + 1]]
       IN  Accept([op |-> "update", entry |-> entry, event |-> e], w,
                  Evaluate(w) = "passed")

Check(e, baseline) ==
    [event |-> e, baseline |-> baseline,
     updated |-> Len(work.checks) + 1 >= RequiredRechecks]

(* Seeded fault: the entry may have been revised since the first recheck. *)
RecheckRevised ==
    /\ task.update /\ ~Updated(work)
    /\ \E e \in DOMAIN work.events :
        /\ work.events[e].entry = "tentative"
        /\ Accept([op |-> "recheck", entry |-> "stray", event |-> e],
                  [work EXCEPT !.checks = Append(@, Check(e, 0))], FALSE)

Recheck ==
    /\ task.update /\ ~Updated(work)
    /\ LET first == work.checks = <<>>
           tentative == {e \in DOMAIN work.events : work.events[e].entry = "tentative"}
           tracked == IF first THEN Min(tentative) ELSE work.checks[1].event
           baseline == IF first THEN work.events[tracked].revision ELSE work.checks[1].baseline
       IN  /\ first => tentative # {}
           /\ work.events[tracked].entry = "tentative"
           /\ work.events[tracked].revision = baseline
           /\ Accept([op |-> "recheck", entry |-> "tentative", event |-> tracked],
                     [work EXCEPT !.checks = Append(@, Check(tracked, baseline))], FALSE)

Hydrate(w) == w

Next ==
    \/ \E entry \in Entries :
        Create(entry) \/ \E e \in 1..MaxRequests : Update(e, entry)
    \/ Recheck
    \/ Complete
    \/ Judge(Evaluate(work))
    \/ Recover(Hydrate(work))

TypeOfWork ==
    /\ work.events \in Seq([entry : Entries, revision : 0..MaxRequests])
    /\ work.checks \in Seq([event : DOMAIN work.events, baseline : 0..MaxRequests,
                            updated : BOOLEAN])
    /\ ~task.update => work.checks = <<>>

-----------------------------------------------------------------------------
At(op) == {i \in DOMAIN log : log[i].op = op}
Writes(e) == {i \in DOMAIN log : log[i].op # "recheck" /\ log[i].event = e}

Deserved ==
    IF ~task.update
    THEN \E i \in DOMAIN log :
            log[i].entry = "asked" /\ \A j \in Writes(log[i].event) : j <= i
    ELSE /\ At("recheck") # {}
         /\ Cardinality(At("recheck")) >= RequiredRechecks
         /\ log[Max({i \in Writes(1) : i < Min(At("recheck"))})].entry = "tentative"
         /\ \A i \in Writes(1) : i < Min(At("recheck")) \/ i > Max(At("recheck"))
         /\ Max(Writes(1)) > Max(At("recheck"))
         /\ log[Max(Writes(1))].entry = "asked"
=============================================================================
