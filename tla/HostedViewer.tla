----------------------------- MODULE HostedViewer -----------------------------
(***************************************************************************)
(* What the live page makes of the events of a run: which session is the   *)
(* active one, and whose page it shows (lib/hosted-viewer.ts).             *)
(*                                                                         *)
(* An event bears its created_at, and events are read in that order; a URL *)
(* is the session it belongs to, a page within the session is left out.    *)
(***************************************************************************)
EXTENDS Integers, Sequences

OfKind(events, kind) == {c \in events : c.event.kind = kind}
SessionsOf(events) == {c.event.session : c \in events}
Latest(events) == CHOOSE c \in events : \A d \in events : d.stamp <= c.stamp

(* The first of some sessions in the order of the suite. *)
FirstOf(tasks, sessions) ==
    tasks[CHOOSE i \in DOMAIN tasks :
            tasks[i] \in sessions /\ \A j \in 1..(i - 1) : tasks[j] \notin sessions]

(* Created and not scored, as far as the events tell. *)
Unscored(events) ==
    SessionsOf(OfKind(events, "created")) \ SessionsOf(OfKind(events, "score"))

(* Seeded fault: only the scores tell what is finished. *)
deriveFromScores(events, tasks) ==
    IF Unscored(events) = {} THEN "none" ELSE FirstOf(tasks, Unscored(events))

(* The latest progress names it; if there is none, or no active session,   *)
(* it is the first that has no score.                                      *)
deriveActiveHostedSessionId(events, tasks) ==
    LET progress == OfKind(events, "progress")
    IN  IF progress # {} /\ Latest(progress).event.session # "none"
        THEN Latest(progress).event.session
        ELSE IF Unscored(events) = {} THEN "none" ELSE FirstOf(tasks, Unscored(events))

(* A session is announced with a link only if it has a deadline: the first.*)
Linked(events, tasks) ==
    {c \in OfKind(events, "created") : c.event.session = tasks[1]}

(* The last page loaded in a session with a link, or the link. *)
deriveHostedViewerUrl(events, tasks) ==
    LET links == Linked(events, tasks)
        loads == {c \in OfKind(events, "page") :
                    \E d \in links : d.event.session = c.event.session /\ d.stamp < c.stamp}
    IN  IF loads # {} THEN Latest(loads).event.session
        ELSE IF links = {} THEN "none" ELSE tasks[1]

(* Progress brings the link of the active session. *)
deriveActiveHostedViewerUrl(events, tasks, active) ==
    IF active \in SessionsOf(Linked(events, tasks) \cup OfKind(events, "progress")) \ {"none"}
    THEN active
    ELSE deriveHostedViewerUrl(events, tasks)
=============================================================================
