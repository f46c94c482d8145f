------------------------------- MODULE RunView -------------------------------
(***************************************************************************)
(* A run as its page shows it: the row and the events the Web application  *)
(* keeps, the stream that watches them, and the store of the browser with  *)
(* its polls (web-control-plane/repository.ts, lib/db.ts, the routes under *)
(* app/api/runs/[runId], lib/playground-store.ts).                         *)
(*                                                                         *)
(* Every load is two queries, one of the row and one of the events, in any *)
(* order and at different moments.  An event bears the moment its          *)
(* transaction began and is seen from its commit on.                       *)
(***************************************************************************)
EXTENDS Scoring

CONSTANT
    MaxPolls    \* bound: snapshots the page fetches at a time

ASSUME MaxPollsAssumption == MaxPolls \in Nat \ {0}

VARIABLES
    row,      \* status and score of benchmark_runs; -1 is a null score
    log,      \* run_events: the events with their created_at
    calls,    \* events being appended: 0 until their transaction begins
    clock,    \* the moment the last transaction began
    server,   \* the stream: stage, lastFingerprint, the one seen since, what it is
              \* reading, and the last snapshot it sent
    page,     \* currentRunId, what keeps it up to date, what it shows
    polls,    \* snapshots the page is fetching
    stop      \* the owner's cancellation

viewVars == <<row, log, calls, clock, server, page, polls, stop>>
dbVars == <<row, log, calls, clock>>
pageVars == <<page, polls>>

FinalRun == {"completed", "failed", "cancelled", "timeout"}

CancelEvent == [kind |-> "cancelled", session |-> "none", weight |-> 0, score |-> -1]

Nothing == [run |-> {}, events |-> {}]
NoStream == [stage |-> "closed", print |-> Nothing, seen |-> Nothing, read |-> Nothing,
             sent |-> Nothing]
NoPage == [run |-> FALSE, source |-> FALSE, timer |-> FALSE, phase |-> "idle",
           score |-> -1, stored |-> "none"]

ViewInit ==
    /\ row = [status |-> "waiting_for_agent", score |-> -1]
    /\ log = {} /\ calls = {} /\ clock = 0
    /\ server = NoStream
    /\ page = NoPage /\ polls = {} /\ stop = "none"

-----------------------------------------------------------------------------
(* POST .../events, .../complete and .../cancel: one transaction each.     *)

Posted(events) == {[event |-> e, stamp |-> 0] : e \in events}

(* Rows that are inserted at one moment. *)
Inserted(events, stamp) == {[event |-> e, stamp |-> stamp] : e \in events}

Begin(call) ==
    /\ call.stamp = 0
    /\ clock' = clock + 1
    /\ calls' = (calls \ {call}) \cup {[call EXCEPT !.stamp = clock + 1]}
    /\ UNCHANGED <<row, log, server, pageVars, stop>>

(* An event of the attempt never changes the row.  The callback of the end *)
(* does unless the run has ended, and inserts its event only if so.        *)
Commit(call) ==
    /\ call.stamp > 0
    /\ calls' = calls \ {call}
    /\ IF call.event.kind \in FinalRun
       THEN IF row.status \in FinalRun THEN UNCHANGED <<row, log>>
            ELSE /\ row' = [status |-> call.event.kind, score |-> call.event.score]
                 /\ log' = log \cup {call}
       ELSE log' = log \cup {call} /\ UNCHANGED row
    /\ UNCHANGED <<clock, server, pageVars, stop>>

(* The owner's cancellation: the same, and the owner is answered. *)
CancelRun ==
    /\ stop = "writing"
    /\ IF row.status \in FinalRun THEN UNCHANGED <<row, log, clock>>
       ELSE /\ row' = [status |-> "cancelled", score |-> -1]
            /\ clock' = clock + 1
            /\ log' = log \cup Inserted({CancelEvent}, clock + 1)
    /\ stop' = IF row'.status = "cancelled" THEN "200" ELSE "done"
    /\ UNCHANGED <<calls, server, pageVars>>

(* forwardRunEventForRun ignores every failure; the outbox repeats the     *)
(* callback of the end until it is delivered.                              *)
Lose(call) ==
    /\ call.event.kind \notin FinalRun
    /\ call.stamp = 0
    /\ calls' = calls \ {call}
    /\ UNCHANGED <<row, log, clock, server, pageVars, stop>>

-----------------------------------------------------------------------------
(* Loads: two queries.  A fingerprint is of the row and the newest event.  *)

Reads(read) == {[read EXCEPT !.run = {row}], [read EXCEPT !.events = {log}]} \ {read}
Unread(read) == {r \in Reads(read) : read.run \subseteq r.run /\ read.events \subseteq r.events}
Loaded(read) == read.run # {} /\ read.events # {}
RunOf(read) == CHOOSE r \in read.run : TRUE
EventsOf(read) == CHOOSE l \in read.events : TRUE

Newest(events) == {c \in events : \A d \in events : d.stamp <= c.stamp}
Fingerprint(read) == [run |-> read.run, events |-> {Newest(l) : l \in read.events}]

(* What a load would see that happened in one moment. *)
Current == [run |-> {row}, events |-> {log}]

-----------------------------------------------------------------------------
(* What the page shows. *)

mapRunStatus(status) ==
    CASE status \in {"queued", "waiting_for_agent", "agent_connected", "starting"} -> "booting"
      [] status \in {"running", "scoring"} -> "running"
      [] status \in {"completed", "cancelled"} -> status
      [] status \in {"failed", "timeout"} -> "failed"

FinalPhase == {"completed", "failed", "cancelled"}

(* Seeded fault: the score of the events is shown whenever there is one. *)
deriveLiveScore(run, events) ==
    LET live == deriveHostedScoring(events)
    IN  IF live # -1 THEN live ELSE run.score

deriveScore(run, events) ==
    LET hosted == deriveHostedScoring(events)
        scored == Newest({c \in events : c.event.kind = "score"})
    IN  IF run.status = "cancelled" \/ run.score # -1 THEN run.score
        ELSE IF hosted # -1 \/ scored = {} THEN hosted
        ELSE (CHOOSE c \in scored : TRUE).event.score

Shows(p, read) ==
    LET phase == mapRunStatus(RunOf(read).status)
        active == \E c \in EventsOf(read) : c.event.kind = "score"
    IN  [p EXCEPT !.run = TRUE,
           !.phase = IF phase = "booting" /\ active THEN "running" ELSE phase,
           !.score = deriveScore(RunOf(read), EventsOf(read))]

(* Seeded fault: only the timer ends. *)
clearTimer(p) == [p EXCEPT !.timer = FALSE]

(* The stream and the timer end; what is being fetched does not. *)
clearRunSync(p) == [p EXCEPT !.source = FALSE, !.timer = FALSE]

applyRunSnapshot(p, read) ==
    IF RunOf(read).status \in FinalRun THEN clearRunSync(Shows(p, read)) ELSE Shows(p, read)

(* A stream whose page is gone ends. *)
Heard(p) == server' = IF p.source THEN server ELSE NoStream

(* The stream begins with a snapshot, and compares with it nothing that    *)
(* follows: the keys of the two fingerprints are in different orders.      *)
startRunStream == server' = [NoStream EXCEPT !.stage = "loading"]

(* What a fetch may be once the first of its two queries has been made. *)
Fetches(kind) == {[kind |-> kind, read |-> read, late |-> FALSE] : read \in Unread(Nothing)}
Overtaken(fetches) == {[f EXCEPT !.late = TRUE] : f \in fetches}

-----------------------------------------------------------------------------
(* The page. *)

startRun ==
    /\ page = NoPage /\ row.status = "waiting_for_agent"
    /\ page' = [page EXCEPT !.run = TRUE, !.source = TRUE, !.phase = "booting", !.stored = "run"]
    /\ startRunStream
    /\ UNCHANGED <<dbVars, polls, stop>>

(* A page that is opened later finds the run stored, and resumes it. *)
resumeRun ==
    /\ page = NoPage
    /\ page' = [page EXCEPT !.stored = "run"]
    /\ \E f \in Fetches("resume") : polls' = {f}
    /\ UNCHANGED <<dbVars, server, stop>>

(* The page turns to something else, for good as far as this run goes. *)
reset ==
    /\ page.run
    /\ page' = [NoPage EXCEPT !.stored = "removed"]
    /\ polls' = Overtaken(polls)
    /\ Heard(page')
    /\ UNCHANGED <<dbVars, stop>>

(* Seeded fault: the page waits for the stream to come back by itself. *)
StreamLostQuietly ==
    /\ page.source
    /\ page' = [page EXCEPT !.source = FALSE]
    /\ Heard(page')
    /\ UNCHANGED <<dbVars, polls, stop>>

(* The page learns that the stream has ended, and polls instead. *)
StreamLost ==
    /\ page.source
    /\ page' = [page EXCEPT !.source = FALSE, !.timer = page.phase \notin FinalPhase]
    /\ Heard(page')
    /\ UNCHANGED <<dbVars, polls, stop>>

(* The timer starts a poll whether or not the last one has ended. *)
Tick ==
    /\ page.timer /\ Cardinality(polls) < MaxPolls
    /\ \E f \in Fetches("poll") : polls' = polls \cup {f}
    /\ UNCHANGED <<dbVars, server, page, stop>>

PollReads(f) ==
    /\ \E read \in Unread(f.read) : polls' = (polls \ {f}) \cup {[f EXCEPT !.read = read]}
    /\ UNCHANGED <<dbVars, server, page, stop>>

(* What was fetched is shown, without another look at the page; a resumed  *)
(* run that goes on is followed by a stream.                               *)
PollDone(f) ==
    /\ Loaded(f.read)
    /\ polls' = Overtaken(polls \ {f})
    /\ LET shown == applyRunSnapshot(page, f.read)
           follow == f.kind = "resume" /\ RunOf(f.read).status \notin FinalRun
       IN  IF follow THEN page' = [shown EXCEPT !.source = TRUE] /\ startRunStream
           ELSE page' = shown /\ Heard(shown)
    /\ UNCHANGED <<dbVars, stop>>

(* A poll that fails is only logged; a run that cannot be resumed is       *)
(* forgotten.                                                              *)
PollFails(f) ==
    /\ Loaded(f.read)
    /\ polls' = polls \ {f}
    /\ page' = IF f.kind = "resume" THEN [page EXCEPT !.stored = "removed"] ELSE page
    /\ UNCHANGED <<dbVars, server, stop>>

(* The owner stops the run; the route reads it first. *)
stopRun ==
    /\ page.run /\ stop = "none"
    /\ stop' = IF row.status = "cancelled" THEN "200"
               ELSE IF row.status \in FinalRun THEN "done" ELSE "asking"
    /\ UNCHANGED <<dbVars, server, pageVars>>

(* The answer: the end is shown at once; a refusal would change nothing. *)
StopAnswered ==
    /\ stop = "200"
    /\ stop' = "done"
    /\ IF page.run
       THEN /\ page' = [clearRunSync(page) EXCEPT !.phase = "cancelled", !.score = -1]
            /\ polls' = Overtaken(polls)
            /\ Heard(page')
       ELSE UNCHANGED <<pageVars, server>>
    /\ UNCHANGED <<dbVars>>

-----------------------------------------------------------------------------
(* The stream. *)

(* After a pause the stream reads a fingerprint; if it is another one,     *)
(* everything is loaded after it.                                          *)
StreamCompares(read) ==
    LET print == Fingerprint(read)
    IN  IF print = server.print
        THEN [server EXCEPT !.read = Nothing]
        ELSE [server EXCEPT !.stage = "loading", !.read = Nothing, !.seen = print]

StreamReads ==
    /\ server.stage # "closed"
    /\ \E read \in Unread(server.read) :
         server' = IF server.stage = "sleeping" /\ Loaded(read) THEN StreamCompares(read)
                   ELSE [server EXCEPT !.read = read]
    /\ UNCHANGED <<dbVars, pageVars, stop>>

(* Seeded fault: the fingerprint is that of the moment of the sending. *)
AsleepLate(read) ==
    [NoStream EXCEPT !.stage = "sleeping", !.print = Fingerprint(Current), !.sent = read]

Asleep(read) ==
    [NoStream EXCEPT !.stage = "sleeping", !.print = server.seen, !.sent = read]

(* What was loaded is sent; it arrives before the next pause has passed.   *)
(* The page applies it, and the end of the run ends the stream.            *)
Receive ==
    /\ server.stage = "loading" /\ Loaded(server.read)
    /\ page' = IF page.run THEN applyRunSnapshot(page, server.read) ELSE clearRunSync(page)
    /\ polls' = Overtaken(polls)
    /\ server' = IF page'.source THEN Asleep(server.read) ELSE NoStream
    /\ UNCHANGED <<dbVars, stop>>

(* STREAM_MAX_DURATION_MS has passed. *)
StreamExpires ==
    /\ server.stage = "sleeping" /\ server.read = Nothing
    /\ server' = NoStream
    /\ UNCHANGED <<dbVars, pageVars, stop>>

ViewNext ==
    \/ startRun \/ resumeRun \/ reset \/ Receive \/ StreamLost \/ Tick \/ stopRun \/ CancelRun
    \/ StopAnswered
    \/ \E f \in polls : PollReads(f) \/ PollDone(f) \/ PollFails(f)
    \/ StreamReads \/ StreamExpires
    \/ \E call \in calls : Begin(call) \/ Commit(call) \/ Lose(call)

-----------------------------------------------------------------------------
(* Properties. *)

(* A stream that sleeps on a fingerprint the database still has has sent   *)
(* the row and the newest event it has: nothing new is slept through       *)
(* (the fingerprint is read before the snapshot; stream/route.ts).         *)
StreamIsCurrent ==
    server.stage = "sleeping" /\ server.print = Fingerprint(Current) =>
      server.sent.run = {row} /\ Newest(EventsOf(server.sent)) = Newest(log)

(* Only a poll that something overtook takes a page back from the end of   *)
(* its run to a run that goes on (playground-store.ts).                    *)
OnlyOvertakenGoesBack ==
    [][page.phase \in FinalPhase /\ page'.phase \in {"booting", "running"} =>
         \E f \in polls : f.late /\ f \notin polls']_viewVars

(* A page that follows a run sees its end, unless it turns to another one: *)
(* through the stream, or its polls when the stream breaks or expires.     *)
ConnectedSeesEnd ==
    (row.status \in FinalRun /\ page.run /\ (page.source \/ page.timer))
      ~> (page.phase \in FinalPhase \/ ~page.run)
=============================================================================
