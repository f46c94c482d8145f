---------------------------- MODULE LiveRunProofs ----------------------------
(***************************************************************************)
(* Theorems about LiveRun for every set of suites and any number of polls. *)
(***************************************************************************)
EXTENDS LiveRun, RunScoringProofs

-----------------------------------------------------------------------------
(* The database and the stream *)

RunStatuses == {"waiting_for_agent", "agent_connected"} \cup FinalRun
AttemptEnds == {"completed", "failed"}
EventKinds == {"created", "page", "progress", "score", "cancelled"} \cup AttemptEnds

IsRow(r) == r = [status |-> r.status, score |-> r.score] /\ r.status \in RunStatuses
IsCall(c) ==
    /\ c = [event |-> c.event, stamp |-> c.stamp]
    /\ c.stamp \in Nat
    /\ c.event.kind \in EventKinds
IsRead(read) == read = [run |-> read.run, events |-> read.events]

(* A run goes from one status to the next and stays at the last. *)
RowStage(r) ==
    IF r.status = "waiting_for_agent" THEN 0 ELSE IF r.status = "agent_connected" THEN 1 ELSE 2
Progressed(r, s) == r = s \/ RowStage(r) < RowStage(s)

(* What was read, or the fingerprint of it, was there when the other was.  *)
SeenBefore(early, late) ==
    /\ \A r \in early.run, s \in late.run : Progressed(r, s)
    /\ \A k \in early.events, l \in late.events : k \subseteq l

(* The statuses in FinalRun no attempt's end has: nobody sends them here.  *)
DbInv ==
    /\ IsRow(row)
    /\ clock \in Nat
    /\ \A c \in log \cup calls : IsCall(c) /\ c.stamp <= clock
    /\ \A c \in calls : c.event.kind # "cancelled"
    /\ log # {} => Newest(log) # {}

StreamInv ==
    /\ server = [stage |-> server.stage, print |-> server.print, seen |-> server.seen,
                 read |-> server.read, sent |-> server.sent]
    /\ server.stage \in {"closed", "loading", "sleeping"}
    /\ \A p \in {server.print, server.seen, server.read, server.sent} :
         IsRead(p) /\ SeenBefore(p, Current)
    /\ server.stage = "loading" => SeenBefore(server.seen, server.read)
    /\ server.stage = "sleeping" => Loaded(server.sent) /\ SeenBefore(server.print, server.sent)

-----------------------------------------------------------------------------
(* Steps of the database *)

(* Nothing that was seen is ever unseen. *)
DbMoves == Progressed(row, row') /\ log \subseteq log'

LEMMA ProgressedOrder ==
    /\ \A r : Progressed(r, r)
    /\ \A r, s, t : Progressed(r, s) /\ Progressed(s, t) => Progressed(r, t)
    /\ \A r, s : Progressed(r, s) /\ Progressed(s, r) => r = s
    /\ \A r, s : Progressed(r, s) /\ r.status \in FinalRun => r = s
  BY DEF Progressed, RowStage, FinalRun

(* What is added to the log has a newest event with it. *)
LEMMA NewestAdded ==
    ASSUME NEW L, NEW c, c.stamp \in Nat, \A d \in L : d.stamp \in Nat,
           L # {} => Newest(L) # {}
    PROVE  Newest(L \cup {c}) # {}
<1>1. CASE \A d \in L : d.stamp <= c.stamp
  BY <1>1 DEF Newest
<1>2. CASE \E d \in L : c.stamp < d.stamp
  <2>1. PICK n \in Newest(L) : TRUE
    BY <1>2
  <2>2. n \in Newest(L \cup {c})
    BY <2>1, <1>2 DEF Newest
  <2> QED BY <2>2
<1>3. (\A d \in L : d.stamp <= c.stamp) \/ (\E d \in L : c.stamp < d.stamp)
  OBVIOUS
<1> QED BY <1>1, <1>2, <1>3

LEMMA NewestOfMany ==
    ASSUME NEW L, NEW E, NEW n \in Nat, \A d \in L : d.stamp \in Nat /\ d.stamp < n,
           L # {} => Newest(L) # {}, L \cup Inserted(E, n) # {}
    PROVE  Newest(L \cup Inserted(E, n)) # {}
<1>1. CASE E = {}
  BY <1>1 DEF Inserted
<1>2. CASE E # {}
  <2>1. PICK c \in Inserted(E, n) : TRUE
    BY <1>2 DEF Inserted
  <2>2. c \in Newest(L \cup Inserted(E, n))
    BY <2>1 DEF Newest, Inserted
  <2> QED BY <2>2
<1> QED BY <1>1, <1>2

LEMMA AttemptMoves ==
    ASSUME ScoringNext
    PROVE  attempt' = attempt \/ attempt' \in AttemptEnds
  BY DEF ScoringNext, Request, Edit, FinishSession, AttemptEnds

LEMMA Queries ==
    ASSUME ViewNext
    PROVE  \/ UNCHANGED dbVars
           \/ CancelRun
           \/ \E call \in calls : Begin(call) \/ Commit(call) \/ Lose(call)
  BY DEF ViewNext, startRun, resumeRun, reset, Receive, StreamLost, Tick, stopRun, StopAnswered,
         PollReads, PollDone, PollFails, StreamReads, StreamExpires

LEMMA DbAfter ==
    ASSUME IsRow(row') /\ Progressed(row, row'),
           clock' \in Nat /\ log \subseteq log' /\ \A c \in calls' : c.event.kind # "cancelled",
           \A c \in log' \cup calls' : IsCall(c) /\ c.stamp <= clock',
           log' # {} => Newest(log') # {}
    PROVE  DbInv' /\ DbMoves
<1> DEFINE n == Newest(log')
<1>1. Newest(log)' = n
  BY DEF Newest
<1> HIDE DEF n
<1> QED BY <1>1 DEF DbInv, DbMoves, n

LEMMA DbStep ==
    ASSUME DbInv, [Next]_vars
    PROVE  DbInv' /\ DbMoves
<1> USE DEF DbInv, DbMoves
<1>0. CASE UNCHANGED dbVars
  BY <1>0, ProgressedOrder DEF dbVars, IsRow, IsCall, Newest
<1>1. CASE Connect
  <2>1. CASE ~Watched
    BY <2>1, <1>1, <1>0 DEF Connect, dbVars, viewVars
  <2>2. CASE Watched
    <3>1. PICK known \in SUBSET TasksOf(suite) :
            log' = log \cup Inserted({CreatedEvent(task) : task \in known}, clock + 1)
      BY <1>1, <2>2 DEF Connect
    <3> DEFINE new == {CreatedEvent(task) : task \in known}
    <3>2. /\ row.status = "waiting_for_agent" /\ row' = [row EXCEPT !.status = "agent_connected"]
          /\ clock' = clock + 1 /\ calls' = calls /\ log' = log \cup Inserted(new, clock + 1)
      BY <1>1, <2>2, <3>1 DEF Connect
    <3>3. \A e \in new : e.kind = "created"
      BY DEF CreatedEvent
    <3> HIDE DEF new
    <3>4. IsRow(row') /\ Progressed(row, row')
      BY <3>2 DEF IsRow, Progressed, RowStage, RunStatuses
    <3>5. \A c \in Inserted(new, clock + 1) : IsCall(c) /\ c.stamp = clock + 1
      BY <3>3 DEF Inserted, IsCall, EventKinds
    <3>6. log' # {} => Newest(log') # {}
      <4>1. clock + 1 \in Nat /\ \A d \in log : d.stamp \in Nat /\ d.stamp < clock + 1
        BY DEF IsCall
      <4> QED BY <3>2, <4>1, NewestOfMany
    <3>7. \A c \in log' \cup calls' : IsCall(c) /\ c.stamp <= clock'
      BY <3>2, <3>5 DEF IsCall
    <3>8. clock' \in Nat /\ log \subseteq log' /\ \A c \in calls' : c.event.kind # "cancelled"
      BY <3>2
    <3> QED BY <3>4, <3>6, <3>7, <3>8, DbAfter
  <2> QED BY <2>1, <2>2
<1>2. CASE Score
  <2>1. /\ UNCHANGED <<row, log, clock>>
        /\ \A c \in calls' : c \in calls
             \/ \E e : c = [event |-> e, stamp |-> 0]
                       /\ e.kind \in EventKinds /\ e.kind # "cancelled"
    <3>1. CASE ~Watched
      BY <3>1, <1>2 DEF Score, viewVars
    <3>2. CASE Watched
      <4>1. attempt' # attempt => EndEvent.kind \in AttemptEnds
        BY <1>2, AttemptMoves DEF Score, EndEvent
      <4>2. \A s : ScoreEvent(s).kind = "score"
        BY DEF ScoreEvent
      <4>3. PageEvent(ActiveTask).kind = "page"
        BY DEF PageEvent
      <4>4. \A c \in calls' \ calls :
              \E e : /\ c = [event |-> e, stamp |-> 0]
                     /\ \/ \E s : e = ScoreEvent(s)
                        \/ attempt' # attempt /\ e = EndEvent
                        \/ e = PageEvent(ActiveTask)
        <5>1. calls' = calls
                 \cup (IF Followed THEN {} ELSE Posted({ScoreEvent(s) : s \in evidence' \ evidence}))
                 \cup (IF Followed \/ attempt' = attempt THEN {} ELSE Posted({EndEvent}))
                 \cup (IF Followed /\ telemetry' # telemetry /\ Last(telemetry').type = "page.load"
                       THEN Posted({PageEvent(ActiveTask)}) ELSE {})
          BY <1>2, <3>2 DEF Score
        <5> QED BY <5>1 DEF Posted
      <4> QED BY <1>2, <3>2, <4>1, <4>2, <4>3, <4>4 DEF Score, EventKinds, AttemptEnds
    <3> QED BY <3>1, <3>2
  <2>2. \A c \in calls' : IsCall(c) /\ c.stamp <= clock /\ c.event.kind # "cancelled"
    BY <2>1 DEF IsCall
  <2> QED BY <2>1, <2>2, ProgressedOrder DEF IsRow, IsCall, Newest
<1>3. CASE Forward
  <2>1. /\ NextEvent.kind \in {"progress", "score"}
        /\ \/ clock' = clock + 1 /\ calls' = calls /\ log' = log \cup Inserted({NextEvent}, clock + 1)
           \/ UNCHANGED <<log, clock>> /\ calls' \in {calls, calls \cup Posted({NextEvent})}
    BY <1>3 DEF Forward, NextEvent, ProgressEvent, ScoreEvent
  <2>2. row' = row
    BY <1>3 DEF Forward
  <2>3. CASE clock' = clock + 1 /\ calls' = calls /\ log' = log \cup Inserted({NextEvent}, clock + 1)
    <3>1. \A c \in Inserted({NextEvent}, clock + 1) : IsCall(c) /\ c.stamp = clock + 1
      BY <2>1 DEF Inserted, IsCall, EventKinds
    <3>2. log' # {} => Newest(log') # {}
      <4>1. clock + 1 \in Nat /\ \A d \in log : d.stamp \in Nat /\ d.stamp < clock + 1
        BY DEF IsCall
      <4> QED BY <2>3, <4>1, NewestOfMany
    <3>3. \A c \in log' \cup calls' : IsCall(c) /\ c.stamp <= clock'
      BY <2>3, <3>1 DEF IsCall
    <3>4. IsRow(row') /\ Progressed(row, row')
      BY <2>2, ProgressedOrder
    <3>5. clock' \in Nat /\ log \subseteq log' /\ \A c \in calls' : c.event.kind # "cancelled"
      BY <2>3
    <3> QED BY <3>2, <3>3, <3>4, <3>5, DbAfter
  <2>4. CASE UNCHANGED <<log, clock>> /\ calls' \in {calls, calls \cup Posted({NextEvent})}
    BY <2>1, <2>2, <2>4, ProgressedOrder DEF IsRow, IsCall, Posted, EventKinds, Newest
  <2> QED BY <2>1, <2>3, <2>4
<1>4. CASE CancelRun
  <2>1. CASE row.status \in FinalRun
    BY <1>4, <2>1, <1>0 DEF CancelRun, dbVars
  <2>2. CASE row.status \notin FinalRun
    <3>1. /\ row' = [status |-> "cancelled", score |-> -1] /\ clock' = clock + 1 /\ calls' = calls
          /\ log' = log \cup Inserted({CancelEvent}, clock + 1)
      BY <1>4, <2>2 DEF CancelRun
    <3>2. IsRow(row') /\ Progressed(row, row')
      BY <3>1, <2>2 DEF IsRow, Progressed, RowStage, RunStatuses, FinalRun
    <3>3. \A c \in Inserted({CancelEvent}, clock + 1) : IsCall(c) /\ c.stamp = clock + 1
      BY DEF Inserted, CancelEvent, IsCall, EventKinds
    <3>4. log' # {} => Newest(log') # {}
      <4>1. clock + 1 \in Nat /\ \A d \in log : d.stamp \in Nat /\ d.stamp < clock + 1
        BY DEF IsCall
      <4> QED BY <3>1, <4>1, NewestOfMany
    <3>5. \A c \in log' \cup calls' : IsCall(c) /\ c.stamp <= clock'
      <4>1. \A c \in log \cup calls : IsCall(c) /\ c.stamp <= clock + 1
        BY DEF IsCall
      <4>2. \A c \in log' \cup calls' : c \in log \cup calls \/ c \in Inserted({CancelEvent}, clock + 1)
        BY <3>1
      <4>3. clock' = clock + 1 /\ clock + 1 <= clock + 1
        BY <3>1
      <4> QED BY <4>1, <4>2, <4>3, <3>3
    <3>6. clock' \in Nat /\ log \subseteq log' /\ \A c \in calls' : c.event.kind # "cancelled"
      BY <3>1
    <3> QED BY <3>2, <3>4, <3>5, <3>6, DbAfter
  <2> QED BY <2>1, <2>2
<1>5. ASSUME NEW call \in calls, Begin(call) PROVE DbInv' /\ DbMoves
  <2>1. [call EXCEPT !.stamp = clock + 1] = [event |-> call.event, stamp |-> clock + 1]
    BY DEF IsCall
  <2> QED BY <1>5, <2>1, ProgressedOrder DEF Begin, IsCall, IsRow, Newest
<1>6. ASSUME NEW call \in calls, Commit(call) PROVE DbInv' /\ DbMoves
  <2>1. clock' = clock /\ calls' = calls \ {call}
    BY <1>6 DEF Commit
  <2>2. log' \in {log, log \cup {call}}
    BY <1>6 DEF Commit
  <2>3. log' # {} => Newest(log') # {}
    <3>1. call.stamp \in Nat /\ \A d \in log : d.stamp \in Nat
      BY DEF IsCall
    <3> QED BY <2>2, <3>1, NewestAdded
  <2>4. IsRow(row') /\ Progressed(row, row')
    BY <1>6, ProgressedOrder DEF Commit, IsRow, Progressed, RowStage, RunStatuses, FinalRun
  <2> QED BY <2>1, <2>2, <2>3, <2>4
<1>7. ASSUME NEW call \in calls, Lose(call) PROVE DbInv' /\ DbMoves
  BY <1>7, ProgressedOrder DEF Lose, IsCall, IsRow, Newest
<1>8. CASE UNCHANGED vars
  BY <1>8, <1>0 DEF vars, viewVars, dbVars
<1> QED
  BY <1>0, <1>1, <1>2, <1>3, <1>4, <1>5, <1>6, <1>7, <1>8, Queries
  DEF Next, Apart, AskOrchestrator, OrchestratorSilent

-----------------------------------------------------------------------------
(* Steps of the stream *)

LEMMA SeenStays ==
    ASSUME DbMoves, NEW p, SeenBefore(p, Current)
    PROVE  SeenBefore(p, Current')
  BY ProgressedOrder DEF SeenBefore, Current, DbMoves

(* What a load reads next is current, and after what was read before it.   *)
LEMMA ReadsOn ==
    ASSUME NEW p, NEW read, IsRead(read), SeenBefore(read, Current), SeenBefore(p, read),
           SeenBefore(p, Current), NEW next \in Unread(read)
    PROVE  IsRead(next) /\ SeenBefore(next, Current) /\ SeenBefore(p, next)
<1>1. next \in {[run |-> {row}, events |-> read.events], [run |-> read.run, events |-> {log}]}
  BY DEF Unread, Reads, IsRead
<1> QED BY <1>1, ProgressedOrder DEF IsRead, SeenBefore, Current

LEMMA PrintOfRead ==
    ASSUME NEW read, SeenBefore(read, Current)
    PROVE  IsRead(Fingerprint(read)) /\ SeenBefore(Fingerprint(read), Current)
  BY DEF Fingerprint, IsRead, SeenBefore, Newest

LEMMA NothingSeen ==
    IsRead(Nothing) /\ \A p : SeenBefore(Nothing, p) /\ SeenBefore(p, Nothing)
  BY DEF Nothing, IsRead, SeenBefore

LEMMA StreamKept ==
    ASSUME StreamInv, DbMoves, server' = server
    PROVE  StreamInv'
<1>1. \A p : SeenBefore(p, Current) => SeenBefore(p, Current')
  BY SeenStays
<1> QED BY <1>1 DEF StreamInv

LEMMA StreamFresh ==
    ASSUME server' = NoStream \/ startRunStream
    PROVE  StreamInv'
<1>1. server' = [stage |-> server'.stage, print |-> Nothing, seen |-> Nothing,
                 read |-> Nothing, sent |-> Nothing]
      /\ server'.stage \in {"closed", "loading"}
  BY DEF startRunStream, NoStream
<1> QED BY <1>1, NothingSeen DEF StreamInv

LEMMA ServerMoves ==
    ASSUME [Next]_vars
    PROVE  \/ server' = server \/ server' = NoStream \/ startRunStream
           \/ StreamReads \/ Receive
<1> USE DEF Heard
<1>1. ASSUME ViewNext PROVE server' = server \/ server' = NoStream \/ startRunStream
           \/ StreamReads \/ Receive
  <2>1. ASSUME NEW f \in polls, PollReads(f) \/ PollDone(f) \/ PollFails(f)
        PROVE  server' = server \/ server' = NoStream \/ startRunStream
    BY <2>1 DEF PollReads, PollDone, PollFails
  <2>2. ASSUME NEW call \in calls, Begin(call) \/ Commit(call) \/ Lose(call)
        PROVE  server' = server
    BY <2>2 DEF Begin, Commit, Lose
  <2> QED BY <1>1, <2>1, <2>2 DEF ViewNext, startRun, resumeRun, reset, StreamLost, Tick, stopRun,
             CancelRun, StopAnswered, StreamExpires
<1> QED BY <1>1 DEF Next, Connect, Score, Forward, AskOrchestrator, OrchestratorSilent, Apart,
             Begin, Commit, Lose, vars, viewVars

LEMMA StreamStep ==
    ASSUME DbInv, StreamInv, [Next]_vars
    PROVE  StreamInv'
<1>0. DbMoves
  BY DbStep
<1>1. CASE server' = server
  BY <1>0, <1>1, StreamKept
<1>2. CASE server' = NoStream \/ startRunStream
  BY <1>2, StreamFresh
<1>3. CASE StreamReads
  <2>0. Current' = Current
    BY <1>3 DEF StreamReads, Current, dbVars
  <2>1. PICK read \in Unread(server.read) :
          server' = IF server.stage = "sleeping" /\ Loaded(read) THEN StreamCompares(read)
                    ELSE [server EXCEPT !.read = read]
    BY <1>3 DEF StreamReads
  <2>2. server.stage \in {"loading", "sleeping"}
    BY <1>3 DEF StreamReads, StreamInv
  <2>3. IsRead(server.read) /\ SeenBefore(server.read, Current) /\ SeenBefore(server.seen, Current)
    BY DEF StreamInv
  <2>4. IsRead(read) /\ SeenBefore(read, Current)
    BY <2>3, NothingSeen, ReadsOn
  <2>5. server.stage = "loading" => SeenBefore(server.seen, read)
    BY <2>3, ReadsOn DEF StreamInv
  <2>6. CASE server.stage = "sleeping" /\ Loaded(read)
    <3> DEFINE print == Fingerprint(read)
    <3>1. IsRead(print) /\ SeenBefore(print, Current)
      BY <2>4, PrintOfRead
    <3>2. server' = IF print = server.print THEN [server EXCEPT !.read = Nothing]
             ELSE [server EXCEPT !.stage = "loading", !.read = Nothing, !.seen = print]
      BY <2>1, <2>6 DEF StreamCompares
    <3> HIDE DEF print
    <3> QED BY <2>0, <2>6, <3>1, <3>2, NothingSeen DEF StreamInv
  <2>7. CASE ~(server.stage = "sleeping" /\ Loaded(read))
    <3>1. server' = [server EXCEPT !.read = read]
      BY <2>1, <2>7
    <3> QED BY <2>0, <2>4, <2>5, <3>1 DEF StreamInv
  <2> QED BY <2>6, <2>7
<1>4. CASE Receive
  <2>0. Current' = Current
    BY <1>4 DEF Receive, Current, dbVars
  <2>1. /\ server.stage = "loading" /\ Loaded(server.read)
        /\ server' \in {Asleep(server.read), NoStream}
    BY <1>4 DEF Receive
  <2>2. CASE server' = Asleep(server.read)
    <3>1. server' = [stage |-> "sleeping", print |-> server.seen, seen |-> Nothing,
                     read |-> Nothing, sent |-> server.read]
      BY <2>2 DEF Asleep, NoStream
    <3> QED BY <2>0, <2>1, <3>1, NothingSeen DEF StreamInv
  <2> QED BY <2>1, <2>2, StreamFresh
<1> QED BY <1>1, <1>2, <1>3, <1>4, ServerMoves

-----------------------------------------------------------------------------
(* Nothing new is slept through *)

LEMMA SleepsOnCurrent ==
    ASSUME DbInv, StreamInv
    PROVE  StreamIsCurrent
<1> SUFFICES ASSUME server.stage = "sleeping", server.print = Fingerprint(Current)
             PROVE  server.sent.run = {row} /\ Newest(EventsOf(server.sent)) = Newest(log)
  BY DEF StreamIsCurrent
<1>1. server.print.run = {row} /\ server.print.events = {Newest(log)}
  BY DEF Fingerprint, Current
<1>2. /\ Loaded(server.sent)
      /\ SeenBefore(server.print, server.sent) /\ SeenBefore(server.sent, Current)
  BY DEF StreamInv
<1>3. server.sent.run = {row}
  <2>1. \A r \in server.sent.run : Progressed(row, r) /\ Progressed(r, row)
    BY <1>1, <1>2 DEF SeenBefore, Current
  <2>2. \A r \in server.sent.run : r = row
    BY <2>1, ProgressedOrder
  <2> QED BY <1>2, <2>2 DEF Loaded
<1>4. EventsOf(server.sent) \in server.sent.events
  BY <1>2 DEF Loaded, EventsOf
<1> DEFINE L == EventsOf(server.sent)
<1>5. Newest(log) \subseteq L /\ L \subseteq log
  BY <1>1, <1>2, <1>4 DEF SeenBefore, Current
<1> HIDE DEF L
<1>6. Newest(L) = Newest(log)
  <2>1. CASE log = {}
    BY <1>5, <2>1
  <2>2. CASE log # {}
    <3>1. PICK n \in Newest(log) : TRUE
      BY <2>2 DEF DbInv
    <3>2. \A c \in log : c.stamp \in Nat
      BY DEF DbInv, IsCall
    <3>3. Newest(log) \subseteq Newest(L)
      BY <1>5 DEF Newest
    <3>4. ASSUME NEW c \in Newest(L), NEW d \in log PROVE d.stamp <= c.stamp
      <4>1. n \in L /\ n \in log /\ c \in log /\ n.stamp <= c.stamp /\ d.stamp <= n.stamp
        BY <1>5, <3>1, <3>4 DEF Newest
      <4> QED BY <3>2, <4>1
    <3>5. Newest(L) \subseteq Newest(log)
      <4>1. Newest(L) \subseteq log
        BY <1>5 DEF Newest
      <4> QED BY <3>4, <4>1 DEF Newest
    <3> QED BY <3>3, <3>5
  <2> QED BY <2>1, <2>2
<1> QED BY <1>3, <1>6 DEF L

-----------------------------------------------------------------------------
(* The page and its polls *)

IsPage(p) ==
    /\ p = [run |-> p.run, source |-> p.source, timer |-> p.timer, phase |-> p.phase,
            score |-> p.score, stored |-> p.stored]
    /\ {p.run, p.source, p.timer} \subseteq BOOLEAN
    /\ p.phase \in {"idle", "booting", "running"} \cup FinalPhase

IsPoll(f) ==
    /\ f = [kind |-> f.kind, read |-> f.read, late |-> f.late]
    /\ IsRead(f.read) /\ f.late \in BOOLEAN

(* What is being loaded was a row and a log of this run.                   *)
LoadsInv ==
    /\ \A f \in polls : IsPoll(f) /\ SeenBefore(f.read, Current)
    /\ \A f \in polls : \A r \in f.read.run : IsRow(r)
    /\ \A r \in server.read.run : IsRow(r)

(* Without a stream nothing is sent; and a page that shows the end of its  *)
(* run has neither stream nor timer, and every poll it has is overtaken.   *)
PageInv ==
    /\ IsPage(page)
    /\ ~page.source => server.stage = "closed"
    /\ page.phase \in FinalPhase => ~page.source /\ ~page.timer /\ \A f \in polls : f.late

LEMMA SnapshotShown ==
    ASSUME NEW p, IsPage(p), NEW read, Loaded(read), \A r \in read.run : IsRow(r)
    PROVE  LET q == applyRunSnapshot(p, read)
           IN  /\ IsPage(q)
               /\ RunOf(read) \in read.run
               /\ q.phase \in FinalPhase <=> RunOf(read).status \in FinalRun
               /\ q.phase \in FinalPhase => ~q.source /\ ~q.timer
               /\ q.source => p.source
               /\ q.score = deriveScore(RunOf(read), EventsOf(read))
               /\ q.phase # "idle"
<1> DEFINE r == RunOf(read)
           sc == deriveScore(r, EventsOf(read))
           active == \E c \in EventsOf(read) : c.event.kind = "score"
           phase == mapRunStatus(r.status)
           shown == Shows(p, read)
<1>1. r \in read.run
  BY DEF Loaded, RunOf
<1>2. IsRow(r)
  BY <1>1
<1>3. shown = [run |-> TRUE, source |-> p.source, timer |-> p.timer,
               phase |-> IF phase = "booting" /\ active THEN "running" ELSE phase,
               score |-> sc, stored |-> p.stored]
  <2>1. shown = [p EXCEPT !.run = TRUE,
                          !.phase = IF phase = "booting" /\ active THEN "running" ELSE phase,
                          !.score = sc]
    BY DEF Shows
  <2>2. p = [run |-> p.run, source |-> p.source, timer |-> p.timer, phase |-> p.phase,
             score |-> p.score, stored |-> p.stored]
    BY DEF IsPage
  <2> HIDE DEF shown, phase, active, sc
  <2> QED BY <2>1, <2>2
<1>4. /\ phase \in {"booting", "running"} \cup FinalPhase
      /\ phase \in FinalPhase <=> r.status \in FinalRun
  <2> HIDE DEF r
  <2> QED BY <1>2 DEF IsRow, RunStatuses, FinalRun, FinalPhase, mapRunStatus
<1>5. applyRunSnapshot(p, read) =
        IF r.status \in FinalRun THEN [shown EXCEPT !.source = FALSE, !.timer = FALSE] ELSE shown
  BY DEF applyRunSnapshot, clearRunSync
<1> DEFINE q == applyRunSnapshot(p, read)
<1>6. /\ IsPage(q)
      /\ q.phase \in FinalPhase <=> r.status \in FinalRun
      /\ q.phase \in FinalPhase => ~q.source /\ ~q.timer
      /\ q.source => p.source
      /\ q.score = sc
      /\ q.phase # "idle"
  <2> HIDE DEF r, sc, active, phase, shown, q
  <2>1. q = IF r.status \in FinalRun THEN [shown EXCEPT !.source = FALSE, !.timer = FALSE] ELSE shown
    BY <1>5 DEF q
  <2>2. {p.run, p.source, p.timer} \subseteq BOOLEAN
    BY DEF IsPage
  <2>3. CASE r.status \in FinalRun
    BY <2>1, <2>2, <2>3, <1>3, <1>4 DEF IsPage, FinalPhase
  <2>4. CASE r.status \notin FinalRun
    BY <2>1, <2>2, <2>4, <1>3, <1>4 DEF IsPage, FinalPhase
  <2> QED BY <2>3, <2>4
<1> QED BY <1>1, <1>6

LEMMA OvertakenPolls ==
    ASSUME NEW P, \A f \in P : IsPoll(f)
    PROVE  /\ \A f \in Overtaken(P) : IsPoll(f) /\ f.late /\ \E g \in P : f.read = g.read
           /\ (\A f \in P : f.late) => Overtaken(P) = P
<1>0. \A g \in P : g = [kind |-> g.kind, read |-> g.read, late |-> g.late]
  BY DEF IsPoll
<1>1. \A g \in P : [g EXCEPT !.late = TRUE] = [kind |-> g.kind, read |-> g.read, late |-> TRUE]
  <2> DEFINE yes == TRUE
  <2>1. ASSUME NEW g \in P
        PROVE  [g EXCEPT !.late = yes] = [kind |-> g.kind, read |-> g.read, late |-> yes]
    <3> HIDE DEF yes
    <3> QED BY <1>0
  <2> QED BY <2>1
<1>2. \A f \in Overtaken(P) : \E g \in P : f = [kind |-> g.kind, read |-> g.read, late |-> TRUE]
  BY <1>1 DEF Overtaken
<1>3. ASSUME NEW f \in Overtaken(P) PROVE IsPoll(f) /\ f.late /\ \E g \in P : f.read = g.read
  <2>1. PICK g \in P : f = [kind |-> g.kind, read |-> g.read, late |-> TRUE]
    BY <1>2
  <2>2. f.kind = g.kind /\ f.read = g.read /\ f.late = TRUE /\ IsRead(g.read)
    BY <2>1 DEF IsPoll
  <2> QED BY <2>1, <2>2 DEF IsPoll
<1>4. ASSUME \A f \in P : f.late PROVE Overtaken(P) = P
  <2>1. \A g \in P : [g EXCEPT !.late = TRUE] = g
    BY <1>4 DEF IsPoll
  <2> QED BY <2>1 DEF Overtaken
<1> QED BY <1>3, <1>4

(* What a load may have read, whoever reads. *)
LEMMA ReadsRows ==
    ASSUME DbInv, NEW read, IsRead(read), \A r \in read.run : IsRow(r), NEW next \in Unread(read)
    PROVE  \A r \in next.run : IsRow(r)
  BY DEF Unread, Reads, IsRead, DbInv

LEMMA FetchesGood ==
    ASSUME DbInv, NEW kind, NEW f \in Fetches(kind)
    PROVE  IsPoll(f) /\ SeenBefore(f.read, Current) /\ (\A r \in f.read.run : IsRow(r)) /\ ~f.late
<1>1. PICK read \in Unread(Nothing) : f = [kind |-> kind, read |-> read, late |-> FALSE]
  BY DEF Fetches
<1>2. IsRead(read) /\ SeenBefore(read, Current)
  BY NothingSeen, ReadsOn
<1>3. \A r \in read.run : IsRow(r)
  BY NothingSeen, ReadsRows DEF Nothing
<1> QED BY <1>1, <1>2, <1>3 DEF IsPoll

PageSteps ==
    \/ startRun \/ resumeRun \/ reset \/ Receive \/ StreamLost \/ Tick \/ StopAnswered
    \/ \E f \in polls : PollReads(f) \/ PollDone(f) \/ PollFails(f)
    \/ StreamReads \/ StreamExpires

LEMMA PageMoves ==
    ASSUME [Next]_vars
    PROVE  PageSteps \/ UNCHANGED <<page, polls, server>>
<1>1. ASSUME ViewNext PROVE PageSteps \/ UNCHANGED <<page, polls, server>>
  <2>1. ASSUME NEW call \in calls, Begin(call) \/ Commit(call) \/ Lose(call)
        PROVE  UNCHANGED <<page, polls, server>>
    BY <2>1 DEF Begin, Commit, Lose, pageVars
  <2> QED BY <1>1, <2>1 DEF ViewNext, PageSteps, stopRun, CancelRun, pageVars
<1>2. ASSUME Connect \/ Score \/ Forward \/ AskOrchestrator \/ OrchestratorSilent
      PROVE  UNCHANGED <<page, polls, server>>
  BY <1>2 DEF Connect, Score, Forward, AskOrchestrator, OrchestratorSilent, pageVars, viewVars
<1>3. ASSUME NEW call \in calls, Begin(call) \/ Commit(call) \/ Lose(call)
      PROVE  UNCHANGED <<page, polls, server>>
  BY <1>3 DEF Begin, Commit, Lose, pageVars
<1> QED BY <1>1, <1>2, <1>3 DEF Next, Apart, vars, viewVars

LEMMA PageStepsDb ==
    ASSUME PageSteps PROVE UNCHANGED dbVars
  BY DEF PageSteps, startRun, resumeRun, reset, Receive, StreamLost, Tick, StopAnswered,
         PollReads, PollDone, PollFails, StreamReads, StreamExpires

(* What is being loaded after a step of the page.                          *)
LEMMA LoadsStep ==
    ASSUME DbInv, StreamInv, LoadsInv, [Next]_vars
    PROVE  LoadsInv'
<1> DEFINE GoodPoll(f) == IsPoll(f) /\ SeenBefore(f.read, Current) /\ \A r \in f.read.run : IsRow(r)
<1>a. \A f \in polls : GoodPoll(f)
  BY DEF LoadsInv
<1>0. CASE UNCHANGED <<page, polls, server>>
  <2>1. \A p : SeenBefore(p, Current) => SeenBefore(p, Current')
    BY DbStep, SeenStays
  <2> QED BY <1>0, <2>1 DEF LoadsInv
<1>1. CASE PageSteps
  <2>0. Current' = Current
    BY <1>1, PageStepsDb DEF Current, dbVars
  <2>1. \A f \in polls' : GoodPoll(f)
    <3>1. ASSUME NEW P \in SUBSET polls, NEW f \in Overtaken(P) PROVE GoodPoll(f)
      <4>1. \A g \in P : IsPoll(g)
        BY <1>a
      <4>2. PICK g \in P : f.read = g.read
        BY <3>1, <4>1, OvertakenPolls
      <4>3. IsPoll(f)
        BY <3>1, <4>1, OvertakenPolls
      <4>4. GoodPoll(g)
        BY <1>a
      <4> QED BY <4>2, <4>3, <4>4
    <3>2. ASSUME NEW kind, NEW f \in Fetches(kind) PROVE GoodPoll(f)
      BY <3>2, FetchesGood
    <3>3. ASSUME NEW f \in polls, NEW read \in Unread(f.read) PROVE GoodPoll([f EXCEPT !.read = read])
      <4>1. GoodPoll(f)
        BY <1>a
      <4>2. IsRead(read) /\ SeenBefore(read, Current) /\ \A r \in read.run : IsRow(r)
        BY <4>1, NothingSeen, ReadsOn, ReadsRows DEF IsPoll
      <4>3. f = [kind |-> f.kind, read |-> f.read, late |-> f.late] /\ f.late \in BOOLEAN
        BY <4>1 DEF IsPoll
      <4>4. [f EXCEPT !.read = read] = [kind |-> f.kind, read |-> read, late |-> f.late]
        BY <4>3
      <4> QED BY <4>2, <4>3, <4>4 DEF IsPoll
    <3> HIDE DEF GoodPoll
    <3>4. CASE startRun \/ StreamLost \/ StreamReads \/ StreamExpires
      BY <1>a, <3>4 DEF startRun, StreamLost, StreamReads, StreamExpires, pageVars
    <3>5. CASE resumeRun \/ Tick
      BY <1>a, <3>2, <3>5 DEF resumeRun, Tick
    <3>6. CASE reset \/ Receive \/ StopAnswered
      BY <1>a, <3>1, <3>6 DEF reset, Receive, StopAnswered, pageVars
    <3>7. ASSUME NEW f \in polls, PollReads(f) PROVE \A g \in polls' : GoodPoll(g)
      BY <1>a, <3>3, <3>7 DEF PollReads
    <3>8. ASSUME NEW f \in polls, PollDone(f) PROVE \A g \in polls' : GoodPoll(g)
      <4>1. polls' = Overtaken(polls \ {f})
        BY <3>8 DEF PollDone
      <4>2. polls \ {f} \in SUBSET polls
        OBVIOUS
      <4> QED BY <4>1, <4>2, <3>1
    <3>9. ASSUME NEW f \in polls, PollFails(f) PROVE \A g \in polls' : GoodPoll(g)
      BY <1>a, <3>9 DEF PollFails
    <3> QED BY <1>1, <3>4, <3>5, <3>6, <3>7, <3>8, <3>9 DEF PageSteps
  <2>2. \A r \in server'.read.run : IsRow(r)
    <3>1. CASE server' = server
      BY <3>1 DEF LoadsInv
    <3>2. CASE server' = NoStream \/ startRunStream
      BY <3>2 DEF NoStream, startRunStream, Nothing
    <3>3. CASE StreamReads
      <4>1. PICK read \in Unread(server.read) : server'.read \in {Nothing, read}
        BY <3>3 DEF StreamReads, StreamCompares, StreamInv
      <4>2. \A r \in read.run : IsRow(r)
        BY ReadsRows DEF LoadsInv, StreamInv
      <4> QED BY <4>1, <4>2 DEF Nothing
    <3>4. CASE Receive
      BY <3>4 DEF Receive, Asleep, NoStream, Nothing
    <3> QED BY <3>1, <3>2, <3>3, <3>4, ServerMoves
  <2> QED BY <2>0, <2>1, <2>2 DEF LoadsInv
<1> QED BY <1>0, <1>1, PageMoves

(* A load that has ended is shown. *)
LEMMA PageStep ==
    ASSUME DbInv, StreamInv, LoadsInv, PageInv, [Next]_vars
    PROVE  PageInv'
<1> DEFINE Quiet == \A f \in polls : f.late
<1>0. CASE UNCHANGED <<page, polls, server>>
  BY <1>0 DEF PageInv
<1>a. IsPage(page) /\ \A f \in polls : IsPoll(f)
  BY DEF PageInv, LoadsInv
<1>b. ASSUME page.phase \in FinalPhase PROVE Overtaken(polls) = polls
  BY <1>a, <1>b, OvertakenPolls DEF PageInv
<1>c. \A f \in Overtaken(polls) : f.late
  BY <1>a, OvertakenPolls
<1>1. CASE startRun
  <2>1. page' = [page EXCEPT !.run = TRUE, !.source = TRUE, !.phase = "booting", !.stored = "run"]
        /\ page = NoPage
    BY <1>1 DEF startRun
  <2> QED BY <2>1 DEF PageInv, IsPage, FinalPhase, NoPage
<1>2. CASE resumeRun
  <2>1. page' = [page EXCEPT !.stored = "run"] /\ page = NoPage /\ server' = server
    BY <1>2 DEF resumeRun
  <2> QED BY <2>1 DEF PageInv, IsPage, FinalPhase, NoPage
<1>3. CASE reset
  <2>1. page' = [NoPage EXCEPT !.stored = "removed"] /\ server' = NoStream
    BY <1>3 DEF reset, Heard, NoPage
  <2> QED BY <2>1 DEF PageInv, IsPage, FinalPhase, NoPage, NoStream
<1>4. CASE StreamLost
  <2>1. /\ page' = [page EXCEPT !.source = FALSE, !.timer = page.phase \notin FinalPhase]
        /\ server' = NoStream /\ page.source /\ polls' = polls
    <3>1. page' = [page EXCEPT !.source = FALSE, !.timer = page.phase \notin FinalPhase]
          /\ page.source /\ Heard(page') /\ polls' = polls
      BY <1>4 DEF StreamLost
    <3>2. ~page'.source
      BY <3>1 DEF PageInv, IsPage
    <3> QED BY <3>1, <3>2 DEF Heard
  <2>2. page.phase \notin FinalPhase
    BY <2>1 DEF PageInv
  <2>3. page' = [page EXCEPT !.source = FALSE, !.timer = TRUE]
    BY <2>1, <2>2
  <2> QED BY <2>1, <2>2, <2>3 DEF PageInv, IsPage, NoStream
<1>5. CASE Tick
  <2>1. page' = page /\ server' = server /\ page.timer
    BY <1>5 DEF Tick
  <2>2. page.phase \notin FinalPhase
    BY <2>1 DEF PageInv
  <2> QED BY <2>1, <2>2 DEF PageInv
<1>6. CASE StopAnswered
  <2>1. CASE ~page.run
    BY <2>1, <1>6, <1>0 DEF StopAnswered, pageVars
  <2>2. CASE page.run
    <3>1. page' = [[page EXCEPT !.source = FALSE, !.timer = FALSE] EXCEPT !.phase = "cancelled", !.score = -1]
          /\ polls' = Overtaken(polls) /\ Heard(page')
      BY <2>2, <1>6 DEF StopAnswered, clearRunSync
    <3>2. IsPage(page') /\ ~page'.source /\ ~page'.timer
      BY <3>1, <1>a DEF IsPage, FinalPhase
    <3> QED BY <3>1, <3>2, <1>c DEF Heard, PageInv, NoStream
  <2> QED BY <2>1, <2>2
<1>7. CASE StreamReads
  <2>1. page' = page /\ polls' = polls /\ server.stage # "closed"
    BY <1>7 DEF StreamReads, pageVars
  <2> QED BY <2>1 DEF PageInv
<1>8. CASE StreamExpires
  BY <1>8 DEF StreamExpires, pageVars, PageInv, NoStream
<1>9. CASE Receive
  <2>1. page.source /\ page.phase \notin FinalPhase
    BY <1>9, <1>a DEF Receive, PageInv, IsPage
  <2>2. CASE page.run
    <3>1. page' = applyRunSnapshot(page, server.read) /\ Loaded(server.read)
      BY <1>9, <2>2 DEF Receive
    <3>2. \A r \in server.read.run : IsRow(r)
      BY DEF LoadsInv
    <3>3. IsPage(page') /\ (page'.phase \in FinalPhase => ~page'.source /\ ~page'.timer)
      BY <1>a, <3>1, <3>2, SnapshotShown
    <3> QED BY <1>9, <1>c, <3>3 DEF Receive, PageInv, NoStream
  <2>3. CASE ~page.run
    <3>1. page' = [page EXCEPT !.source = FALSE, !.timer = FALSE]
      BY <1>9, <2>3 DEF Receive, clearRunSync
    <3>2. IsPage(page') /\ ~page'.source /\ ~page'.timer
      BY <3>1, <1>a DEF IsPage
    <3> QED BY <1>9, <1>c, <3>2 DEF Receive, PageInv, NoStream
  <2> QED BY <2>2, <2>3
<1>10. ASSUME NEW f \in polls, PollReads(f) PROVE PageInv'
  <2>1. PICK read \in Unread(f.read) : polls' = (polls \ {f}) \cup {[f EXCEPT !.read = read]}
    BY <1>10 DEF PollReads
  <2>2. page' = page /\ server' = server
    BY <1>10 DEF PollReads
  <2>3. [f EXCEPT !.read = read].late = f.late
    BY <1>a DEF IsPoll
  <2> QED BY <2>1, <2>2, <2>3 DEF PageInv
<1>11. ASSUME NEW f \in polls, PollDone(f) PROVE PageInv'
  <2> DEFINE shown == applyRunSnapshot(page, f.read)
  <2>1. Loaded(f.read) /\ \A r \in f.read.run : IsRow(r)
    BY <1>11 DEF PollDone, LoadsInv
  <2>2. /\ IsPage(shown)
        /\ shown.phase \in FinalPhase <=> RunOf(f.read).status \in FinalRun
        /\ shown.phase \in FinalPhase => ~shown.source /\ ~shown.timer
        /\ shown.source => page.source
    BY <2>1, <1>a, SnapshotShown
  <2>3. \A g \in polls' : g.late
    <3>1. \A g \in polls \ {f} : IsPoll(g)
      BY <1>a
    <3> QED BY <1>11, <3>1, OvertakenPolls DEF PollDone
  <2>4. CASE f.kind = "resume" /\ RunOf(f.read).status \notin FinalRun
    <3>1. page' = [shown EXCEPT !.source = TRUE] /\ startRunStream
      BY <1>11, <2>4 DEF PollDone
    <3> HIDE DEF shown
    <3>2. IsPage(page') /\ page'.source /\ page'.phase = shown.phase
      BY <2>2, <3>1 DEF IsPage
    <3> QED BY <2>2, <2>4, <3>2 DEF PageInv
  <2>5. CASE ~(f.kind = "resume" /\ RunOf(f.read).status \notin FinalRun)
    <3>1. page' = shown /\ Heard(shown)
      BY <1>11, <2>5 DEF PollDone
    <3> HIDE DEF shown
    <3> QED BY <2>2, <2>3, <3>1 DEF PageInv, Heard, NoStream, IsPage
  <2> QED BY <2>4, <2>5
<1>12. ASSUME NEW f \in polls, PollFails(f) PROVE PageInv'
  <2>1. polls' = polls \ {f} /\ server' = server /\ page' \in {page, [page EXCEPT !.stored = "removed"]}
    BY <1>12 DEF PollFails
  <2>2. IsPage(page') /\ page'.source = page.source /\ page'.timer = page.timer /\ page'.phase = page.phase
    BY <2>1, <1>a DEF IsPage
  <2> QED BY <2>1, <2>2 DEF PageInv
<1> QED
  BY <1>0, <1>1, <1>2, <1>3, <1>4, <1>5, <1>6, <1>7, <1>8, <1>9, <1>10, <1>11, <1>12, PageMoves
  DEF PageSteps

-----------------------------------------------------------------------------
(* Back from the end *)

LEMMA GoesBack ==
    ASSUME DbInv, LoadsInv, PageInv, [Next]_vars,
           page.phase \in FinalPhase, page'.phase \in {"booting", "running"}
    PROVE  \E f \in polls : f.late /\ f \notin polls'
<1>1. IsPage(page) /\ ~page.source /\ ~page.timer /\ server.stage = "closed"
      /\ \A f \in polls : f.late /\ IsPoll(f)
  BY DEF PageInv, LoadsInv
<1>2. page' # page /\ page.phase # "idle" /\ page'.phase # page.phase
      /\ page'.phase \notin {"idle", "cancelled"}
  BY DEF FinalPhase
<1>3. ~(startRun \/ resumeRun \/ StreamLost \/ Tick \/ StreamReads \/ StreamExpires \/ Receive)
  BY <1>1, <1>2 DEF startRun, resumeRun, StreamLost, Tick, StreamReads, StreamExpires, Receive,
     NoPage, pageVars
<1>4. ~reset
  BY <1>2 DEF reset, NoPage
<1>5. ~StopAnswered
  <2>1. SUFFICES ASSUME StopAnswered, page.run PROVE FALSE
    BY <1>2 DEF StopAnswered, pageVars
  <2>2. page' = [[page EXCEPT !.source = FALSE, !.timer = FALSE] EXCEPT !.phase = "cancelled", !.score = -1]
    BY <2>1 DEF StopAnswered, clearRunSync
  <2>3. page'.phase = "cancelled"
    BY <1>1, <2>2 DEF IsPage
  <2> QED BY <1>2, <2>3
<1>6. PICK f \in polls : PollReads(f) \/ PollDone(f) \/ PollFails(f)
  BY <1>2, <1>3, <1>4, <1>5, PageMoves DEF PageSteps
<1>7. ~PollReads(f)
  BY <1>2 DEF PollReads
<1>8. f \notin polls'
  <2>1. CASE PollFails(f)
    BY <2>1 DEF PollFails
  <2>2. CASE PollDone(f)
    <3>1. \A g \in polls \ {f} : IsPoll(g) /\ g.late
      BY <1>1
    <3>2. polls' = polls \ {f}
      BY <2>2, <3>1, OvertakenPolls DEF PollDone
    <3> QED BY <3>2
  <2> QED BY <1>6, <1>7, <2>1, <2>2
<1> QED BY <1>1, <1>8

-----------------------------------------------------------------------------
(* The theorems *)

ViewInv == DbInv /\ StreamInv /\ LoadsInv /\ PageInv

LEMMA ViewInvInit ==
    ASSUME Init PROVE ViewInv
<1>1. /\ row = [status |-> "waiting_for_agent", score |-> -1] /\ log = {} /\ calls = {} /\ clock = 0
      /\ server = NoStream /\ page = NoPage /\ polls = {}
  BY DEF Init, ViewInit
<1>2. DbInv
  BY <1>1 DEF DbInv, IsRow, RunStatuses
<1>3. StreamInv
  BY <1>1, NothingSeen DEF StreamInv, NoStream
<1>4. LoadsInv
  BY <1>1 DEF LoadsInv, NoStream, Nothing
<1>5. PageInv
  BY <1>1 DEF PageInv, IsPage, NoPage, NoStream, FinalPhase
<1> QED BY <1>2, <1>3, <1>4, <1>5 DEF ViewInv

LEMMA ViewInvStep ==
    ASSUME ViewInv, [Next]_vars PROVE ViewInv'
  BY DbStep, StreamStep, LoadsStep, PageStep DEF ViewInv

(* Whatever queries interleave, what a stream last sent is not older than  *)
(* its fingerprint; what a load read was in the database; and a page that  *)
(* shows the end of its run has only overtaken polls left.                 *)
THEOREM ViewIsKept == Spec => []ViewInv
  BY ViewInvInit, ViewInvStep, PTL DEF Spec

(* A stream never sleeps on a row or a newest event it has not sent: the   *)
(* fingerprint is read before the snapshot it stands for                   *)
(* (app/api/runs/[runId]/stream/route.ts).                                 *)
THEOREM StreamMissesNothing == Spec => []StreamIsCurrent
<1>1. ViewInv => StreamIsCurrent
  BY SleepsOnCurrent DEF ViewInv
<1> QED BY <1>1, ViewIsKept, PTL

(* However many polls are under way, a page goes back from the end of its  *)
(* run to a run that goes on only by one of them that was overtaken: no    *)
(* other step of the store does it (lib/playground-store.ts).              *)
THEOREM OnlyLatePollsGoBack == Spec => OnlyOvertakenGoesBack
<1> DEFINE Back == page.phase \in FinalPhase /\ page'.phase \in {"booting", "running"} =>
                     \E f \in polls : f.late /\ f \notin polls'
<1>1. ASSUME ViewInv, [Next]_vars PROVE [Back]_viewVars
  BY <1>1, GoesBack DEF ViewInv
<1>2. Spec => [][Next]_vars
  BY PTL DEF Spec
<1>3. Spec => [][Back]_viewVars
  <2> HIDE DEF Back
  <2> QED BY <1>1, <1>2, ViewIsKept, PTL
<1> QED BY <1>3 DEF OnlyOvertakenGoesBack

-----------------------------------------------------------------------------
(* The attempt *)

(* What a step of LiveRun does to the attempt. *)
LEMMA ScoringSteps ==
    ASSUME [Next]_vars PROVE ScoringStep
  BY DEF Next, Connect, Score, Forward, AskOrchestrator, OrchestratorSilent, Apart, vars, ScoringStep

(* While the agent has not strayed, every required fault that is due has   *)
(* struck and is recovered or pending, or fell on the retry of another.    *)
THEOREM FaultsAreKept == Spec => []FaultInv
<1>1. Init => FaultInv
  BY FaultInvInit DEF Init
<1>2. FaultInv /\ [Next]_vars => FaultInv'
  BY FaultInvStep, ScoringSteps
<1> QED BY <1>1, <1>2, PTL DEF Spec

(* The sessions that are finished are the first ones of the suite, one     *)
(* each; there is an outcome when all are, and it is what their evidence,  *)
(* the telemetry and the final states amount to.                           *)
THEOREM EvidenceIsKept == Spec => []EvidenceInv
<1>1. Init => EvidenceInv
  BY EvidenceInvInit DEF Init
<1>2. EvidenceInv /\ [Next]_vars => EvidenceInv'
  BY EvidenceInvStep, ScoringSteps
<1> QED BY <1>1, <1>2, PTL DEF Spec

(* An agent that repeats a request a fault has answered never loses a      *)
(* required fault, unless its occurrence is the retry of another           *)
(* (observeDeterministicFault in deterministic-faults.ts).                 *)
THEOREM RetriesReachFaults == Spec => []FaultsInReach
  BY ReachKept, FaultsAreKept, PTL

(* An attempt passes if and only if all that is required of it was found   *)
(* right: sessions, checks, capabilities, dimensions, nodes, revisions and *)
(* recoveries; costs never decide (aggregateSuiteScore and what it calls). *)
THEOREM PassMeansWhole == Spec => []PassIsWhole
  BY WholeKept, EvidenceIsKept, PTL

(* Scores are whole shares of everything: neither weights nor rounding     *)
(* bring one out of range (weightedScore, aggregateComponents).            *)
THEOREM ScoresAreInRange == Spec => []ScoreInRange
<1>1. Init => ScoresInv
  BY ScoresInvInit DEF Init
<1>2. EvidenceInv /\ ScoresInv /\ [Next]_vars => ScoresInv'
  BY ScoresInvStep, ScoringSteps
<1>3. EvidenceInv /\ ScoresInv => ScoreInRange
  BY RangeKept
<1> QED BY <1>1, <1>2, <1>3, EvidenceIsKept, PTL DEF Spec

(* Doing better at one thing never costs anything: had one more evaluator  *)
(* passed, neither the verdict of the suite nor its score would be lower,  *)
(* whatever the weights, the graph and the coverage of it, and however the *)
(* means and shares are rounded (weightedScore, aggregateComponents,       *)
(* evaluateScenarioGraph, aggregateSuiteScore).                            *)
THEOREM BetterNeverCosts == Spec => []BetterNeverHurts
<1>1. Init => ScoresInv /\ JudgedInv
  BY ScoresInvInit, JudgedInvInit DEF Init
<1>2. EvidenceInv /\ ScoresInv /\ [Next]_vars => ScoresInv'
  BY ScoresInvStep, ScoringSteps
<1>3. JudgedInv /\ [Next]_vars => JudgedInv'
  BY JudgedInvStep, ScoringSteps
<1>4. EvidenceInv /\ ScoresInv /\ JudgedInv => BetterNeverHurts
  BY BetterKept
<1> QED BY <1>1, <1>2, <1>3, <1>4, EvidenceIsKept, PTL DEF Spec

-----------------------------------------------------------------------------
(* The score that is shown *)

(* The end of a run as its row and its callback have it: a score, but none *)
(* if it was cancelled.                                                    *)
EndsInv ==
    /\ row.status = "cancelled" => row.score = -1
    /\ row.status \in FinalRun \ {"cancelled"} => row.score # -1
    /\ \A c \in calls : c.event.kind \in AttemptEnds => c.event.score # -1
    /\ stop = "200" => row.status = "cancelled"

ShownInv == page.phase \in FinalPhase => row.status \in FinalRun /\ page.score = row.score

EndScored == attempt \in AttemptEnds => outcome.score \in 0..Unit

LEMMA EndScoredKept ==
    ASSUME EvidenceInv, ScoresInv PROVE EndScored
<1> SUFFICES ASSUME attempt \in AttemptEnds PROVE outcome.score \in 0..Unit
  BY DEF EndScored
<1>1. EvidenceInv /\ Cardinality(evidence) = Len(suite.tasks)
      /\ outcome = aggregateSuiteScore(suite, WithCosts(evidence), carried)
  BY DEF EvidenceInv, AttemptEnds
<1>2. Scored
  BY <1>1 DEF Scored
<1> QED BY <1>1, <1>2, SuiteScoreInRange DEF Costed

LEMMA EndsStep ==
    ASSUME DbInv, EndsInv, EndScored', [Next]_vars
    PROVE  EndsInv'
<1> USE DEF EndsInv
<1>0. CASE UNCHANGED <<row, calls, stop>>
  BY <1>0
<1>1. CASE Connect
  <2>1. CASE ~Watched
    BY <2>1, <1>1, <1>0 DEF Connect, viewVars
  <2>2. CASE Watched
    <3>1. /\ row.status = "waiting_for_agent" /\ row' = [row EXCEPT !.status = "agent_connected"]
          /\ calls' = calls /\ stop' = stop
      BY <1>1, <2>2 DEF Connect
    <3>2. row'.status = "agent_connected"
      BY <3>1 DEF DbInv, IsRow
    <3> QED BY <3>1, <3>2 DEF FinalRun
  <2> QED BY <2>1, <2>2
<1>2. CASE Score
  <2>1. CASE ~Watched
    BY <2>1, <1>2, <1>0 DEF Score, viewVars
  <2>2. CASE Watched
    <3>1. row' = row /\ stop' = stop
      BY <1>2, <2>2 DEF Score
    <3>2. \A c \in calls' \ calls :
             \/ c.event.kind \in {"score", "page"}
             \/ attempt' # attempt /\ c.event.score = outcome'.score
      <4>1. calls' = calls
               \cup (IF Followed THEN {} ELSE Posted({ScoreEvent(s) : s \in evidence' \ evidence}))
               \cup (IF Followed \/ attempt' = attempt THEN {} ELSE Posted({EndEvent}))
               \cup (IF Followed /\ telemetry' # telemetry /\ Last(telemetry').type = "page.load"
                     THEN Posted({PageEvent(ActiveTask)}) ELSE {})
        BY <1>2, <2>2 DEF Score
      <4> QED BY <4>1 DEF Posted, ScoreEvent, PageEvent, EndEvent
    <3>3. attempt' # attempt => outcome'.score # -1
      <4>1. attempt' # attempt => attempt' \in AttemptEnds
        BY <1>2, AttemptMoves DEF Score
      <4>2. attempt' \in AttemptEnds => outcome'.score \in 0..Unit
        BY DEF EndScored
      <4>3. -1 \notin 0..Unit
        BY DEF Unit
      <4> QED BY <4>1, <4>2, <4>3
    <3> QED BY <3>1, <3>2, <3>3 DEF AttemptEnds
  <2> QED BY <2>1, <2>2
<1>3. CASE Forward
  <2>1. row' = row /\ stop' = stop /\ calls' \in {calls, calls \cup Posted({NextEvent})}
    BY <1>3 DEF Forward
  <2>2. NextEvent.kind \in {"progress", "score"}
    BY DEF NextEvent, ProgressEvent, ScoreEvent
  <2> QED BY <2>1, <2>2 DEF Posted, AttemptEnds
<1>4. CASE AskOrchestrator \/ OrchestratorSilent
  BY <1>4 DEF AskOrchestrator, OrchestratorSilent, dbVars
<1>5. CASE CancelRun
  <2>1. calls' = calls /\ (stop' = "200" => row'.status = "cancelled")
    BY <1>5 DEF CancelRun
  <2>2. CASE row.status \in FinalRun
    BY <1>5, <2>1, <2>2 DEF CancelRun
  <2>3. CASE row.status \notin FinalRun
    <3>1. row' = [status |-> "cancelled", score |-> -1]
      BY <1>5, <2>3 DEF CancelRun
    <3> QED BY <2>1, <3>1
  <2> QED BY <2>2, <2>3
<1>6. CASE stopRun
  BY <1>6 DEF stopRun, dbVars
<1>7. CASE StopAnswered
  BY <1>7 DEF StopAnswered, dbVars
<1>8. ASSUME NEW call \in calls, Begin(call) \/ Lose(call) PROVE EndsInv'
  <2>1. row' = row /\ stop' = stop
    BY <1>8 DEF Begin, Lose
  <2>2. calls' \subseteq calls \cup {[call EXCEPT !.stamp = clock + 1]}
    BY <1>8 DEF Begin, Lose
  <2>3. [call EXCEPT !.stamp = clock + 1].event = call.event
    BY DEF DbInv, IsCall
  <2> QED BY <2>1, <2>2, <2>3
<1>9. ASSUME NEW call \in calls, Commit(call) PROVE EndsInv'
  <2>1. calls' = calls \ {call} /\ stop' = stop
    BY <1>9 DEF Commit
  <2>2. row' = row \/ /\ row' = [status |-> call.event.kind, score |-> call.event.score]
                      /\ row.status \notin FinalRun /\ call.event.kind \in AttemptEnds
    BY <1>9 DEF Commit, DbInv, IsCall, EventKinds, AttemptEnds, FinalRun
  <2> QED BY <2>1, <2>2 DEF FinalRun, AttemptEnds
<1>10. CASE PageSteps
  <2>1. UNCHANGED dbVars
    BY <1>10, PageStepsDb
  <2>2. stop' = stop \/ StopAnswered
    BY <1>10 DEF PageSteps, startRun, resumeRun, reset, Receive, StreamLost, Tick,
         PollReads, PollDone, PollFails, StreamReads, StreamExpires
  <2> QED BY <1>7, <2>1, <2>2 DEF dbVars
<1>11. CASE UNCHANGED vars
  BY <1>11, <1>0 DEF vars, viewVars
<1> QED
  BY <1>1, <1>2, <1>3, <1>4, <1>5, <1>6, <1>8, <1>9, <1>10, <1>11
  DEF Next, Apart, ViewNext, PageSteps

(* What was loaded of a run that has ended is what it ended with. *)
LEMMA SnapshotTrue ==
    ASSUME EndsInv, NEW p, IsPage(p), NEW read, Loaded(read), \A r \in read.run : IsRow(r),
           SeenBefore(read, Current), applyRunSnapshot(p, read).phase \in FinalPhase
    PROVE  row.status \in FinalRun /\ applyRunSnapshot(p, read).score = row.score
<1> DEFINE q == applyRunSnapshot(p, read)
<1>1. /\ RunOf(read) \in read.run /\ RunOf(read).status \in FinalRun
      /\ q.score = deriveScore(RunOf(read), EventsOf(read))
  BY SnapshotShown
<1>2. RunOf(read) = row
  BY <1>1, ProgressedOrder DEF SeenBefore, Current
<1>3. deriveScore(row, EventsOf(read)) = row.score
  BY <1>1, <1>2 DEF deriveScore, EndsInv
<1> QED BY <1>1, <1>2, <1>3

LEMMA ShownStep ==
    ASSUME ViewInv, EndsInv, ShownInv, [Next]_vars
    PROVE  ShownInv'
<1>0. CASE UNCHANGED <<page, polls, server>>
  <2>1. page.phase \in FinalPhase => row' = row
    BY DbStep, ProgressedOrder DEF ViewInv, ShownInv, DbMoves
  <2> QED BY <1>0, <2>1 DEF ShownInv
<1>a. row' = row \/ UNCHANGED <<page, polls, server>>
  BY PageMoves, PageStepsDb DEF dbVars
<1>b. IsPage(page)
  BY DEF ViewInv, PageInv
<1>1. CASE startRun \/ resumeRun \/ reset
  <2>1. CASE startRun
    <3>1. page' = [page EXCEPT !.run = TRUE, !.source = TRUE, !.phase = "booting", !.stored = "run"]
      BY <2>1 DEF startRun
    <3>2. page'.phase = "booting"
      BY <1>b, <3>1 DEF IsPage
    <3> QED BY <3>2 DEF ShownInv, FinalPhase
  <2>2. CASE resumeRun \/ reset
    <3>1. page'.phase = "idle"
      BY <2>2 DEF resumeRun, reset, NoPage
    <3> QED BY <3>1 DEF ShownInv, FinalPhase
  <2> QED BY <1>1, <2>1, <2>2
<1>2. CASE StreamLost \/ Tick \/ StreamReads \/ StreamExpires
  <2>1. row' = row /\ page'.phase = page.phase /\ page'.score = page.score
    BY <1>2, <1>b DEF StreamLost, Tick, StreamReads, StreamExpires, pageVars, dbVars, IsPage
  <2> QED BY <2>1 DEF ShownInv
<1>3. CASE StopAnswered
  <2>1. CASE ~page.run
    BY <2>1, <1>3, <1>0 DEF StopAnswered, pageVars
  <2>2. CASE page.run
    <3>1. row' = row /\ stop = "200"
          /\ page' = [[page EXCEPT !.source = FALSE, !.timer = FALSE] EXCEPT !.phase = "cancelled", !.score = -1]
      BY <2>2, <1>3 DEF StopAnswered, clearRunSync, dbVars
    <3>2. page'.score = -1
      BY <3>1, <1>b DEF IsPage
    <3> QED BY <3>1, <3>2 DEF ShownInv, EndsInv, FinalRun
  <2> QED BY <2>1, <2>2
<1>4. CASE Receive
  <2>0. row' = row
    BY <1>4 DEF Receive, dbVars
  <2>1. CASE page.run
    <3>1. page' = applyRunSnapshot(page, server.read) /\ Loaded(server.read)
      BY <1>4, <2>1 DEF Receive
    <3>2. SeenBefore(server.read, Current) /\ \A r \in server.read.run : IsRow(r)
      BY DEF ViewInv, StreamInv, LoadsInv
    <3> QED BY <1>b, <2>0, <3>1, <3>2, SnapshotTrue DEF ShownInv
  <2>2. CASE ~page.run
    <3>1. page' = [page EXCEPT !.source = FALSE, !.timer = FALSE]
      BY <1>4, <2>2 DEF Receive, clearRunSync
    <3>2. page'.phase = page.phase /\ page'.score = page.score
      BY <1>b, <3>1 DEF IsPage
    <3> QED BY <2>0, <3>2 DEF ShownInv
  <2> QED BY <2>1, <2>2
<1>5. ASSUME NEW f \in polls, PollReads(f) \/ PollFails(f) PROVE ShownInv'
  <2>1. row' = row /\ page'.phase = page.phase /\ page'.score = page.score
    BY <1>5, <1>b DEF PollReads, PollFails, dbVars, IsPage
  <2> QED BY <2>1 DEF ShownInv
<1>6. ASSUME NEW f \in polls, PollDone(f) PROVE ShownInv'
  <2> DEFINE shown == applyRunSnapshot(page, f.read)
  <2>0. row' = row /\ Loaded(f.read)
    BY <1>6 DEF PollDone, dbVars
  <2>1. SeenBefore(f.read, Current) /\ \A r \in f.read.run : IsRow(r)
    BY DEF ViewInv, LoadsInv
  <2>2. IsPage(shown) /\ (shown.phase \in FinalPhase => row.status \in FinalRun /\ shown.score = row.score)
    BY <1>b, <2>0, <2>1, SnapshotTrue, SnapshotShown
  <2>3. page' \in {shown, [shown EXCEPT !.source = TRUE]}
    BY <1>6 DEF PollDone
  <2> HIDE DEF shown
  <2>4. page'.phase = shown.phase /\ page'.score = shown.score
    BY <2>2, <2>3 DEF IsPage
  <2> QED BY <2>0, <2>2, <2>4 DEF ShownInv
<1> QED BY <1>0, <1>1, <1>2, <1>3, <1>4, <1>5, <1>6, PageMoves DEF PageSteps

-----------------------------------------------------------------------------
(* The score of the events *)

(* Nothing weighs anything only if all of it weighs nothing. *)
LEMMA SumIsZero ==
    ASSUME NEW E, IsFiniteSet(E), NEW w, \A s \in E : w[s] \in Nat
    PROVE  SumOn(w, E) \in Nat /\ (SumOn(w, E) = 0 <=> \A s \in E : w[s] = 0)
<1>1. SumOn(w, E) \in Nat
  BY SumNat
<1>2. ASSUME \A s \in E : w[s] = 0 PROVE SumOn(w, E) = 0
  <2>1. SumOn(w, E) <= 0 * SumOn(w, E)
    <3>1. \A s \in E : w[s] \in Int /\ w[s] <= 0 * w[s]
      BY <1>2
    <3>2. 0 \in Int
      OBVIOUS
    <3> QED BY <3>1, <3>2, SumBound
  <2> QED BY <1>1, <2>1
<1>3. ASSUME NEW s \in E, w[s] # 0 PROVE SumOn(w, E) # 0
  <2>1. SumOn(w, E) = w[s] + SumOn(w, E \ {s})
    BY SumOfAny
  <2>2. SumOn(w, E \ {s}) \in Nat
    BY FS_RemoveElement, SumNat
  <2>3. w[s] \in Nat /\ w[s] # 0
    BY <1>3
  <2> QED BY <2>1, <2>2, <2>3
<1> QED BY <1>1, <1>2, <1>3

(* The sessions as parts of the suite. *)
LEMMA SessionsWeigh ==
    ASSUME Scored, ScoresInv,
           NEW a, a = [s \in evidence |-> s.score],
           NEW w, w = [s \in evidence |-> suite.weight[s.task]],
           \A s \in evidence : a[s] \in Int /\ w[s] \in Nat
    PROVE  /\ TotalWeight(SessionParts(suite, Costed)) = SumOn(w, evidence)
           /\ Summed(SessionParts(suite, Costed)) = Products(a, w, evidence)
<1> DEFINE E == evidence
           Need(s) == s.task \in suite.required
           b == [s \in E |-> Part(<<"session", s.task>>, s.status, s.score,
                                   suite.weight[s.task], Need(s))]
           P == SessionParts(suite, Costed)
<1>0. IsFiniteSet(E) /\ \A s \in E : s.task \in TasksOf(suite) /\ SessionOf(s.task) = s
  BY OneOfEach DEF Scored, EvidenceInv
<1>1. P = {b[s] : s \in E}
  <2>1. P = {Part(<<"session", t.task>>, t.status, t.score, suite.weight[t.task], Need(t)) : t \in Costed}
    BY DEF SessionParts
  <2>2. \A s \in E : \E t \in Costed : SameSession(s, t)
    BY <1>0, OneOfEach
  <2>3. \A t \in Costed : \E s \in E : SameSession(s, t)
    BY <1>0, OneOfEach
  <2>4. \A s, t : SameSession(s, t) => (Need(s) <=> Need(t))
    BY DEF SameSession
  <2>5. \A s \in E : \A t \in Costed : SameSession(s, t) =>
          Part(<<"session", t.task>>, t.status, t.score, suite.weight[t.task], Need(t)) = b[s]
    BY <2>4 DEF SameSession, Part
  <2> HIDE DEF b, Need, P
  <2> QED BY <2>1, <2>2, <2>3, <2>5
<1>2. \A s \in E : b[s].score = a[s] /\ b[s].weight = w[s] /\ b[s].id = <<"session", s.task>>
  <2> HIDE DEF Need
  <2> QED BY DEF Part
<1> HIDE DEF b, P
<1>3. \A s, t \in E : b[s] = b[t] => s = t
  BY <1>0, <1>2
<1>4. IsFiniteSet(E) /\ (\A s \in E : a[s] \in Int /\ w[s] \in Int)
      /\ \A s \in E : b[s].score = a[s] /\ b[s].weight = w[s]
  BY <1>0, <1>2
<1> HIDE DEF E
<1>5. TotalWeight(P) = SumOn(w, E) /\ Summed(P) = Products(a, w, E)
  <2>1. OneEach(P, b, a, w, E)
    BY <1>1, <1>3, <1>4 DEF OneEach
  <2> QED BY <2>1, SumsRenamed
<1> QED BY <1>5 DEF P, E

LEMMA EventsScoreTheSame ==
    ASSUME Scored, ScoresInv, suite.checks = {}, suite.matrix = NoMatrix
    PROVE  deriveHostedScoring(AllEvents) =
             IF \E t \in TasksOf(suite) : suite.weight[t] > 0
             THEN aggregateSuiteScore(suite, Costed, carried).score ELSE -1
<1> DEFINE E == evidence
           a == [s \in E |-> s.score]
           w == [s \in E |-> suite.weight[s.task]]
           d == SumOn(w, E)
           n == Products(a, w, E)
<1>0. /\ suite \in Suites /\ IsFiniteSet(E)
      /\ \A s \in E : s.task \in TasksOf(suite) /\ SessionOf(s.task) = s
      /\ \A t \in TasksOf(suite) : SessionOf(t) \in E /\ SessionOf(t).task = t
  BY OneOfEach DEF Scored, EvidenceInv
<1>1. \A s \in E : a[s] \in Int /\ w[s] \in Nat
  <2>1. \A s \in E : s.score \in Int
    BY DEF ScoresInv, Strict, Unit
  <2> QED BY <1>0, <2>1, ListsOfSuites
<1>2. d \in Nat /\ (d = 0 <=> ~\E t \in TasksOf(suite) : suite.weight[t] > 0)
  <2>1. d \in Nat /\ (d = 0 <=> \A s \in E : w[s] = 0)
    <3> HIDE DEF w
    <3> QED BY <1>0, <1>1, SumIsZero
  <2>2. \A s \in E : w[s] = suite.weight[s.task]
    OBVIOUS
  <2> HIDE DEF w, d
  <2> QED BY <1>0, <1>1, <2>1, <2>2, ListsOfSuites
<1>3. aggregateSuiteScore(suite, Costed, carried).score = IF d = 0 THEN 0 ELSE Rounded(n, d)
  <2> DEFINE P == SessionParts(suite, Costed)
  <2>1. evaluateSuiteConsistency(suite.checks, carried) = {}
    BY DEF evaluateSuiteConsistency
  <2>2. aggregateSuiteScore(suite, Costed, carried).score = WeightedScore(P)
    <3>1. P \cup evaluateSuiteConsistency(suite.checks, carried) = P
      BY <2>1
    <3> HIDE DEF P
    <3> QED BY <3>1 DEF aggregateSuiteScore, P
  <2> HIDE DEF a, w, P
  <2>3. TotalWeight(P) = d /\ Summed(P) = n
    BY <1>1, SessionsWeigh DEF P, a, w
  <2> HIDE DEF d, n
  <2> QED BY <2>2, <2>3 DEF WeightedScore, Summed
<1>4. deriveHostedScoring(AllEvents) = IF d = 0 THEN -1 ELSE Rounded(n, d)
  <2> DEFINE b == [s \in E |-> ScoreEvent(s)]
             R == {b[s] : s \in E}
             Known(kind) == {c \in AllEvents : c.event.kind = kind}
             Results == {c.event : c \in {c \in Known("score") :
                           \A e \in Known("score") :
                             e.event.session = c.event.session => e.stamp <= c.stamp}}
             Waiting == {c.event : c \in {c \in Known("created") :
                           \A r \in Results : r.session # c.event.session}}
  <2>1. \A s \in E : /\ b[s].score = a[s] /\ b[s].weight = w[s]
                     /\ b[s].session = s.task /\ b[s].kind = "score"
    BY DEF ScoreEvent
  <2>2. Known("score") = {[event |-> b[s], stamp |-> 2] : s \in E}
    BY <2>1 DEF AllEvents, Inserted, CreatedEvent
  <2>3. Known("created") = {[event |-> CreatedEvent(t), stamp |-> 1] : t \in TasksOf(suite)}
    BY <2>1 DEF AllEvents, Inserted, CreatedEvent
  <2> HIDE DEF Known, b, a, w
  <2>4. Results = R
    <3> DEFINE c2(s) == [event |-> b[s], stamp |-> 2]
    <3>0. (\A c \in Known("score") : \E s \in E : c = c2(s)) /\ \A s \in E : c2(s) \in Known("score")
      BY <2>2
    <3>1. \A c \in Known("score") : c.stamp = 2 /\ \E s \in E : c.event = b[s]
      BY <3>0
    <3>2. \A s \in E : \E c \in Known("score") : c.event = b[s]
      <4>1. \A s : c2(s).event = b[s]
        OBVIOUS
      <4> HIDE DEF c2
      <4> QED BY <3>0, <4>1
    <3>3. {c \in Known("score") : \A e \in Known("score") :
             e.event.session = c.event.session => e.stamp <= c.stamp} = Known("score")
      BY <3>1
    <3> QED BY <3>1, <3>2, <3>3
  <2>5. Waiting = {}
    <3>1. \A t \in TasksOf(suite) : \E r \in R : r.session = CreatedEvent(t).session
      BY <1>0, <2>1 DEF CreatedEvent
    <3> QED BY <2>3, <2>4, <3>1
  <2>6. \A s, t \in E : b[s] = b[t] => s = t
    BY <1>0, <2>1
  <2>7. TotalWeight(R) = d /\ Summed(R) = n
    <3>1. \A s \in E : a[s] \in Int /\ w[s] \in Int
      BY <1>1
    <3>2. OneEach(R, b, a, w, E)
      BY <1>0, <2>1, <2>6, <3>1 DEF OneEach
    <3> HIDE DEF R, E
    <3> QED BY <3>2, SumsRenamed
  <2>8. deriveHostedScoring(AllEvents) =
          IF TotalWeight(Results \cup Waiting) = 0 THEN -1
          ELSE Rounded(Summed(Results), TotalWeight(Results \cup Waiting))
    BY DEF deriveHostedScoring, Known, Summed
  <2>9. Results \cup Waiting = R
    BY <2>4, <2>5
  <2> HIDE DEF Results, Waiting, R, d, n
  <2> QED BY <2>4, <2>7, <2>8, <2>9
<1> HIDE DEF d, n
<1> QED BY <1>2, <1>3, <1>4

LEMMA ShownIsTrue ==
    ASSUME EvidenceInv, ScoresInv, EndsInv, ShownInv
    PROVE  ShownScoreIsTrue
<1>1. ASSUME outcome # NoOutcome PROVE Scored /\ outcome = aggregateSuiteScore(suite, Costed, carried)
  BY <1>1 DEF EvidenceInv, Scored, Costed
<1> QED BY <1>1, EventsScoreTheSame DEF ShownScoreIsTrue, ShownInv, Ended

(* Once a page shows the end of its run it shows the score that was        *)
(* stored, however its loads interleave with the end and the cancellation; *)
(* and where sessions are all there is, the score of their events is the   *)
(* same, unless they weigh nothing (deriveScore, deriveHostedScoring).     *)
THEOREM ScoresAreShownTrue == Spec => []ShownScoreIsTrue
<1>1. Init => ScoresInv /\ EndsInv /\ ShownInv
  <2>1. Init => ScoresInv
    BY ScoresInvInit DEF Init
  <2>2. Init => EndsInv /\ ShownInv
    BY DEF Init, ViewInit, EndsInv, ShownInv, NoPage, FinalPhase, FinalRun
  <2> QED BY <2>1, <2>2
<1>2. EvidenceInv /\ ScoresInv /\ [Next]_vars => ScoresInv'
  BY ScoresInvStep, ScoringSteps
<1>3. EvidenceInv /\ ScoresInv => EndScored
  BY EndScoredKept
<1>4. ViewInv /\ EndsInv /\ EndScored' /\ [Next]_vars => EndsInv'
  BY EndsStep DEF ViewInv
<1>5. ViewInv /\ EndsInv /\ ShownInv /\ [Next]_vars => ShownInv'
  BY ShownStep
<1>6. EvidenceInv /\ ScoresInv /\ EndsInv /\ ShownInv => ShownScoreIsTrue
  BY ShownIsTrue
<1> QED BY <1>1, <1>2, <1>3, <1>4, <1>5, <1>6, EvidenceIsKept, ViewIsKept, PTL DEF Spec

-----------------------------------------------------------------------------
(* What the page of a run finds of its sessions *)

(* The sessions up to the active one, and those that are finished. *)
Begun(session) ==
    \E i \in 1..(Cardinality(evidence) + 1) : i <= Len(suite.tasks) /\ session = suite.tasks[i]
Done(session) == \E i \in 1..Cardinality(evidence) : session = suite.tasks[i]

ScoreWaits == sending \in {<<"score">>, <<"progress", "score">>}

(* What events there are, and what they may tell. *)
EventsInv ==
    /\ stop = "none"
    /\ attempt = "none" => log = {} /\ calls = {} /\ sending = <<>> /\ missed = {}
    /\ sending \in {<<>>, <<"progress">>, <<"score">>, <<"progress", "score">>}
    /\ ScoreWaits => Cardinality(evidence) > 0
    /\ \A c \in log \cup calls :
         /\ c.event.kind = "created" => c.event.session \in TasksOf(suite)
         /\ c.event.kind = "progress" => c.event.session = "none" \/ Begun(c.event.session)
         /\ c.event.kind = "score" => Done(c.event.session)
    /\ \A c \in calls : c.event.kind = "page" \/ c.event.kind \in {"progress", "score"} \cap missed

(* The newest progress is that of now, unless one was missed or is yet to  *)
(* be sent.                                                                *)
ProgressInv ==
    attempt # "none" /\ "progress" \notin missed /\ sending \in {<<>>, <<"score">>} =>
      \E c \in log : /\ c.event.kind = "progress" /\ c.event.session = ReadModel
                     /\ \A d \in log : d.event.kind = "progress" => d = c \/ d.stamp < c.stamp

(* What was finished is scored, and what there is was announced.           *)
KnownInv ==
    /\ "score" \notin missed => \A i \in 1..Cardinality(evidence) :
         \/ i = Cardinality(evidence) /\ ScoreWaits
         \/ \E c \in log : c.event.kind = "score" /\ c.event.session = suite.tasks[i]
    /\ attempt # "none" /\ "created" \notin missed => \A t \in TasksOf(suite) :
         \E c \in log : c.event.kind = "created" /\ c.event.session = t

(* If there is progress, there is a latest one. *)
LatestInv == OfKind(log, "progress") # {} => Newest(OfKind(log, "progress")) # {}

FollowInv == Followed => EventsInv /\ ProgressInv /\ KnownInv /\ LatestInv

(* What a step changes of what is told. *)
Announces ==
    /\ attempt = "none" /\ attempt' = "running" /\ evidence = {} /\ evidence' = {}
    /\ calls' = {} /\ sending' = <<"progress">>
    /\ \E known \in SUBSET TasksOf(suite) :
         /\ log' = Inserted({CreatedEvent(task) : task \in known}, clock + 1)
         /\ missed' = IF known # TasksOf(suite) THEN {"created"} ELSE {}

Same == evidence' = evidence /\ attempt' = attempt

NothingTold ==
    /\ Same /\ UNCHANGED <<log, sending, missed>>
    /\ \A c \in calls' : c.event.kind = "page" \/ \E d \in calls : c.event = d.event
    /\ attempt = "none" => calls' = {}

CallCommitted ==
    /\ Same /\ UNCHANGED <<sending, missed>> /\ calls' \subseteq calls
    /\ log' = log \/ \E call \in calls : log' = log \cup {call}

SessionDone ==
    /\ attempt = "running" /\ attempt' # "none"
    /\ Cardinality(evidence') = Cardinality(evidence) + 1
    /\ sending = <<>> /\ sending' = <<"progress", "score">>
    /\ UNCHANGED <<log, missed>>
    /\ \A c \in calls' : c.event.kind = "page" \/ c \in calls

EventSent ==
    /\ Same /\ sending # <<>> /\ sending' = Tail(sending) /\ UNCHANGED <<missed, calls>>
    /\ log' = log \cup Inserted({NextEvent}, clock + 1)

EventMissed ==
    /\ Same /\ sending # <<>> /\ sending' = Tail(sending) /\ log' = log
    /\ missed' = missed \cup {Head(sending)}
    /\ \A c \in calls' : c.event = NextEvent \/ c \in calls

LEMMA ScoringMoves ==
    ASSUME EvidenceInv, ScoringNext
    PROVE  /\ attempt = "running" /\ attempt' # "none"
           /\ \/ Same
              \/ evidence' # evidence /\ Cardinality(evidence') = Cardinality(evidence) + 1
<1>1. ASSUME NEW findings, NEW values, attempt = "running", FinishSession(findings, values)
      PROVE  evidence' # evidence /\ Cardinality(evidence') = Cardinality(evidence) + 1
  <2>1. Cardinality(evidence') = Cardinality(evidence) + 1
    BY <1>1, SessionFinished
  <2>2. Cardinality(evidence) \in Nat
    BY FS_CardinalityType DEF EvidenceInv
  <2> QED BY <2>1, <2>2
<1> QED BY <1>1, AttemptMoves DEF ScoringNext, Request, Edit, Same, AttemptEnds

LEMMA SuiteStays ==
    ASSUME [Next]_vars PROVE suite' = suite
  BY ScoringSteps DEF ScoringStep, CreateAttempt, ScoringNext, Request, Edit, FinishSession,
     CancelAttempt, scoringVars

LEMMA FollowSteps ==
    ASSUME DbInv, EvidenceInv, Followed, EventsInv, [Next]_vars
    PROVE  /\ stop' = "none"
           /\ \/ Announces \/ NothingTold \/ CallCommitted \/ SessionDone \/ EventSent \/ EventMissed
<1>0. Watched /\ stop = "none"
  BY DEF Followed, Watched, EventsInv
<1>1. CASE Connect
  <2>1. /\ CreateAttempt /\ stop' = stop /\ calls' = calls /\ sending' = <<"progress">>
        /\ \E known \in SUBSET TasksOf(suite) :
             /\ log' = log \cup Inserted({CreatedEvent(task) : task \in known}, clock + 1)
             /\ missed' = IF known # TasksOf(suite) THEN {"created"} ELSE {}
    BY <1>0, <1>1 DEF Connect
  <2>2. attempt = "none" /\ attempt' = "running" /\ evidence = {} /\ evidence' = {}
        /\ log = {} /\ calls = {}
    BY <2>1 DEF CreateAttempt, EvidenceInv, EventsInv
  <2> QED BY <1>0, <2>1, <2>2 DEF Announces
<1>2. CASE Score
  <2>1. /\ ScoringNext /\ stop' = stop /\ UNCHANGED <<log, missed>>
        /\ \A c \in calls' : c.event.kind = "page" \/ c \in calls
        /\ IF evidence' # evidence THEN sending = <<>> /\ sending' = <<"progress", "score">>
           ELSE sending' = sending
    <3>1. calls' = calls
             \cup (IF Followed THEN {} ELSE Posted({ScoreEvent(s) : s \in evidence' \ evidence}))
             \cup (IF Followed \/ attempt' = attempt THEN {} ELSE Posted({EndEvent}))
             \cup (IF Followed /\ telemetry' # telemetry /\ Last(telemetry').type = "page.load"
                   THEN Posted({PageEvent(ActiveTask)}) ELSE {})
      BY <1>0, <1>2 DEF Score
    <3>2. \A c \in calls' : c.event.kind = "page" \/ c \in calls
      BY <3>1 DEF Posted, PageEvent
    <3> QED BY <1>0, <1>2, <3>2 DEF Score
  <2>2. CASE Same
    BY <1>0, <2>1, <2>2, ScoringMoves DEF NothingTold, Same
  <2>3. CASE evidence' # evidence /\ Cardinality(evidence') = Cardinality(evidence) + 1
    BY <1>0, <2>1, <2>3, ScoringMoves DEF SessionDone
  <2> QED BY <2>1, <2>2, <2>3, ScoringMoves
<1>3. CASE Forward
  <2>1. sending # <<>> /\ sending' = Tail(sending) /\ Same /\ stop' = stop
    BY <1>3 DEF Forward, scoringVars, Same
  <2>2. \/ missed' = missed /\ calls' = calls /\ log' = log \cup Inserted({NextEvent}, clock + 1)
        \/ /\ log' = log /\ missed' = missed \cup {Head(sending)}
           /\ calls' \in {calls, calls \cup Posted({NextEvent})}
    BY <1>3 DEF Forward
  <2>3. \A c \in Posted({NextEvent}) : c.event = NextEvent
    BY DEF Posted
  <2> QED BY <1>0, <2>1, <2>2, <2>3 DEF EventSent, EventMissed
<1>4. ASSUME NEW call \in calls, Begin(call) \/ Lose(call), UNCHANGED <<scoringVars, sending, missed>>
      PROVE  stop' = "none" /\ NothingTold
  <2>1. stop' = stop /\ log' = log /\ calls' \subseteq calls \cup {[call EXCEPT !.stamp = clock + 1]}
    BY <1>4 DEF Begin, Lose
  <2>2. [call EXCEPT !.stamp = clock + 1].event = call.event
    BY DEF DbInv, IsCall
  <2>3. attempt # "none"
    BY <1>4 DEF EventsInv
  <2> QED BY <1>0, <1>4, <2>1, <2>2, <2>3 DEF NothingTold, Same, scoringVars
<1>5. ASSUME NEW call \in calls, Commit(call), UNCHANGED <<scoringVars, sending, missed>>
      PROVE  stop' = "none" /\ (NothingTold \/ CallCommitted)
  <2>1. stop' = stop /\ calls' = calls \ {call} /\ log' \in {log, log \cup {call}}
    BY <1>5 DEF Commit
  <2> QED BY <1>0, <1>5, <2>1 DEF CallCommitted, Same, scoringVars
<1>6. CASE UNCHANGED vars
  BY <1>0, <1>6 DEF vars, viewVars, scoringVars, NothingTold, Same, EventsInv
<1> QED
  BY <1>0, <1>1, <1>2, <1>3, <1>4, <1>5, <1>6
  DEF Next, Apart, AskOrchestrator, OrchestratorSilent, Followed

LEMMA Places ==
    ASSUME EvidenceInv
    PROVE  /\ Cardinality(evidence) \in Nat /\ Len(suite.tasks) \in Nat
           /\ Cardinality(evidence) <= Len(suite.tasks)
           /\ attempt = "running" => Cardinality(evidence) < Len(suite.tasks)
           /\ \A i, j \in 1..Len(suite.tasks) : suite.tasks[i] = suite.tasks[j] => i = j
           /\ TasksOf(suite) = {suite.tasks[i] : i \in 1..Len(suite.tasks)}
           /\ "none" \notin TasksOf(suite)
<1>1. suite \in Suites /\ Cardinality(evidence) \in Nat
  BY FS_CardinalityType DEF EvidenceInv
<1>2. "none" \notin TasksOf(suite)
  BY <1>1, SuitesAssumption DEF ValidSuite
<1> QED BY <1>1, <1>2, TasksDistinct DEF EvidenceInv

(* The events that are sent tell what is so at the moment. *)
LEMMA NextEventTells ==
    ASSUME EvidenceInv, EventsInv, sending # <<>>
    PROVE  /\ NextEvent.kind = Head(sending) /\ Head(sending) \in {"progress", "score"}
           /\ Head(sending) = "progress" =>
                NextEvent.session = ReadModel /\ (ReadModel = "none" \/ Begun(ReadModel))
           /\ Head(sending) = "score" =>
                NextEvent.session = suite.tasks[Cardinality(evidence)] /\ Done(NextEvent.session)
<1>1. /\ Head(sending) \in {"progress", "score"}
      /\ Head(sending) = "score" => Cardinality(evidence) > 0
  BY DEF EventsInv, ScoreWaits
<1>2. CASE Head(sending) = "progress"
  <2>1. NextEvent.kind = "progress" /\ NextEvent.session = ReadModel
    BY <1>2 DEF NextEvent, ProgressEvent
  <2>2. ReadModel = "none" \/ Begun(ReadModel)
    BY Places DEF ReadModel, ActiveTask, Begun
  <2> QED BY <1>2, <2>1, <2>2
<1>3. CASE Head(sending) = "score"
  <2> DEFINE n == Cardinality(evidence)
  <2>1. n \in 1..n
    BY <1>1, <1>3, Places
  <2>2. \E s \in evidence : s.task = suite.tasks[n]
    BY <2>1 DEF EvidenceInv, FirstFinished
  <2>3. SessionOf(suite.tasks[n]).task = suite.tasks[n]
    BY <2>2 DEF SessionOf
  <2>4. NextEvent.kind = "score" /\ NextEvent.session = suite.tasks[n]
    BY <1>3, <2>3 DEF NextEvent, ScoreEvent, Finished
  <2> QED BY <1>3, <2>1, <2>4 DEF Done
<1> QED BY <1>1, <1>2, <1>3

LEMMA BegunStays ==
    ASSUME EvidenceInv, suite' = suite, Same \/ SessionDone
    PROVE  \A x : (Begun(x) => Begun(x)') /\ (Done(x) => Done(x)')
<1> DEFINE n == Cardinality(evidence)
           m == Cardinality(evidence')
<1>1. n \in Nat /\ m \in {n, n + 1}
  BY Places DEF Same, SessionDone
<1>2. \A x : /\ Begun(x) <=> \E i \in 1..(n + 1) : i <= Len(suite.tasks) /\ x = suite.tasks[i]
             /\ Begun(x)' <=> \E i \in 1..(m + 1) : i <= Len(suite.tasks) /\ x = suite.tasks[i]
             /\ Done(x) <=> \E i \in 1..n : x = suite.tasks[i]
             /\ Done(x)' <=> \E i \in 1..m : x = suite.tasks[i]
  BY DEF Begun, Done
<1> HIDE DEF n, m
<1>3. \A i : (i \in 1..n => i \in 1..m) /\ (i \in 1..(n + 1) => i \in 1..(m + 1))
  BY <1>1
<1> QED BY <1>2, <1>3

(* What an event may tell. *)
Tells(e) ==
    /\ e.kind = "created" => e.session \in TasksOf(suite)
    /\ e.kind = "progress" => e.session = "none" \/ Begun(e.session)
    /\ e.kind = "score" => Done(e.session)

LEMMA EventsStep ==
    ASSUME DbInv, EvidenceInv, Followed, EventsInv, [Next]_vars
    PROVE  EventsInv'
<1>0. suite' = suite /\ stop' = "none"
  BY SuiteStays, FollowSteps
<1>a. \A c \in log \cup calls : Tells(c.event)
  BY DEF EventsInv, Tells
<1>b. ASSUME Same \/ SessionDone PROVE \A e : Tells(e) => Tells(e)'
  BY <1>0, <1>b, BegunStays DEF Tells
<1>c. ASSUME NEW e, e.kind = "page" PROVE Tells(e)'
  BY <1>c DEF Tells
<1>1. CASE Announces
  <2>1. PICK known \in SUBSET TasksOf(suite) :
           /\ log' = Inserted({CreatedEvent(task) : task \in known}, clock + 1)
           /\ missed' = IF known # TasksOf(suite) THEN {"created"} ELSE {}
    BY <1>1 DEF Announces
  <2>2. \A c \in log' : c.event.kind = "created" /\ c.event.session \in TasksOf(suite)
    BY <2>1 DEF Inserted, CreatedEvent
  <2> QED BY <1>0, <1>1, <2>2 DEF Announces, EventsInv, ScoreWaits
<1>2. CASE NothingTold
  <2>1. \A c \in calls' : Tells(c.event)'
    BY <1>2, <1>a, <1>b, <1>c DEF NothingTold
  <2>2. \A c \in log' : Tells(c.event)'
    BY <1>2, <1>a, <1>b DEF NothingTold
  <2>3. /\ attempt' = attempt /\ evidence' = evidence /\ log' = log /\ sending' = sending
        /\ missed' = missed /\ (attempt = "none" => calls' = {})
        /\ \A c \in calls' : c.event.kind = "page" \/ \E d \in calls : c.event = d.event
    BY <1>2 DEF NothingTold, Same
  <2> HIDE DEF NothingTold
  <2>4. \A c \in calls' : c.event.kind = "page" \/ c.event.kind \in {"progress", "score"} \cap missed'
    BY <2>3 DEF EventsInv
  <2> QED BY <1>0, <2>1, <2>2, <2>3, <2>4 DEF EventsInv, ScoreWaits, Tells
<1>3. CASE CallCommitted
  <2>1. \A c \in log' \cup calls' : Tells(c.event)'
    BY <1>3, <1>a, <1>b DEF CallCommitted
  <2>2. /\ attempt' = attempt /\ evidence' = evidence /\ sending' = sending /\ missed' = missed
        /\ calls' \subseteq calls /\ (calls = {} => log' = log)
    BY <1>3 DEF CallCommitted, Same
  <2> QED BY <1>0, <2>1, <2>2 DEF EventsInv, ScoreWaits, Tells
<1>4. CASE SessionDone
  <2>1. \A c \in log' \cup calls' : Tells(c.event)'
    BY <1>4, <1>a, <1>b, <1>c DEF SessionDone
  <2>2. Cardinality(evidence') > 0
    BY <1>4, Places DEF SessionDone
  <2> QED BY <1>0, <1>4, <2>1, <2>2 DEF SessionDone, EventsInv, ScoreWaits, Tells
<1>5. CASE EventSent \/ EventMissed
  <2>1. Same /\ sending # <<>> /\ sending' = Tail(sending)
    BY <1>5 DEF EventSent, EventMissed
  <2>2. Tells(NextEvent)
    BY <2>1, NextEventTells DEF Tells
  <2>3. \A c \in Inserted({NextEvent}, clock + 1) : c.event = NextEvent
    BY DEF Inserted
  <2>4. \A c \in log' \cup calls' : c \in log \cup calls \/ c.event = NextEvent
    BY <1>5, <2>3 DEF EventSent, EventMissed
  <2>5. \A c \in log' \cup calls' : Tells(c.event)'
    BY <1>a, <1>b, <2>1, <2>2, <2>4
  <2>6. \A c \in calls' : c.event.kind = "page" \/ c.event.kind \in {"progress", "score"} \cap missed'
    BY <1>5, <2>1, NextEventTells DEF EventSent, EventMissed, EventsInv
  <2>7. sending' \in {<<>>, <<"progress">>, <<"score">>, <<"progress", "score">>}
        /\ (ScoreWaits' => ScoreWaits)
    <3>1. sending \in {<<"progress">>, <<"score">>, <<"progress", "score">>}
      BY <2>1 DEF EventsInv
    <3>2. CASE sending = <<"progress">>
      <4>1. sending' = <<>>
        BY <2>1, <3>2
      <4> QED BY <4>1 DEF ScoreWaits
    <3>3. CASE sending = <<"score">>
      <4>1. sending' = <<>>
        BY <2>1, <3>3
      <4> QED BY <4>1 DEF ScoreWaits
    <3>4. CASE sending = <<"progress", "score">>
      <4>1. sending' = <<"score">>
        BY <2>1, <3>4
      <4> QED BY <3>4, <4>1 DEF ScoreWaits
    <3> QED BY <3>1, <3>2, <3>3, <3>4
  <2>8. attempt' = attempt /\ attempt # "none" /\ evidence' = evidence
    BY <2>1 DEF Same, EventsInv
  <2> QED BY <1>0, <2>5, <2>6, <2>7, <2>8 DEF EventsInv, Tells
<1> QED BY <1>1, <1>2, <1>3, <1>4, <1>5, FollowSteps

LEMMA ProgressStep ==
    ASSUME DbInv, EvidenceInv, Followed, EventsInv, ProgressInv, [Next]_vars
    PROVE  ProgressInv'
<1> SUFFICES ASSUME attempt' # "none", "progress" \notin missed', sending' \in {<<>>, <<"score">>}
             PROVE  \E c \in log' : /\ c.event.kind = "progress" /\ c.event.session = ReadModel'
                                    /\ \A d \in log' : d.event.kind = "progress" =>
                                         d = c \/ d.stamp < c.stamp
  BY DEF ProgressInv
<1>0. suite' = suite
  BY SuiteStays
<1>a. ASSUME Same PROVE ReadModel' = ReadModel
  BY <1>0, <1>a DEF Same, ReadModel, ActiveTask
<1>1. CASE Announces
  BY <1>1 DEF Announces
<1>2. CASE SessionDone
  BY <1>2 DEF SessionDone
<1>3. CASE NothingTold
  BY <1>3, <1>a DEF NothingTold, Same, ProgressInv
<1>4. CASE CallCommitted
  <2>1. \A d \in log' : d.event.kind = "progress" => d \in log
    BY <1>4 DEF CallCommitted, EventsInv
  <2>2. log \subseteq log'
    BY <1>4 DEF CallCommitted
  <2>3. PICK c \in log : /\ c.event.kind = "progress" /\ c.event.session = ReadModel
                         /\ \A d \in log : d.event.kind = "progress" => d = c \/ d.stamp < c.stamp
    BY <1>4 DEF CallCommitted, Same, ProgressInv
  <2> QED BY <1>4, <1>a, <2>1, <2>2, <2>3 DEF CallCommitted
<1>5. CASE EventSent
  <2>0. /\ Same /\ sending # <<>> /\ sending' = Tail(sending) /\ missed' = missed
        /\ log' = log \cup Inserted({NextEvent}, clock + 1)
    BY <1>5 DEF EventSent
  <2> DEFINE new == [event |-> NextEvent, stamp |-> clock + 1]
  <2>1. log' = log \cup {new}
    BY <2>0 DEF Inserted
  <2>2. new.event = NextEvent /\ new.stamp = clock + 1
    OBVIOUS
  <2> HIDE DEF new
  <2>3. CASE Head(sending) = "progress"
    <3>1. new.event.kind = "progress" /\ new.event.session = ReadModel
      BY <2>0, <2>2, <2>3, NextEventTells
    <3>2. \A d \in log : d.stamp < new.stamp
      BY <2>2 DEF DbInv, IsCall
    <3> QED BY <1>a, <2>0, <2>1, <3>1, <3>2
  <2>4. CASE Head(sending) = "score"
    <3>1. sending = <<"score">>
      BY <2>0, <2>4 DEF EventsInv
    <3>2. new.event.kind = "score"
      BY <2>0, <2>2, <2>4, NextEventTells
    <3>3. PICK c \in log : /\ c.event.kind = "progress" /\ c.event.session = ReadModel
                           /\ \A d \in log : d.event.kind = "progress" => d = c \/ d.stamp < c.stamp
      BY <2>0, <3>1 DEF Same, ProgressInv
    <3> QED BY <1>a, <2>0, <2>1, <3>2, <3>3
  <2> QED BY <2>0, <2>3, <2>4, NextEventTells
<1>6. CASE EventMissed
  <2>0. /\ Same /\ sending # <<>> /\ log' = log /\ missed' = missed \cup {Head(sending)}
    BY <1>6 DEF EventMissed
  <2>1. sending = <<"score">> /\ "progress" \notin missed
    BY <2>0 DEF EventsInv
  <2> QED BY <1>a, <2>0, <2>1 DEF Same, ProgressInv
<1> QED BY <1>1, <1>2, <1>3, <1>4, <1>5, <1>6, FollowSteps

LEMMA KnownStep ==
    ASSUME DbInv, EvidenceInv, Followed, EventsInv, KnownInv, [Next]_vars
    PROVE  KnownInv'
<1> DEFINE Told(L, kind, session) == \E c \in L : c.event.kind = kind /\ c.event.session = session
           n == Cardinality(evidence)
           m == Cardinality(evidence')
<1>0. suite' = suite /\ n \in Nat
  BY SuiteStays, Places
<1>a. /\ "score" \notin missed => \A i \in 1..n : (i = n /\ ScoreWaits) \/ Told(log, "score", suite.tasks[i])
      /\ attempt # "none" /\ "created" \notin missed => \A t \in TasksOf(suite) : Told(log, "created", t)
  BY DEF KnownInv
<1>b. SUFFICES /\ "score" \notin missed' =>
                    \A i \in 1..m : (i = m /\ ScoreWaits') \/ Told(log', "score", suite.tasks[i])
               /\ attempt' # "none" /\ "created" \notin missed' =>
                    \A t \in TasksOf(suite) : Told(log', "created", t)
  BY <1>0 DEF KnownInv
<1>c. ASSUME log \subseteq log' PROVE \A k, x : Told(log, k, x) => Told(log', k, x)
  BY <1>c
<1> HIDE DEF n, m
<1>1. CASE Announces
  <2>1. m = 0
    BY <1>1, FS_EmptySet DEF Announces, m
  <2>2. PICK known \in SUBSET TasksOf(suite) :
           /\ log' = Inserted({CreatedEvent(task) : task \in known}, clock + 1)
           /\ missed' = IF known # TasksOf(suite) THEN {"created"} ELSE {}
    BY <1>1 DEF Announces
  <2>3. ASSUME NEW t \in known PROVE Told(log', "created", t)
    <3> DEFINE new == [event |-> CreatedEvent(t), stamp |-> clock + 1]
    <3>1. new \in log'
      BY <2>2 DEF Inserted
    <3>2. new.event = CreatedEvent(t)
      OBVIOUS
    <3>3. CreatedEvent(t).kind = "created" /\ CreatedEvent(t).session = t
      BY DEF CreatedEvent
    <3> HIDE DEF new
    <3> QED BY <3>1, <3>2, <3>3
  <2>4. "created" \notin missed' => known = TasksOf(suite)
    BY <2>2
  <2> QED BY <2>1, <2>3, <2>4
<1>2. CASE NothingTold
  <2>1. log' = log /\ missed' = missed /\ attempt' = attempt /\ m = n /\ ScoreWaits' = ScoreWaits
    BY <1>2 DEF NothingTold, Same, ScoreWaits, m, n
  <2> QED BY <1>a, <2>1
<1>3. CASE CallCommitted
  <2>1. log \subseteq log' /\ missed' = missed /\ attempt' = attempt /\ m = n /\ ScoreWaits' = ScoreWaits
    BY <1>3 DEF CallCommitted, Same, ScoreWaits, m, n
  <2> HIDE DEF Told
  <2> QED BY <1>a, <1>c, <2>1
<1>4. CASE SessionDone
  <2>1. /\ log' = log /\ missed' = missed /\ attempt # "none" /\ m = n + 1
        /\ ~ScoreWaits /\ ScoreWaits'
    BY <1>4 DEF SessionDone, ScoreWaits, m, n
  <2>2. \A i \in 1..m : i = m \/ i \in 1..n
    BY <1>0, <2>1
  <2> HIDE DEF Told
  <2> QED BY <1>a, <2>1, <2>2
<1>5. CASE EventSent
  <2>1. /\ Same /\ sending # <<>> /\ sending' = Tail(sending) /\ missed' = missed /\ m = n
        /\ attempt' = attempt /\ log' = log \cup {[event |-> NextEvent, stamp |-> clock + 1]}
    BY <1>5 DEF EventSent, Same, Inserted, m, n
  <2>2. CASE sending = <<"progress">>
    <3>1. ~ScoreWaits /\ log \subseteq log'
      BY <2>1, <2>2 DEF ScoreWaits
    <3> HIDE DEF Told
    <3> QED BY <1>a, <1>c, <2>1, <3>1
  <2>3. CASE sending = <<"score">>
    <3>1. NextEvent.kind = "score" /\ NextEvent.session = suite.tasks[n]
      BY <2>1, <2>3, NextEventTells DEF n
    <3> DEFINE new == [event |-> NextEvent, stamp |-> clock + 1]
    <3>a. new \in log' /\ new.event = NextEvent /\ log \subseteq log'
      BY <2>1
    <3> HIDE DEF new
    <3>2. Told(log', "score", suite.tasks[n]) /\ log \subseteq log'
      BY <3>1, <3>a
    <3> HIDE DEF Told
    <3> QED BY <1>a, <1>c, <2>1, <3>2
  <2>4. CASE sending = <<"progress", "score">>
    <3>1. sending' = <<"score">>
      BY <2>1, <2>4
    <3>2. ScoreWaits' /\ log \subseteq log'
      BY <2>1, <3>1 DEF ScoreWaits
    <3> HIDE DEF Told
    <3> QED BY <1>a, <1>c, <2>1, <3>2
  <2> QED BY <2>1, <2>2, <2>3, <2>4 DEF EventsInv
<1>6. CASE EventMissed
  <2>1. /\ Same /\ sending # <<>> /\ sending' = Tail(sending) /\ m = n
        /\ attempt' = attempt /\ log' = log /\ missed' = missed \cup {Head(sending)}
    BY <1>6 DEF EventMissed, Same, m, n
  <2>2. CASE sending = <<"score">>
    BY <1>a, <2>1, <2>2
  <2>3. CASE sending # <<"score">>
    <3>1. ScoreWaits => ScoreWaits'
      <4>1. CASE sending = <<"progress", "score">>
        <5>1. sending' = <<"score">>
          BY <2>1, <4>1
        <5> QED BY <5>1 DEF ScoreWaits
      <4> QED BY <2>3, <4>1 DEF ScoreWaits
    <3> HIDE DEF Told
    <3> QED BY <1>a, <2>1, <3>1
  <2> QED BY <2>2, <2>3
<1> QED BY <1>1, <1>2, <1>3, <1>4, <1>5, <1>6, FollowSteps

LEMMA LatestStep ==
    ASSUME DbInv, EvidenceInv, Followed, EventsInv, LatestInv, [Next]_vars
    PROVE  LatestInv'
<1> DEFINE P(L) == OfKind(L, "progress")
<1>1. SUFFICES P(log') # {} => Newest(P(log')) # {}
  BY DEF LatestInv
<1>2. P(log) # {} => Newest(P(log)) # {}
  BY DEF LatestInv
<1>3. ASSUME NEW c, c.stamp \in Nat, log' = log \cup {c} PROVE P(log') # {} => Newest(P(log')) # {}
  <2>1. P(log') = P(log) \/ P(log') = P(log) \cup {c}
    BY <1>3 DEF OfKind
  <2>2. \A d \in P(log) : d.stamp \in Nat
    BY DEF DbInv, IsCall, OfKind
  <2> HIDE DEF P
  <2> QED BY <1>2, <1>3, <2>1, <2>2, NewestAdded
<1>4. CASE log' = log
  BY <1>2, <1>4
<1>5. CASE Announces
  <2>1. P(log') = {}
    BY <1>5 DEF Announces, Inserted, CreatedEvent, OfKind
  <2> QED BY <2>1
<1>6. CASE CallCommitted
  <2>1. log' = log \/ \E c \in calls : log' = log \cup {c}
    BY <1>6 DEF CallCommitted
  <2>2. \A c \in calls : c.stamp \in Nat
    BY DEF DbInv, IsCall
  <2> QED BY <1>3, <1>4, <2>1, <2>2
<1>7. CASE EventSent
  <2> DEFINE new == [event |-> NextEvent, stamp |-> clock + 1]
  <2>1. log' = log \cup {new}
    BY <1>7 DEF EventSent, Inserted
  <2>2. new.stamp \in Nat
    BY DEF DbInv
  <2> HIDE DEF new
  <2> QED BY <1>3, <2>1, <2>2
<1> QED BY <1>4, <1>5, <1>6, <1>7, FollowSteps DEF NothingTold, SessionDone, EventMissed

LEMMA FollowStep ==
    ASSUME DbInv, EvidenceInv, FollowInv, [Next]_vars
    PROVE  FollowInv'
<1>1. Followed' = Followed
  BY SuiteStays DEF Followed
<1> QED BY <1>1, EventsStep, ProgressStep, KnownStep, LatestStep DEF FollowInv

(* The first of some places. *)
LEMMA FirstPlace ==
    ASSUME NEW q, NEW S, NEW k \in Nat \ {0}, q[k] \in S
    PROVE  \E i \in 1..k : q[i] \in S /\ \A j \in 1..(i - 1) : q[j] \notin S
<1> DEFINE In == {i \in 1..k : q[i] \in S}
           B == {1..i : i \in In}
<1>1. IsFiniteSet(1..k)
  BY FS_Interval
<1>2. B \in SUBSET (SUBSET (1..k))
  OBVIOUS
<1>3. B # {}
  OBVIOUS
<1>4. PICK T \in B : \A U \in B : U \subseteq T => U = T
  <2> DEFINE R == 1..k
  <2>1. IsFiniteSet(R) /\ B \in SUBSET (SUBSET R) /\ B # {}
    BY <1>1, <1>2, <1>3
  <2> HIDE DEF B, R
  <2> QED BY <2>1, SmallestSet
<1>5. PICK i \in In : T = 1..i
  BY <1>4
<1>6. ASSUME NEW j \in 1..(i - 1), q[j] \in S PROVE FALSE
  <2>1. j \in In /\ i \in Nat /\ j \in Nat /\ j < i
    BY <1>5, <1>6
  <2>2. 1..j \in B /\ 1..j \subseteq T
    BY <1>5, <2>1
  <2>3. 1..j = 1..i
    BY <1>4, <1>5, <2>2
  <2>4. i \in 1..i
    BY <2>1, <1>5
  <2>5. i \in 1..j
    BY <2>3, <2>4
  <2> QED BY <2>1, <2>5
<1> QED BY <1>5, <1>6

LEMMA PlaceIs ==
    ASSUME EvidenceInv, NEW i \in 1..Len(suite.tasks)
    PROVE  Place(suite.tasks[i]) = i
<1>1. DOMAIN suite.tasks = 1..Len(suite.tasks)
  BY TasksDistinct DEF EvidenceInv
<1> QED BY <1>1, Places DEF Place

LEMMA FollowsRight ==
    ASSUME DbInv, EvidenceInv, FollowInv
    PROVE  ViewerFollows
<1> DEFINE n == Cardinality(evidence)
           q == suite.tasks
           P == OfKind(log, "progress")
           U == Unscored(log)
           active == deriveActiveHostedSessionId(log, q)
           shown == deriveActiveHostedViewerUrl(log, q, active)
<1> SUFFICES ASSUME Followed, sending = <<>>
             PROVE  /\ attempt = "running" /\ "progress" \notin missed =>
                         active = ActiveTask /\ shown = ActiveTask
                    /\ attempt = "completed" /\ missed = {} => active = "none"
                    /\ attempt = "running" /\ "created" \notin missed /\ active # "none" =>
                         Place(active) <= Place(ActiveTask)
  BY DEF ViewerFollows
<1>0. EventsInv /\ ProgressInv /\ KnownInv /\ LatestInv /\ ~ScoreWaits
  BY DEF FollowInv, ScoreWaits
<1>1. active = IF P # {} /\ Latest(P).event.session # "none" THEN Latest(P).event.session
               ELSE IF U = {} THEN "none" ELSE FirstOf(q, U)
  BY DEF deriveActiveHostedSessionId
<1>2. P # {} => Latest(P) \in P /\ \A d \in P : d.stamp <= Latest(P).stamp
  BY <1>0 DEF LatestInv, Newest, Latest
<1>3. \A c \in P : c \in log /\ c.event.kind = "progress" /\ c.stamp \in Nat
  BY DEF OfKind, DbInv, IsCall
<1>4. attempt \in {"running", "completed"} /\ "progress" \notin missed =>
        P # {} /\ Latest(P).event.session = ReadModel
  <2> SUFFICES ASSUME attempt \in {"running", "completed"}, "progress" \notin missed
               PROVE  P # {} /\ Latest(P).event.session = ReadModel
    OBVIOUS
  <2>1. PICK c \in log : /\ c.event.kind = "progress" /\ c.event.session = ReadModel
                         /\ \A d \in log : d.event.kind = "progress" => d = c \/ d.stamp < c.stamp
    BY <1>0 DEF ProgressInv
  <2>2. c \in P
    BY <2>1 DEF OfKind
  <2> HIDE DEF P
  <2>3. Latest(P) = c
    <3>1. Latest(P) \in P /\ c.stamp <= Latest(P).stamp
      BY <1>2, <2>2
    <3>2. Latest(P) = c \/ Latest(P).stamp < c.stamp
      BY <1>3, <2>1, <3>1
    <3>3. Latest(P).stamp \in Nat /\ c.stamp \in Nat
      BY <1>3, <2>2, <3>1
    <3> QED BY <3>1, <3>2, <3>3
  <2> QED BY <2>1, <2>2, <2>3
<1>5. attempt = "running" =>
        /\ n + 1 \in 1..Len(q) /\ n \in Nat /\ ActiveTask = q[n + 1] /\ ActiveTask \in TasksOf(suite)
        /\ ReadModel = ActiveTask /\ ActiveTask # "none"
  <2> SUFFICES ASSUME attempt = "running"
               PROVE  /\ n + 1 \in 1..Len(q) /\ n \in Nat /\ ActiveTask = q[n + 1]
                      /\ ActiveTask \in TasksOf(suite) /\ ReadModel = ActiveTask /\ ActiveTask # "none"
    OBVIOUS
  <2>1. n + 1 \in 1..Len(q) /\ n \in Nat
    BY Places
  <2>2. ActiveTask = q[n + 1] /\ ReadModel = ActiveTask
    BY DEF ActiveTask, ReadModel
  <2>3. ActiveTask \in TasksOf(suite)
    BY ActiveTaskIs
  <2> QED BY <2>1, <2>2, <2>3, Places
<1>6. ASSUME attempt = "running", "progress" \notin missed
      PROVE  active = ActiveTask /\ shown = ActiveTask
  <2>1. P # {} /\ Latest(P).event.session = ActiveTask /\ ActiveTask # "none"
    BY <1>4, <1>5, <1>6
  <2>2. active = ActiveTask
    BY <1>1, <2>1
  <2>3. active \in SessionsOf(Linked(log, q) \cup P) \ {"none"}
    BY <1>2, <2>1, <2>2 DEF SessionsOf
  <2> HIDE DEF active
  <2>4. shown = active
    BY <2>3 DEF deriveActiveHostedViewerUrl
  <2> QED BY <2>2, <2>4
<1>7. ASSUME attempt = "completed", missed = {} PROVE active = "none"
  <2>1. ReadModel = "none" /\ P # {} /\ Latest(P).event.session = "none"
    BY <1>4, <1>7 DEF ReadModel
  <2>2. n = Len(q)
    BY <1>7 DEF EvidenceInv
  <2>3. \A i \in 1..n : \E c \in log : c.event.kind = "score" /\ c.event.session = q[i]
    BY <1>0, <1>7 DEF KnownInv
  <2>4. \A t \in TasksOf(suite) : t \in SessionsOf(OfKind(log, "score"))
    BY <2>2, <2>3, Places DEF SessionsOf, OfKind
  <2>5. \A t \in SessionsOf(OfKind(log, "created")) : t \in TasksOf(suite)
    BY <1>0 DEF EventsInv, SessionsOf, OfKind
  <2>6. U = {}
    BY <2>4, <2>5 DEF Unscored
  <2> QED BY <1>1, <2>1, <2>6
<1>8. ASSUME attempt = "running", "created" \notin missed, active # "none"
      PROVE  Place(active) <= Place(ActiveTask)
  <2>1. SUFFICES \E i \in 1..(n + 1) : active = q[i]
    <3>1. PICK i \in 1..(n + 1) : active = q[i]
      BY <2>1
    <3>2. i \in 1..Len(q) /\ i <= n + 1
      BY <1>5, <1>8, <3>1
    <3>3. Place(active) = i /\ Place(ActiveTask) = n + 1
      BY <1>5, <1>8, <3>1, <3>2, PlaceIs
    <3> QED BY <3>2, <3>3
  <2>2. CASE P # {} /\ Latest(P).event.session # "none"
    <3>1. Begun(Latest(P).event.session)
      BY <1>0, <1>2, <1>3, <2>2 DEF EventsInv
    <3> QED BY <1>1, <2>2, <3>1 DEF Begun
  <2>3. CASE ~(P # {} /\ Latest(P).event.session # "none")
    <3>1. active = FirstOf(q, U)
      BY <1>1, <1>8, <2>3
    <3>2. q[n + 1] \in SessionsOf(OfKind(log, "created"))
      BY <1>0, <1>5, <1>8 DEF KnownInv, SessionsOf, OfKind
    <3>3. q[n + 1] \notin SessionsOf(OfKind(log, "score"))
      <4>1. ASSUME NEW c \in log, c.event.kind = "score" PROVE c.event.session # q[n + 1]
        <5>1. PICK i \in 1..n : c.event.session = q[i]
          BY <1>0, <4>1 DEF EventsInv, Done
        <5> QED BY <1>5, <1>8, <5>1, Places
      <4> QED BY <4>1 DEF SessionsOf, OfKind
    <3>4. q[n + 1] \in U
      BY <3>2, <3>3 DEF Unscored
    <3> HIDE DEF U
    <3>5. PICK i \in 1..(n + 1) : q[i] \in U /\ \A j \in 1..(i - 1) : q[j] \notin U
      <4>1. n + 1 \in Nat \ {0}
        BY <1>5, <1>8
      <4> HIDE DEF n, q
      <4> QED BY <3>4, <4>1, FirstPlace
    <3>6. DOMAIN q = 1..Len(q)
      BY TasksDistinct DEF EvidenceInv
    <3> DEFINE f == CHOOSE i2 \in DOMAIN q : q[i2] \in U /\ \A j \in 1..(i2 - 1) : q[j] \notin U
    <3>7. i \in DOMAIN q
      BY <1>5, <1>8, <3>5, <3>6
    <3>8. f \in DOMAIN q /\ q[f] \in U /\ \A j \in 1..(f - 1) : q[j] \notin U
      BY <3>5, <3>7
    <3>9. FirstOf(q, U) = q[f]
      BY DEF FirstOf
    <3> HIDE DEF f
    <3>10. f <= n + 1
      <4>1. ASSUME n + 1 < f PROVE FALSE
        <5>1. n + 1 \in 1..(f - 1)
          BY <1>5, <1>8, <3>6, <3>8, <4>1
        <5> QED BY <3>4, <3>8, <5>1
      <4> QED BY <1>5, <1>8, <3>6, <3>8, <4>1
    <3> QED BY <1>5, <1>8, <3>1, <3>6, <3>8, <3>9, <3>10
  <2> QED BY <2>2, <2>3
<1> QED BY <1>6, <1>7, <1>8

(* Unless progress was missed the page of a run finds the session the      *)
(* agent works on, and never one that is yet to come, whatever was lost of *)
(* a run that was announced (deriveActiveHostedSessionId).                 *)
THEOREM ViewersFollow == Spec => []ViewerFollows
<1>1. Init => FollowInv
  BY FS_EmptySet DEF Init, ScoringInit, ViewInit, FollowInv, EventsInv, ProgressInv, KnownInv,
     LatestInv, ScoreWaits, OfKind
<1>2. ViewInv /\ EvidenceInv /\ FollowInv /\ [Next]_vars => FollowInv'
  BY FollowStep DEF ViewInv
<1>3. ViewInv /\ EvidenceInv /\ FollowInv => ViewerFollows
  BY FollowsRight DEF ViewInv
<1> QED BY <1>1, <1>2, <1>3, EvidenceIsKept, ViewIsKept, PTL DEF Spec
=============================================================================
