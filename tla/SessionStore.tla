---------------------------- MODULE SessionStore ----------------------------
(***************************************************************************)
(* The state of one hosted session: the whole-value envelope in Redis that *)
(* every replica of hosted-sites reads and writes, the hot copies in their *)
(* memory, and the durable row behind the orchestrator (session-store.ts,  *)
(* session-cache.ts, orchestrator-client.ts, the requests that use them).  *)
(*                                                                         *)
(* The agent's requests edit the session's work or finish it.  Each edit   *)
(* is told apart by the request that makes it.  A request works on an      *)
(* object of its process; requests share one only when it comes from the   *)
(* hot copies, that is when Redis fails or is not configured.              *)
(*                                                                         *)
(* Any call may fail.  `calm' records whether one has, or two requests     *)
(* have overlapped: what is promised under sequential requests and what is *)
(* promised always are told apart by it.  A token becomes known when its   *)
(* session is active, so the row starts there.                             *)
(***************************************************************************)
EXTENDS Naturals, FiniteSets

CONSTANTS
    Replicas,       \* processes of hosted-sites
    Edits,          \* requests that change the session's work
    Finishes,       \* requests that finish the session
    MaxBusy,        \* bound on the requests at work at a time
    MaxLate,        \* bound on the snapshot commands not waited for
    None

Requests == Edits \cup Finishes

Statuses == {"active", "completed", "failed", "cancelled", "expired"}
Envelopes == [status : Statuses, work : SUBSET Edits]
Envelope(st, work) == [status |-> st, work |-> work]

ASSUME RequestsAssumption == Edits \cap Finishes = {}
ASSUME NoneAssumption ==
    /\ None \notin Requests
    /\ \A work \in SUBSET Edits : work # None
    /\ \A envelope \in Envelopes : envelope # None

VARIABLES
    shared,     \* whether Redis is configured
    \* PostgreSQL
    status,     \* hosted_web_sessions.status
    saved,      \* its metadata.appState: the edits it contains
    result,     \* the work that was scored, or None
    overdue,    \* whether expires_at has passed
    late,       \* snapshot commands that were not waited for
    \* Redis and the replicas
    redis,      \* the envelope, or None
    hot,        \* per replica: the request whose object the map holds, or None
    object,     \* per request: the session object it made, or None
    \* the requests
    stage,      \* what a request does next, or how it ended
    at,         \* the replica it runs on
    holds,      \* the request whose object it works on
    given,      \* finish: the work it had evaluated, then the one answered
    invalidated,    \* whether hosted-sites was told of a cancellation
    calm            \* whether no call has failed and no requests overlapped

row == <<status, saved, result, overdue, late>>
request == <<stage, at, holds, given>>
vars == <<shared, row, redis, hot, object, request, invalidated, calm>>

(* hydrateSessionFromMetadata: an object made from the row. *)
Recovered == Envelope(status, saved)

Ended == Statuses \ {"active"}
Over == {"new", "answered", "refused"}      \* refused, or its replica died
Busy == {r \in Requests : stage[r] \notin Over}

Init ==
    /\ shared \in BOOLEAN
    /\ status = "active" /\ saved = {} /\ result = None /\ overdue = FALSE /\ late = {}
    /\ redis = None
    /\ hot = [p \in Replicas |-> None]
    /\ object = [r \in Requests |-> None]
    /\ stage = [r \in Requests |-> "new"]
    /\ at = [r \in Requests |-> None]
    /\ holds = [r \in Requests |-> None]
    /\ given = [r \in Requests |-> None]
    /\ invalidated = FALSE
    /\ calm = TRUE

-----------------------------------------------------------------------------
(* Objects that neither the map nor a request refers to are gone. *)
Collect(objects) ==
    object' = [r \in Requests |->
        IF (\E p \in Replicas : hot'[p] = r) \/ (\E q \in Requests : holds'[q] = r)
        THEN objects[r] ELSE None]

End(r, how) ==
    /\ stage' = [stage EXCEPT ![r] = how]
    /\ holds' = [holds EXCEPT ![r] = None]
    /\ at' = [at EXCEPT ![r] = None]

Expire == status' = IF status = "active" THEN "expired" ELSE status

(* getSession, once it has the object of `owner', with the key of Redis    *)
(* left as `key': turn a cancelled session away, evict an expired one and  *)
(* have its attempt timed out (either call may fail), or go on.            *)
Admit(r, p, owner, env, key) ==
    IF env.status = "cancelled" \/ overdue
    THEN /\ hot' = [hot EXCEPT ![p] = None]
         /\ IF env.status = "cancelled"
            THEN redis' = key /\ UNCHANGED status
            ELSE redis' \in {key, None} /\ (Expire \/ UNCHANGED status)
         /\ End(r, "refused")
         /\ Collect(object)
    ELSE /\ at' = [at EXCEPT ![r] = p]
         /\ holds' = [holds EXCEPT ![r] = owner]
         /\ hot' = [hot EXCEPT ![p] = owner]
         /\ stage' = [stage EXCEPT ![r] = "handle"]
         /\ redis' = key
         /\ Collect([object EXCEPT ![owner] = env])
         /\ UNCHANGED status

(* A request begins: it is the only one, or the calm is over. *)
Begins(r, failed) ==
    /\ stage[r] = "new" /\ Cardinality(Busy) < MaxBusy
    /\ calm' = (calm /\ Busy = {} /\ ~failed)
    /\ UNCHANGED <<shared, saved, result, overdue, late, given, invalidated>>

(* Redis has the envelope: the object is a fresh copy.                     *)
ReadCache(r, p) ==
    /\ shared /\ redis # None
    /\ Begins(r, FALSE)
    /\ Admit(r, p, r, redis, redis)

(* Seeded fault: a cache miss revives the hot copy of the replica. *)
RecoverOrRevive(r, p) ==
    /\ shared /\ redis = None
    /\ Begins(r, FALSE)
    /\ IF hot[p] # None THEN Admit(r, p, hot[p], object[hot[p]], None)
                        ELSE Admit(r, p, r, Recovered, None)

(* It has not: the row is recovered through the orchestrator, never the hot*)
(* copy.                                                                   *)
Recover(r, p) ==
    /\ shared /\ redis = None
    /\ Begins(r, FALSE)
    /\ Admit(r, p, r, Recovered, None)

(* Reading Redis fails: the hot copy serves as it is, stale or not.  The   *)
(* key of a cancelled session is deleted if Redis is back.                 *)
ReadHotCopy(r, p) ==
    /\ shared
    /\ Begins(r, TRUE)
    /\ IF hot[p] = None
       THEN Admit(r, p, r, Recovered, redis)
       ELSE \E key \in IF object[hot[p]].status = "cancelled" THEN {redis, None}
                       ELSE {redis} :
              Admit(r, p, hot[p], object[hot[p]], key)

(* Without Redis there is one replica, and its hot copy takes status and   *)
(* deadline from the row.                                                  *)
ReadMemory(r, p) ==
    /\ ~shared /\ \A q \in Replicas \ {p} : hot[q] = None
    /\ Begins(r, FALSE)
    /\ IF hot[p] # None
       THEN Admit(r, p, hot[p], Envelope(status, object[hot[p]].work), None)
       ELSE Admit(r, p, r, Recovered, None)

(* The orchestrator does not answer: with Redis, unknown sessions are      *)
(* turned away; without, the hot copy goes on with what it has.            *)
RecoveryFails(r, p) ==
    /\ Begins(r, TRUE)
    /\ \/ /\ redis = None /\ (shared \/ hot[p] = None)
          /\ End(r, "refused")
          /\ UNCHANGED <<status, redis, hot, object>>
       \/ /\ ~shared /\ hot[p] # None
          /\ Admit(r, p, hot[p], object[hot[p]], None)

-----------------------------------------------------------------------------
(* cacheSession: the map, then the whole envelope, whatever is there now.  *)
(* A failure is only logged.                                               *)
Cache(r) ==
    /\ hot' = [hot EXCEPT ![at[r]] = holds[r]]
    /\ \/ redis' = (IF shared THEN object[holds[r]] ELSE None) /\ UNCHANGED calm
       \/ shared /\ calm' = FALSE /\ UNCHANGED redis

(* recordSessionAccess writes the envelope back; then the mutation route   *)
(* refuses if the session is terminal, else it changes the object.         *)
Mutate(r) ==
    /\ r \in Edits /\ stage[r] = "handle"
    /\ Cache(r)
    /\ IF object[holds[r]].status \in Ended
       THEN End(r, "refused") /\ Collect(object)
       ELSE /\ object' = [object EXCEPT ![holds[r]] =
                             Envelope(@.status, @.work \cup {r})]
            /\ stage' = [stage EXCEPT ![r] = "save"]
            /\ UNCHANGED <<at, holds>>
    /\ UNCHANGED <<shared, row, given, invalidated>>

(* persistSessionSnapshot: the envelope first, then the command.           *)
Save(r) ==
    /\ stage[r] = "save"
    /\ Cache(r)
    /\ stage' = [stage EXCEPT ![r] = "snapshot"]
    /\ UNCHANGED <<shared, row, object, at, holds, given, invalidated>>

(* Seeded fault: a snapshot is stored whatever the session's status. *)
StoreRegardless(work) == saved' = work

(* updateActiveSessionMetadata. *)
Store(work) == saved' = IF status = "active" THEN work ELSE saved

(* recordEvent saves once more with the event, so a handler repeats the    *)
(* two writes before it answers.                                           *)
Proceed(r) ==
    \/ stage' = [stage EXCEPT ![r] = "save"] /\ UNCHANGED <<at, holds, hot, object>>
    \/ End(r, "answered") /\ UNCHANGED hot /\ Collect(object)

Snapshot(r) ==
    /\ stage[r] = "snapshot"
    /\ Store(object[holds[r]].work)
    /\ Proceed(r)
    /\ UNCHANGED <<shared, status, result, overdue, late, redis, given, invalidated, calm>>

(* Commands that will change nothing any more are not kept. *)
Delay(works) ==
    late' = IF status = "active" /\ Cardinality(late \cup works) <= MaxLate
            THEN late \cup works ELSE late

(* The command is not answered in time, or not sent; failures are ignored. *)
SnapshotUnanswered(r) ==
    /\ stage[r] = "snapshot"
    /\ Delay({object[holds[r]].work})
    /\ Proceed(r)
    /\ calm' = FALSE
    /\ UNCHANGED <<shared, status, saved, result, overdue, redis, given, invalidated>>

(* A snapshot command executed later, out of order if it was retried.      *)
LateSnapshot ==
    \E work \in late :
      /\ late' = late \ {work}
      /\ Store(work)
      /\ UNCHANGED <<shared, status, result, overdue, redis, hot, object, request,
                     invalidated, calm>>

-----------------------------------------------------------------------------
(* A finish request: the stored result of a finished session, or the       *)
(* evaluation of the object.                                               *)
Judge(r) ==
    /\ r \in Finishes /\ stage[r] = "handle"
    /\ Cache(r)
    /\ LET env == object[holds[r]]
       IN  IF env.status \in Ended
           THEN /\ IF env.status \in {"completed", "failed"}
                   THEN given' = [given EXCEPT ![r] = result] /\ End(r, "answered")
                   ELSE End(r, "refused") /\ UNCHANGED given
                /\ Collect(object)
           ELSE /\ given' = [given EXCEPT ![r] = env.work]
                /\ stage' = [stage EXCEPT ![r] = "finish"]
                /\ UNCHANGED <<at, holds, object>>
    /\ UNCHANGED <<shared, row, invalidated>>

Verdict(work) == IF work = Edits THEN "completed" ELSE "failed"

(* attempt.complete-session: the first result of an active session is      *)
(* stored; who comes later gets that one.                                  *)
StoreResult(r) ==
    IF status = "active"
    THEN /\ result' = given[r]
         /\ status' = Verdict(given[r])
    ELSE UNCHANGED <<result, status>>

(* Seeded fault: the answer is the evaluation that was sent. *)
FinishWithOwn(r) ==
    /\ stage[r] = "finish"
    /\ StoreResult(r)
    /\ stage' = [stage EXCEPT ![r] = "close"]
    /\ UNCHANGED <<at, holds, given, hot, object>>
    /\ UNCHANGED <<shared, saved, overdue, late, redis, invalidated, calm>>

Finish(r) ==
    /\ stage[r] = "finish"
    /\ StoreResult(r)
    /\ IF result' # None
       THEN /\ given' = [given EXCEPT ![r] = result']
            /\ stage' = [stage EXCEPT ![r] = "close"]
            /\ UNCHANGED <<at, holds, hot, object>>
       ELSE /\ End(r, "refused") /\ given' = [given EXCEPT ![r] = None]
            /\ UNCHANGED hot /\ Collect(object)
    /\ UNCHANGED <<shared, saved, overdue, late, redis, invalidated, calm>>

(* The answer of the orchestrator is lost, or the command never reached it:*)
(* 502, the session looks active as before, and the client may try again.  *)
FinishUnanswered(r) ==
    /\ stage[r] = "finish"
    /\ StoreResult(r) \/ UNCHANGED <<result, status>>
    /\ End(r, "new") /\ given' = [given EXCEPT ![r] = None]
    /\ UNCHANGED hot /\ Collect(object)
    /\ calm' = FALSE
    /\ UNCHANGED <<shared, saved, overdue, late, redis, invalidated>>

(* markSessionTerminal, and the answer. *)
Close(r) ==
    /\ stage[r] = "close"
    /\ LET closed == [object EXCEPT ![holds[r]] = Envelope(Verdict(given[r]), @.work)]
       IN  /\ hot' = [hot EXCEPT ![at[r]] = holds[r]]
           /\ \/ redis' = (IF shared THEN closed[holds[r]] ELSE None) /\ UNCHANGED calm
              \/ shared /\ calm' = FALSE /\ UNCHANGED redis
           /\ End(r, "answered")
           /\ Collect(closed)
    /\ UNCHANGED <<shared, row, given, invalidated>>

-----------------------------------------------------------------------------
(* Bound: the deadline passes while the session is open; afterwards it only *)
(* has requests turned away.                                               *)
DeadlinePasses ==
    /\ ~overdue /\ status = "active"
    /\ overdue' = TRUE
    /\ UNCHANGED <<shared, status, saved, result, late, redis, hot, object, request,
                   invalidated, calm>>

(* The orchestrator's sweep. *)
Sweep ==
    /\ overdue /\ status = "active"
    /\ Expire
    /\ UNCHANGED <<shared, saved, result, overdue, late, redis, hot, object, request,
                   invalidated, calm>>

-----------------------------------------------------------------------------
(* attempt.cancel, and POST /api/internal/sessions/cancel to one replica,  *)
(* which replaces the envelope and drops its own copy.                     *)
Cancel ==
    /\ status = "active"
    /\ status' = "cancelled"
    /\ UNCHANGED <<shared, saved, result, overdue, late, redis, hot, object, request,
                   invalidated, calm>>

(* Seeded fault: the envelope is left to expire. *)
InvalidateLocally(p) ==
    /\ status = "cancelled" /\ ~invalidated
    /\ hot' = [hot EXCEPT ![p] = None]
    /\ invalidated' = TRUE
    /\ calm' = (calm /\ Busy = {})
    /\ UNCHANGED <<shared, row, redis, request>>
    /\ Collect(object)

CancelById ==
    redis' = IF redis = None THEN None ELSE Envelope("cancelled", redis.work)

CancelSessions(p) ==
    /\ hot' = [hot EXCEPT ![p] = None]
    /\ Collect(object)
    /\ CancelById

Invalidate(p) ==
    /\ status = "cancelled" /\ ~invalidated
    /\ UNCHANGED <<shared, row, request>>
    /\ invalidated' = TRUE
    /\ calm' = (calm /\ Busy = {})
    /\ CancelSessions(p)

(* Redis is replaced, or the key reaches its time to live. *)
RedisLoses ==
    /\ redis # None
    /\ redis' = None
    /\ UNCHANGED <<shared, row, hot, object, request, invalidated, calm>>

(* A replica dies with its map and requests; a snapshot it sent may still  *)
(* be executed.                                                            *)
Crash(p) ==
    LET lost == {r \in Busy : at[r] = p}
        sent == {r \in lost : stage[r] = "snapshot"}
    IN  /\ hot[p] # None \/ lost # {}
        /\ hot' = [hot EXCEPT ![p] = None]
        /\ stage' = [r \in Requests |-> IF r \in lost THEN "refused" ELSE stage[r]]
        /\ at' = [r \in Requests |-> IF r \in lost THEN None ELSE at[r]]
        /\ holds' = [r \in Requests |-> IF r \in lost THEN None ELSE holds[r]]
        /\ Delay({object[holds[r]].work : r \in sent})
        /\ calm' = (calm /\ \A r \in lost : stage[r] \notin {"snapshot", "finish", "close"})
        /\ Collect(object)
        /\ given' = [r \in Requests |-> IF r \in lost THEN None ELSE given[r]]
        /\ UNCHANGED <<shared, status, saved, result, overdue, redis, invalidated>>

-----------------------------------------------------------------------------
Next ==
    \/ \E r \in Requests :
         \/ \E p \in Replicas :
              \/ ReadCache(r, p) \/ Recover(r, p) \/ ReadHotCopy(r, p)
              \/ ReadMemory(r, p) \/ RecoveryFails(r, p)
         \/ Mutate(r) \/ Save(r) \/ Snapshot(r) \/ SnapshotUnanswered(r)
         \/ Judge(r) \/ Finish(r) \/ FinishUnanswered(r) \/ Close(r)
    \/ LateSnapshot \/ DeadlinePasses \/ Sweep \/ Cancel \/ RedisLoses
    \/ \E p \in Replicas : Invalidate(p) \/ Crash(p)

Spec == Init /\ [][Next]_vars

-----------------------------------------------------------------------------
TypeOK ==
    /\ shared \in BOOLEAN /\ overdue \in BOOLEAN
    /\ invalidated \in BOOLEAN /\ calm \in BOOLEAN
    /\ status \in Statuses
    /\ saved \subseteq Edits
    /\ result \in (SUBSET Edits) \cup {None}
    /\ late \subseteq SUBSET Edits
    /\ redis \in Envelopes \cup {None}
    /\ object \in [Requests -> Envelopes \cup {None}]
    /\ hot \in [Replicas -> Requests \cup {None}]
    /\ at \in [Requests -> Replicas \cup {None}]
    /\ holds \in [Requests -> Requests \cup {None}]
    /\ given \in [Requests -> (SUBSET Edits) \cup {None}]
    /\ \A r \in Requests : holds[r] # None => object[holds[r]] # None
    /\ \A p \in Replicas : hot[p] # None => object[hot[p]] # None

Acknowledged == {r \in Edits : stage[r] = "answered"}

(* While requests come one at a time and no call fails, no edit that was   *)
(* answered is lost: neither by moving between replicas, nor by a crash    *)
(* between requests, nor when Redis loses the envelope, nor in the score   *)
(* ("Sticky sessions are not required for ordinary sequential requests",   *)
(* consistency-and-failure.md:41; getSession, persistSessionSnapshot).     *)
SequentialEditsKept ==
    calm /\ shared =>
        /\ status = "active" => Acknowledged \subseteq saved
        /\ redis # None /\ status = "active" => Acknowledged \subseteq redis.work
        /\ result # None => Acknowledged \subseteq result

(* Every finish request that is answered is answered with the one stored   *)
(* result, on whichever replica and from however stale an envelope         *)
(* (completeSession and resolveSessionResult in server.ts).                *)
AnswersAgree ==
    \A r \in Finishes : stage[r] \in {"close", "answered"} => given[r] = result

(* Once the row has its final status, no snapshot changes it: neither a    *)
(* retried command nor a request that still sees an active envelope        *)
(* (updateActiveSessionMetadata).                                          *)
FrozenAtEnd ==
    [][status # "active" => UNCHANGED <<status, saved, result>>]_vars

(* Once hosted-sites knows of a cancellation, no replica admits a request, *)
(* unless one was at work then or Redis has failed (api-reference.md:234). *)
CancelledIsRefused ==
    [][\A r \in Requests :
         calm' /\ invalidated /\ stage[r] = "new" => stage'[r] \in Over]_vars
=============================================================================
