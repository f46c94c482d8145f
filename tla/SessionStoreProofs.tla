------------------------- MODULE SessionStoreProofs -------------------------
(***************************************************************************)
(* Theorems about SessionStore for every number of replicas and requests   *)
(* and every bound.                                                        *)
(***************************************************************************)
EXTENDS SessionStore, TLAPS

USE NoneAssumption, RequestsAssumption

-----------------------------------------------------------------------------
(* The inductive invariant: types *)

Stages == Over \cup {"handle", "save", "snapshot", "finish", "close"}

(* A request at work has a replica and an object; it saves only if it      *)
(* edits, and finishes only with an evaluation.                            *)
Types ==
    /\ TypeOK
    /\ stage \in [Requests -> Stages]
    /\ \A r \in Busy : at[r] \in Replicas /\ holds[r] \in Requests
    /\ \A r \in Requests : stage[r] \in {"save", "snapshot"} => r \in Edits
    /\ \A r \in Requests : stage[r] \in {"finish", "close"} => r \in Finishes /\ given[r] # None

-----------------------------------------------------------------------------
(* The inductive invariant: what is always true *)

Closed == {"completed", "failed"}

(* Whatever says that the session is completed or failed is later than the *)
(* stored result, which then never changes.                                *)
Truth ==
    /\ status \in Closed <=> result # None
    /\ redis # None /\ redis.status \in Closed => result # None
    /\ \A r \in Requests : object[r] # None /\ object[r].status \in Closed => result # None
    /\ \A r \in Finishes :
         stage[r] \in {"close", "answered"} => given[r] = result /\ result # None
    /\ invalidated => status = "cancelled"

(* The inductive invariant: sequential requests, no failed call *)

(* What the one request at work knows: every edit answered before it, and  *)
(* its own once it is made; and it does not edit a finished session.       *)
Follows(r) ==
    /\ status = "active" => Acknowledged \subseteq object[holds[r]].work
    /\ stage[r] \in {"save", "snapshot"} => r \in object[holds[r]].work
    /\ stage[r] = "snapshot" /\ redis # None /\ status = "active" => r \in redis.work
    /\ stage[r] = "finish" /\ status = "active" => Acknowledged \subseteq given[r]
    /\ result # None =>
         \/ stage[r] = "close"
         \/ stage[r] = "handle" /\ object[holds[r]].status \in Ended

(* No request works next to another, or after hosted-sites was told of a   *)
(* cancellation; and once there is a result, the envelope says so as soon  *)
(* as the request that stored it has closed the session.                   *)
InTurn ==
    /\ late = {}
    /\ \A q, r \in Busy : q = r
    /\ invalidated => Busy = {} /\ (redis # None => redis.status = "cancelled")
    /\ shared =>
         /\ \A r \in Busy : Follows(r)
         /\ result # None =>
              \/ redis = None
              \/ redis.status \in Ended
              \/ \E r \in Busy : stage[r] = "close"

-----------------------------------------------------------------------------
(* Helpers *)

LEMMA EnvelopeType ==
    ASSUME NEW st \in Statuses, NEW work \in SUBSET Edits
    PROVE  /\ Envelope(st, work) \in Envelopes
           /\ Envelope(st, work) # None
           /\ Envelope(st, work).status = st /\ Envelope(st, work).work = work
  BY DEF Envelope, Envelopes

LEMMA VerdictType == ASSUME NEW work PROVE Verdict(work) \in {"completed", "failed"}
  BY DEF Verdict

(* A request at work has its object. *)
LEMMA BusyObject ==
    ASSUME Types, NEW r \in Requests, stage[r] \notin Over
    PROVE  /\ at[r] \in Replicas /\ holds[r] \in Requests
           /\ object[holds[r]] \in Envelopes
           /\ object[holds[r]].status \in Statuses
           /\ object[holds[r]].work \in SUBSET Edits
  BY DEF Types, TypeOK, Busy, Envelopes

(* What a step that touches objects must do to keep their types.           *)
ObjectTypes ==
    /\ object \in [Requests -> Envelopes \cup {None}]
    /\ hot \in [Replicas -> Requests \cup {None}]
    /\ holds \in [Requests -> Requests \cup {None}]
    /\ \A r \in Requests : holds[r] # None => object[holds[r]] # None
    /\ \A p \in Replicas : hot[p] # None => object[hot[p]] # None

LEMMA CollectTypes ==
    ASSUME NEW objects \in [Requests -> Envelopes \cup {None}],
           hot' \in [Replicas -> Requests \cup {None}],
           holds' \in [Requests -> Requests \cup {None}],
           \A r \in Requests : holds'[r] # None => objects[holds'[r]] # None,
           \A p \in Replicas : hot'[p] # None => objects[hot'[p]] # None,
           Collect(objects)
    PROVE  ObjectTypes'
<1>1. \A r \in Requests : object'[r] \in {objects[r], None}
  BY DEF Collect
<1>2. object' \in [Requests -> Envelopes \cup {None}]
  BY DEF Collect
<1>3. \A r \in Requests : holds'[r] # None => object'[holds'[r]] = objects[holds'[r]]
  BY DEF Collect
<1>4. \A p \in Replicas : hot'[p] # None => object'[hot'[p]] = objects[hot'[p]]
  BY DEF Collect
<1>. QED
  BY <1>2, <1>3, <1>4 DEF ObjectTypes

(* The end of a request keeps the types of what it changes.                *)
LEMMA EndTypes ==
    ASSUME Types, NEW r \in Requests, NEW how \in Over, End(r, how)
    PROVE  /\ stage' \in [Requests -> Stages]
           /\ at' \in [Requests -> Replicas \cup {None}]
           /\ holds' \in [Requests -> Requests \cup {None}]
           /\ \A q \in Requests : holds'[q] # None => holds'[q] = holds[q]
           /\ \A q \in Requests : stage'[q] \notin Over =>
                q # r /\ stage'[q] = stage[q] /\ at'[q] = at[q] /\ holds'[q] = holds[q]
  BY DEF End, Types, TypeOK, Stages, Over

LEMMA BeginTypes ==
    ASSUME Types, NEW r \in Requests, NEW p \in Replicas, NEW owner \in Requests,
           NEW env \in Envelopes, NEW key \in Envelopes \cup {None},
           stage[r] = "new", Admit(r, p, owner, env, key)
    PROVE  /\ status' \in Statuses /\ redis' \in Envelopes \cup {None}
           /\ ObjectTypes'
           /\ stage' \in [Requests -> Stages]
           /\ at' \in [Requests -> Replicas \cup {None}]
           /\ \A q \in Requests : stage'[q] \notin Over =>
                \/ q = r /\ stage'[q] = "handle" /\ at'[q] = p /\ holds'[q] = owner
                \/ stage'[q] = stage[q] /\ at'[q] = at[q] /\ holds'[q] = holds[q]
<1>. USE DEF Types, TypeOK
<1>1. CASE env.status = "cancelled" \/ overdue
  <2>1. /\ hot' = [hot EXCEPT ![p] = None]
        /\ redis' \in {key, None} /\ status' \in {status, "expired"}
        /\ End(r, "refused") /\ Collect(object)
    BY <1>1 DEF Admit, Expire
  <2>2. ObjectTypes'
    BY <2>1, EndTypes, CollectTypes DEF Over
  <2>. QED
    BY <2>1, <2>2, EndTypes DEF Over, Statuses
<1>2. CASE ~(env.status = "cancelled" \/ overdue)
  <2>1. /\ at' = [at EXCEPT ![r] = p]
        /\ holds' = [holds EXCEPT ![r] = owner]
        /\ hot' = [hot EXCEPT ![p] = owner]
        /\ stage' = [stage EXCEPT ![r] = "handle"]
        /\ redis' = key
        /\ Collect([object EXCEPT ![owner] = env])
        /\ status' = status
    BY <1>2 DEF Admit
  <2>2. ObjectTypes'
    <3>. DEFINE objects == [object EXCEPT ![owner] = env]
    <3>1. objects \in [Requests -> Envelopes \cup {None}]
      OBVIOUS
    <3>2. /\ \A q \in Requests : holds'[q] # None => objects[holds'[q]] # None
          /\ \A q \in Replicas : hot'[q] # None => objects[hot'[q]] # None
          /\ hot' \in [Replicas -> Requests \cup {None}]
          /\ holds' \in [Requests -> Requests \cup {None}]
      BY <2>1
    <3>. QED
      BY <2>1, <3>1, <3>2, CollectTypes
  <2>. QED
    BY <2>1, <2>2 DEF Stages, Over
<1>. QED
  BY <1>1, <1>2

(* How a request enters, on whichever path: refused outright, or admitted  *)
(* or turned away on an envelope that Redis, the row or the hot copy gave; *)
(* while nothing failed, the hot copy never gave its own status, and with  *)
(* Redis it gave nothing.                                                  *)
Enters(r, p) ==
    ReadCache(r, p) \/ Recover(r, p) \/ ReadHotCopy(r, p) \/ ReadMemory(r, p) \/ RecoveryFails(r, p)

Source(p, env) ==
    \/ redis # None /\ env = redis
    \/ env = Envelope(status, saved)
    \/ hot[p] # None /\ env = object[hot[p]]
    \/ hot[p] # None /\ env = Envelope(status, object[hot[p]].work)

CalmSource(env) ==
    \/ shared /\ redis # None /\ env = redis
    \/ shared /\ env = Envelope(status, saved)
    \/ ~shared /\ env.status = status

LEMMA EntryForm ==
    ASSUME Types, NEW r \in Requests, NEW p \in Replicas, Enters(r, p)
    PROVE  /\ stage[r] = "new"
           /\ UNCHANGED <<shared, saved, result, overdue, late, given, invalidated>>
           /\ calm' \in BOOLEAN /\ (calm' => calm /\ Busy = {})
           /\ \/ End(r, "refused") /\ UNCHANGED <<status, redis, hot, object>>
              \/ \E owner \in Requests, env \in Envelopes, key \in {redis, None} :
                   /\ Admit(r, p, owner, env, key)
                   /\ Source(p, env)
                   /\ calm' => CalmSource(env)
<1>. USE DEF Types, TypeOK
<1>1. Envelope(status, saved) \in Envelopes
  BY EnvelopeType
<1>2. hot[p] # None =>
        /\ hot[p] \in Requests /\ object[hot[p]] \in Envelopes
        /\ Envelope(status, object[hot[p]].work) \in Envelopes
        /\ Envelope(status, object[hot[p]].work).status = status
  BY EnvelopeType DEF Envelopes
<1>3. Envelope(status, saved).status = status
  BY DEF Envelope
<1>4. ASSUME Begins(r, FALSE) \/ Begins(r, TRUE)
      PROVE  /\ stage[r] = "new"
             /\ UNCHANGED <<shared, saved, result, overdue, late, given, invalidated>>
             /\ calm' \in BOOLEAN /\ (calm' => calm /\ Busy = {})
  BY <1>4 DEF Begins
<1>5. CASE ReadCache(r, p)
  BY <1>4, <1>5 DEF ReadCache, Source, CalmSource
<1>6. CASE Recover(r, p)
  BY <1>1, <1>4, <1>6 DEF Recover, Recovered, Source, CalmSource
<1>7. CASE ReadHotCopy(r, p)
  <2>1. Begins(r, TRUE)
    BY <1>7 DEF ReadHotCopy
  <2>2. ~calm'
    BY <2>1 DEF Begins
  <2>3. \E owner \in Requests, env \in Envelopes, key \in {redis, None} :
          Admit(r, p, owner, env, key) /\ Source(p, env)
    BY <1>1, <1>2, <1>7 DEF ReadHotCopy, Recovered, Source
  <2>. QED
    BY <1>4, <2>1, <2>2, <2>3
<1>8. CASE ReadMemory(r, p)
  BY <1>1, <1>2, <1>3, <1>4, <1>8 DEF ReadMemory, Recovered, Source, CalmSource
<1>9. CASE RecoveryFails(r, p)
  <2>1. Begins(r, TRUE)
    BY <1>9 DEF RecoveryFails
  <2>2. ~calm'
    BY <2>1 DEF Begins
  <2>3. \/ End(r, "refused") /\ UNCHANGED <<status, redis, hot, object>>
        \/ \E owner \in Requests, env \in Envelopes, key \in {redis, None} :
             Admit(r, p, owner, env, key) /\ Source(p, env)
    BY <1>2, <1>9 DEF RecoveryFails, Recovered, Source
  <2>. QED
    BY <1>4, <2>1, <2>2, <2>3
<1>. QED
  BY <1>5, <1>6, <1>7, <1>8, <1>9 DEF Enters

(* Caching what a request works on. *)
LEMMA CacheForm ==
    ASSUME Types, NEW r \in Requests, stage[r] \notin Over, Cache(r)
    PROVE  /\ hot' = [hot EXCEPT ![at[r]] = holds[r]]
           /\ hot' \in [Replicas -> Requests \cup {None}]
           /\ redis' \in Envelopes \cup {None}
           /\ calm' \in BOOLEAN /\ (calm' => calm)
           /\ redis' \in {redis, None, object[holds[r]]}
           /\ calm' /\ shared => redis' = object[holds[r]]
           /\ \A p \in Replicas : hot'[p] # None => object[hot'[p]] # None
<1>1. hot' = [hot EXCEPT ![at[r]] = holds[r]]
  BY DEF Cache
<1>2. /\ redis' \in {redis, None, object[holds[r]]}
      /\ calm' \in BOOLEAN /\ (calm' => calm)
      /\ calm' /\ shared => redis' = object[holds[r]]
  <2>1. CASE redis' = (IF shared THEN object[holds[r]] ELSE None) /\ UNCHANGED calm
    BY <2>1 DEF Types, TypeOK
  <2>2. CASE calm' = FALSE /\ UNCHANGED redis
    BY <2>2
  <2>. QED
    BY <2>1, <2>2 DEF Cache
<1>. QED
  BY <1>1, <1>2, BusyObject DEF Types, TypeOK

-----------------------------------------------------------------------------
(* Types *)

LEMMA InitTypes == Init => Types
  BY DEF Init, Types, TypeOK, Busy, Over, Stages, Statuses

LEMMA TypesKept == Types /\ [Next]_vars => Types'
<1>. SUFFICES ASSUME Types, [Next]_vars PROVE Types'
  OBVIOUS
<1>1. ASSUME NEW r \in Requests, NEW p \in Replicas, Enters(r, p) PROVE Types'
  <2>1. CASE End(r, "refused") /\ UNCHANGED <<status, redis, hot, object>>
    BY <1>1, <2>1, EntryForm, EndTypes DEF Types, TypeOK, Busy, Over
  <2>2. CASE ~(End(r, "refused") /\ UNCHANGED <<status, redis, hot, object>>)
    <3>1. PICK owner \in Requests, env \in Envelopes, key \in {redis, None} :
            Admit(r, p, owner, env, key)
      BY <1>1, <2>2, EntryForm
    <3>2. key \in Envelopes \cup {None}
      BY DEF Types, TypeOK
    <3>3. stage[r] = "new"
      BY <1>1, EntryForm
    <3>4. TypeOK'
      BY <1>1, <3>1, <3>2, <3>3, EntryForm, BeginTypes DEF Types, TypeOK, ObjectTypes
    <3>. QED
      BY <1>1, <3>1, <3>2, <3>3, <3>4, EntryForm, BeginTypes DEF Types, Busy, Over
  <2>. QED
    BY <2>1, <2>2
<1>2. ASSUME NEW r \in Requests, Mutate(r) PROVE Types'
  <2>1. stage[r] \notin Over
    BY <1>2 DEF Mutate, Over
  <2>2. Cache(r) /\ r \in Edits /\ UNCHANGED <<shared, row, given, invalidated>>
    BY <1>2 DEF Mutate
  <2>3. CASE object[holds[r]].status \in Ended
    <3>1. End(r, "refused") /\ Collect(object)
      BY <1>2, <2>3 DEF Mutate
    <3>2. ObjectTypes'
      BY <2>1, <2>2, <3>1, CacheForm, EndTypes, CollectTypes DEF Types, TypeOK, Over
    <3>. QED
      BY <2>1, <2>2, <3>1, <3>2, CacheForm, EndTypes
         DEF Types, TypeOK, ObjectTypes, Busy, Over, row
  <2>4. CASE object[holds[r]].status \notin Ended
    <3>. DEFINE e == Envelope(object[holds[r]].status, object[holds[r]].work \cup {r})
    <3>1. /\ object' = [object EXCEPT ![holds[r]] = e]
          /\ stage' = [stage EXCEPT ![r] = "save"]
          /\ UNCHANGED <<at, holds>>
      BY <1>2, <2>4 DEF Mutate
    <3>2. e \in Envelopes
      BY <2>1, <2>2, BusyObject, EnvelopeType
    <3>. HIDE DEF e
    <3>3. ObjectTypes'
      BY <2>1, <2>2, <3>1, <3>2, CacheForm DEF ObjectTypes, Types, TypeOK
    <3>. QED
      BY <2>1, <2>2, <3>1, <3>3, CacheForm
         DEF Types, TypeOK, ObjectTypes, Busy, Over, row, Stages
  <2>. QED
    BY <2>3, <2>4
<1>3. ASSUME NEW r \in Requests, Save(r) PROVE Types'
  <2>1. stage[r] \notin Over /\ Cache(r)
    BY <1>3 DEF Save, Over
  <2>. QED
    BY <1>3, <2>1, CacheForm DEF Save, Types, TypeOK, Busy, Over, row, Stages
<1>4. ASSUME NEW r \in Requests, Snapshot(r) \/ SnapshotUnanswered(r) PROVE Types'
  <2>1. stage[r] = "snapshot" /\ stage[r] \notin Over
    BY <1>4 DEF Snapshot, SnapshotUnanswered, Over
  <2>2. saved' \subseteq Edits /\ late' \subseteq SUBSET Edits /\ calm' \in BOOLEAN
    <3>1. object[holds[r]].work \in SUBSET Edits
      BY <2>1, BusyObject
    <3>2. CASE Snapshot(r)
      BY <3>1, <3>2 DEF Snapshot, Store, Types, TypeOK
    <3>3. CASE SnapshotUnanswered(r)
      BY <3>1, <3>3 DEF SnapshotUnanswered, Delay, Types, TypeOK
    <3>. QED
      BY <1>4, <3>2, <3>3
  <2>3. UNCHANGED <<shared, status, result, overdue, redis, given, invalidated>>
    BY <1>4 DEF Snapshot, SnapshotUnanswered
  <2>4. Proceed(r)
    BY <1>4 DEF Snapshot, SnapshotUnanswered
  <2>5. CASE stage' = [stage EXCEPT ![r] = "save"] /\ UNCHANGED <<at, holds, hot, object>>
    BY <2>1, <2>2, <2>3, <2>5 DEF Types, TypeOK, Busy, Over, Stages
  <2>6. CASE End(r, "answered") /\ UNCHANGED hot /\ Collect(object)
    <3>1. ObjectTypes'
      BY <2>6, EndTypes, CollectTypes DEF Types, TypeOK, Over
    <3>. QED
      BY <2>2, <2>3, <2>6, <3>1, EndTypes DEF Types, TypeOK, ObjectTypes, Busy, Over
  <2>. QED
    BY <2>4, <2>5, <2>6 DEF Proceed
<1>5. CASE LateSnapshot
  BY <1>5 DEF LateSnapshot, Store, Types, TypeOK, Busy, request
<1>6. ASSUME NEW r \in Requests, Judge(r) PROVE Types'
  <2>1. stage[r] \notin Over /\ stage[r] = "handle"
    BY <1>6 DEF Judge, Over
  <2>2. Cache(r) /\ r \in Finishes /\ UNCHANGED <<shared, row, invalidated>>
    BY <1>6 DEF Judge
  <2>3. CASE object[holds[r]].status \in Ended
    <3>1. \E how \in {"answered", "refused"} : End(r, how)
      BY <1>6, <2>3 DEF Judge
    <3>2. Collect(object) /\ (given' = [given EXCEPT ![r] = result] \/ given' = given)
      BY <1>6, <2>3 DEF Judge
    <3>3. ObjectTypes'
      BY <2>1, <2>2, <3>1, <3>2, CacheForm, EndTypes, CollectTypes DEF Types, TypeOK, Over
    <3>4. given' \in [Requests -> (SUBSET Edits) \cup {None}]
          /\ \A q \in Requests : q # r => given'[q] = given[q]
      BY <3>2 DEF Types, TypeOK
    <3>. QED
      BY <2>1, <2>2, <3>1, <3>3, <3>4, CacheForm, EndTypes
         DEF Types, TypeOK, ObjectTypes, Busy, Over, row
  <2>4. CASE object[holds[r]].status \notin Ended
    <3>1. /\ given' = [given EXCEPT ![r] = object[holds[r]].work]
          /\ stage' = [stage EXCEPT ![r] = "finish"]
          /\ UNCHANGED <<at, holds, object>>
      BY <1>6, <2>4 DEF Judge
    <3>. QED
      BY <2>1, <2>2, <3>1, CacheForm, BusyObject
         DEF Types, TypeOK, ObjectTypes, Busy, Over, row, Stages
  <2>. QED
    BY <2>3, <2>4
<1>7. ASSUME NEW r \in Requests, Finish(r) \/ FinishUnanswered(r) PROVE Types'
  <2>1. stage[r] \notin Over /\ stage[r] = "finish"
    BY <1>7 DEF Finish, FinishUnanswered, Over
  <2>2. /\ status' \in Statuses /\ result' \in (SUBSET Edits) \cup {None}
        /\ calm' \in BOOLEAN
        /\ UNCHANGED <<shared, saved, overdue, late, redis, invalidated>>
    <3>1. given[r] \in SUBSET Edits
      BY <2>1 DEF Types, TypeOK
    <3>2. StoreResult(r) \/ UNCHANGED <<result, status>>
      BY <1>7 DEF Finish, FinishUnanswered
    <3>3. status' \in Statuses /\ result' \in (SUBSET Edits) \cup {None}
      BY <3>1, <3>2, VerdictType DEF StoreResult, Types, TypeOK, Statuses
    <3>4. calm' = calm \/ calm' = FALSE
      BY <1>7 DEF Finish, FinishUnanswered
    <3>. QED
      BY <1>7, <3>3, <3>4 DEF Finish, FinishUnanswered, Types, TypeOK
  <2>3. CASE Finish(r) /\ result' # None
    <3>1. /\ given' = [given EXCEPT ![r] = result']
          /\ stage' = [stage EXCEPT ![r] = "close"]
          /\ UNCHANGED <<at, holds, hot, object>>
      BY <2>3 DEF Finish
    <3>. QED
      BY <2>1, <2>2, <2>3, <3>1 DEF Types, TypeOK, Busy, Over, Stages
  <2>4. CASE ~(Finish(r) /\ result' # None)
    <3>1. \E how \in {"refused", "new"} : End(r, how)
      BY <1>7, <2>4 DEF Finish, FinishUnanswered
    <3>2. given' = [given EXCEPT ![r] = None] /\ UNCHANGED hot /\ Collect(object)
      BY <1>7, <2>4 DEF Finish, FinishUnanswered
    <3>3. ObjectTypes'
      BY <3>1, <3>2, EndTypes, CollectTypes DEF Types, TypeOK, Over
    <3>. QED
      BY <2>2, <3>1, <3>2, <3>3, EndTypes DEF Types, TypeOK, ObjectTypes, Busy, Over
  <2>. QED
    BY <2>3, <2>4
<1>8. ASSUME NEW r \in Requests, Close(r) PROVE Types'
  <2>1. stage[r] \notin Over /\ stage[r] = "close"
    BY <1>8 DEF Close, Over
  <2>. DEFINE e == Envelope(Verdict(given[r]), object[holds[r]].work)
              closed == [object EXCEPT ![holds[r]] = e]
  <2>2. /\ hot' = [hot EXCEPT ![at[r]] = holds[r]]
        /\ redis' \in {redis, None, closed[holds[r]]} /\ calm' \in BOOLEAN
        /\ End(r, "answered") /\ Collect(closed)
        /\ UNCHANGED <<shared, row, given, invalidated>>
    BY <1>8 DEF Close, Types, TypeOK
  <2>3. e \in Envelopes
    BY <2>1, BusyObject, EnvelopeType, VerdictType DEF Statuses
  <2>. HIDE DEF e
  <2>4. /\ closed \in [Requests -> Envelopes \cup {None}] /\ closed[holds[r]] = e
        /\ \A q \in Requests : object[q] # None => closed[q] # None
    BY <2>1, <2>3, BusyObject DEF Types, TypeOK
  <2>. HIDE DEF closed
  <2>5. /\ hot' \in [Replicas -> Requests \cup {None}]
        /\ \A q \in Replicas : hot'[q] # None => object[hot'[q]] # None /\ hot'[q] \in Requests
    BY <2>1, <2>2, BusyObject DEF Types, TypeOK
  <2>6. ObjectTypes'
    <3>1. \A q \in Requests : holds'[q] # None => closed[holds'[q]] # None
      BY <2>2, <2>4, EndTypes DEF Types, TypeOK, Over
    <3>2. \A q \in Replicas : hot'[q] # None => closed[hot'[q]] # None
      BY <2>4, <2>5
    <3>. QED
      BY <2>2, <2>4, <2>5, <3>1, <3>2, EndTypes, CollectTypes DEF Over
  <2>. QED
    BY <2>2, <2>3, <2>4, <2>6, EndTypes DEF Types, TypeOK, ObjectTypes, Busy, Over, row
<1>9. CASE DeadlinePasses \/ Sweep \/ Cancel \/ RedisLoses
  BY <1>9 DEF DeadlinePasses, Sweep, Expire, Cancel, RedisLoses, Types, TypeOK, Busy, request,
              row, Statuses
<1>10. ASSUME NEW p \in Replicas, Invalidate(p) PROVE Types'
  <2>1. /\ hot' = [hot EXCEPT ![p] = None] /\ Collect(object)
        /\ redis' = IF redis = None THEN None ELSE Envelope("cancelled", redis.work)
        /\ invalidated' = TRUE /\ calm' \in BOOLEAN
        /\ UNCHANGED <<shared, row, request>>
    BY <1>10 DEF Invalidate, CancelSessions, CancelById
  <2>2. redis' \in Envelopes \cup {None}
    BY <2>1, EnvelopeType DEF Types, TypeOK, Envelopes, Statuses
  <2>3. ObjectTypes'
    BY <2>1, CollectTypes DEF Types, TypeOK, request
  <2>. QED
    BY <2>1, <2>2, <2>3 DEF Types, TypeOK, ObjectTypes, Busy, request, row
<1>11. ASSUME NEW p \in Replicas, Crash(p) PROVE Types'
  <2>. DEFINE lost == {r \in Busy : at[r] = p}
              sent == {r \in lost : stage[r] = "snapshot"}
              works == {object[holds[r]].work : r \in sent}
  <2>1. /\ hot' = [hot EXCEPT ![p] = None]
        /\ stage' = [r \in Requests |-> IF r \in lost THEN "refused" ELSE stage[r]]
        /\ at' = [r \in Requests |-> IF r \in lost THEN None ELSE at[r]]
        /\ holds' = [r \in Requests |-> IF r \in lost THEN None ELSE holds[r]]
        /\ Delay(works) /\ calm' \in BOOLEAN /\ Collect(object)
        /\ given' = [r \in Requests |-> IF r \in lost THEN None ELSE given[r]]
        /\ UNCHANGED <<shared, status, saved, result, overdue, redis, invalidated>>
    BY <1>11 DEF Crash
  <2>2. works \subseteq SUBSET Edits
    BY BusyObject DEF Busy
  <2>3. late' \subseteq SUBSET Edits
    BY <2>1, <2>2 DEF Delay, Types, TypeOK
  <2>. HIDE DEF lost
  <2>4. ObjectTypes'
    BY <2>1, CollectTypes DEF Types, TypeOK
  <2>. QED
    BY <2>1, <2>3, <2>4 DEF Types, TypeOK, ObjectTypes, Busy, Over, Stages
<1>12. CASE UNCHANGED vars
  BY <1>12 DEF vars, row, request, Types, TypeOK, Busy
<1>. QED
  BY <1>1, <1>2, <1>3, <1>4, <1>5, <1>6, <1>7, <1>8, <1>9, <1>10, <1>11, <1>12 DEF Next, Enters

-----------------------------------------------------------------------------
(* What is always true *)

(* The guarded statements of the database leave a session alone that has   *)
(* its final status.                                                       *)
LEMMA StepFreezes ==
    ASSUME Types, [Next]_vars
    PROVE  status # "active" => UNCHANGED <<status, saved, result>>
<1>1. ASSUME NEW r \in Requests, NEW p \in Replicas, Enters(r, p)
      PROVE  status # "active" => UNCHANGED <<status, saved, result>>
  <2>1. UNCHANGED <<saved, result>>
    BY <1>1, EntryForm
  <2>2. status # "active" => status' = status
    BY <1>1, EntryForm DEF Admit, Expire
  <2>. QED
    BY <2>1, <2>2
<1>. QED
  BY <1>1 DEF Next, Enters, Mutate, Save, Snapshot, SnapshotUnanswered, Store, Judge, Finish,
     FinishUnanswered, StoreResult, Close, LateSnapshot, DeadlinePasses, Sweep, Expire, Cancel,
     RedisLoses, Invalidate, Crash, vars, row

LEMMA InitTruth == Init => Truth
  BY DEF Init, Truth, Closed, Requests

(* No new envelope claims a result.                                        *)
NoNewClaim ==
    /\ redis' # None /\ redis'.status \in Closed =>
         \/ result # None
         \/ redis # None /\ redis.status \in Closed
         \/ \E q \in Requests : object[q] # None /\ object[q].status \in Closed
    /\ \A r \in Requests : object'[r] # None /\ object'[r].status \in Closed =>
         \/ result # None
         \/ redis # None /\ redis.status \in Closed
         \/ \E q \in Requests : object[q] # None /\ object[q].status \in Closed

(* A step that stores nothing, claims nothing new and answers no finish.   *)
LEMMA TruthCarried ==
    ASSUME Types, Truth, NoNewClaim, UNCHANGED result,
           status' \in Closed <=> status \in Closed,
           \A r \in Finishes : stage'[r] \in {"close", "answered"} =>
             stage[r] \in {"close", "answered"} /\ given'[r] = given[r],
           invalidated' => status' = "cancelled"
    PROVE  Truth'
  BY DEF Truth, NoNewClaim

(* Objects are collected, never changed by it.                             *)
LEMMA CollectKeeps ==
    ASSUME NEW objects, Collect(objects)
    PROVE  /\ \A q \in Requests : object'[q] \in {objects[q], None}
           /\ \A r \in Requests : holds'[r] \in Requests =>
                object'[holds'[r]] = objects[holds'[r]]
  BY DEF Collect

LEMMA CacheClaims ==
    ASSUME Types, NEW r \in Requests, stage[r] \notin Over, Cache(r)
    PROVE  redis' # None /\ redis'.status \in Closed =>
             \/ redis # None /\ redis.status \in Closed
             \/ \E q \in Requests : object[q] # None /\ object[q].status \in Closed
  BY CacheForm, BusyObject

LEMMA TruthKept == Types /\ Truth /\ [Next]_vars => Truth'
<1>. SUFFICES ASSUME Types, Truth, [Next]_vars PROVE Truth'
  OBVIOUS
<1>. USE DEF Closed
<1>a. invalidated => status' = "cancelled"
  BY StepFreezes DEF Truth
<1>1. ASSUME NEW r \in Requests, NEW p \in Replicas, Enters(r, p) PROVE Truth'
  <2>1. stage[r] = "new" /\ UNCHANGED <<result, given, invalidated>>
    BY <1>1, EntryForm
  <2>2. CASE End(r, "refused") /\ UNCHANGED <<status, redis, hot, object>>
    BY <1>a, <2>1, <2>2, TruthCarried DEF NoNewClaim, End, Types, Requests
  <2>3. CASE ~(End(r, "refused") /\ UNCHANGED <<status, redis, hot, object>>)
    <3>1. PICK owner \in Requests, env \in Envelopes, key \in {redis, None} :
            Admit(r, p, owner, env, key) /\ Source(p, env)
      BY <1>1, <2>3, EntryForm
    <3>2. env.status \in Closed =>
            \/ result # None
            \/ redis # None /\ redis.status \in Closed
            \/ \E q \in Requests : object[q] # None /\ object[q].status \in Closed
      BY <3>1 DEF Source, Envelope, Types, TypeOK, Truth
    <3>3. \A q \in Requests : object'[q] \in {object[q], None, env}
      <4>. DEFINE objects == [object EXCEPT ![owner] = env]
      <4>1. Collect(object) \/ Collect(objects)
        BY <3>1 DEF Admit
      <4>2. \A q \in Requests : objects[q] \in {object[q], env}
        BY DEF Types, TypeOK
      <4>. QED
        BY <4>1, <4>2, CollectKeeps
    <3>4. redis' \in {redis, None}
      BY <3>1 DEF Admit
    <3>5. NoNewClaim
      BY <3>2, <3>3, <3>4 DEF NoNewClaim
    <3>6. status' = status \/ (status = "active" /\ status' = "expired")
      BY <3>1 DEF Admit, Expire
    <3>7. stage' = [stage EXCEPT ![r] = "refused"] \/ stage' = [stage EXCEPT ![r] = "handle"]
      BY <3>1 DEF Admit, End
    <3>. QED
      BY <1>a, <2>1, <3>5, <3>6, <3>7, TruthCarried DEF Types, Requests
  <2>. QED
    BY <2>2, <2>3
<1>2. ASSUME NEW r \in Requests, Mutate(r) PROVE Truth'
  <2>1. stage[r] \notin Over /\ Cache(r) /\ r \in Edits /\ UNCHANGED <<row, given, invalidated>>
    BY <1>2 DEF Mutate, Over
  <2>2. \A q \in Requests : object'[q] # None /\ object'[q].status \in Closed =>
          object[q] # None /\ object[q].status \in Closed
    <3>1. CASE object[holds[r]].status \in Ended
      BY <1>2, <3>1, CollectKeeps DEF Mutate
    <3>2. CASE object[holds[r]].status \notin Ended
      BY <1>2, <2>1, <3>2, BusyObject, EnvelopeType DEF Mutate, Types, TypeOK, Envelope, Ended, Statuses
    <3>. QED
      BY <3>1, <3>2
  <2>3. NoNewClaim
    BY <2>1, <2>2, CacheClaims DEF NoNewClaim
  <2>4. stage' = [stage EXCEPT ![r] = "refused"] \/ stage' = [stage EXCEPT ![r] = "save"]
    BY <1>2 DEF Mutate, End
  <2>. QED
    BY <1>a, <2>1, <2>3, <2>4, TruthCarried DEF row, Types, Requests
<1>3. ASSUME NEW r \in Requests, Save(r) PROVE Truth'
  <2>1. stage[r] \notin Over /\ Cache(r) /\ UNCHANGED <<row, object, given, invalidated>>
    BY <1>3 DEF Save, Over
  <2>2. NoNewClaim
    BY <2>1, CacheClaims DEF NoNewClaim
  <2>. QED
    BY <1>3, <1>a, <2>1, <2>2, TruthCarried DEF Save, row, Types, Requests
<1>4. ASSUME NEW r \in Requests, Snapshot(r) \/ SnapshotUnanswered(r) PROVE Truth'
  <2>1. /\ stage[r] = "snapshot" /\ r \in Edits /\ Proceed(r)
        /\ UNCHANGED <<status, result, redis, given, invalidated>>
    BY <1>4 DEF Snapshot, SnapshotUnanswered, Types
  <2>2. NoNewClaim
    BY <2>1, CollectKeeps DEF NoNewClaim, Proceed
  <2>3. stage' = [stage EXCEPT ![r] = "save"] \/ stage' = [stage EXCEPT ![r] = "answered"]
    BY <2>1 DEF Proceed, End
  <2>4. r \notin Finishes
    BY <2>1
  <2>. QED
    BY <1>a, <2>1, <2>2, <2>3, <2>4, TruthCarried DEF Types, Requests
<1>5. ASSUME NEW r \in Requests, Judge(r) PROVE Truth'
  <2>1. /\ stage[r] \notin Over /\ stage[r] = "handle" /\ Cache(r) /\ r \in Finishes
        /\ UNCHANGED <<row, invalidated>>
    BY <1>5 DEF Judge, Over
  <2>2. \A q \in Requests : object'[q] \in {object[q], None}
    BY <1>5, CollectKeeps DEF Judge
  <2>3. NoNewClaim
    BY <2>1, <2>2, CacheClaims DEF NoNewClaim
  <2>4. CASE object[holds[r]].status \in Closed
    <3>1. result # None
      BY <2>1, <2>4, BusyObject DEF Truth, Types, TypeOK
    <3>2. given' = [given EXCEPT ![r] = result] /\ stage' = [stage EXCEPT ![r] = "answered"]
      BY <1>5, <2>1, <2>4 DEF Judge, End, Ended, Statuses
    <3>3. \A q \in Finishes : stage'[q] \in {"close", "answered"} =>
            given'[q] = result /\ result # None
      BY <3>1, <3>2 DEF Truth, Types, TypeOK, Requests
    <3>. QED
      BY <1>a, <2>1, <2>3, <3>3 DEF Truth, NoNewClaim, row
  <2>5. CASE object[holds[r]].status \notin Closed
    <3>1. \/ stage' = [stage EXCEPT ![r] = "refused"] /\ given' = given
          \/ /\ stage' = [stage EXCEPT ![r] = "finish"]
             /\ given' = [given EXCEPT ![r] = object[holds[r]].work]
      BY <1>5, <2>5 DEF Judge, End
    <3>. QED
      BY <1>a, <2>1, <2>3, <3>1, TruthCarried DEF row, Types, TypeOK, Requests
  <2>. QED
    BY <2>4, <2>5
<1>6. ASSUME NEW r \in Requests, Finish(r) \/ FinishUnanswered(r) PROVE Truth'
  <2>1. /\ stage[r] = "finish" /\ r \in Finishes /\ given[r] # None
        /\ UNCHANGED <<redis, invalidated>>
    BY <1>6 DEF Finish, FinishUnanswered, Types
  <2>2. \/ UNCHANGED <<status, result>>
        \/ /\ status = "active" /\ status' \in Closed
           /\ result = None /\ result' = given[r]
    BY <1>6, VerdictType DEF Finish, FinishUnanswered, StoreResult, Truth
  <2>3. \A q \in Requests : object'[q] \in {object[q], None}
    BY <1>6, CollectKeeps DEF Finish, FinishUnanswered
  <2>4. result # None => result' = result
    BY <2>2
  <2>5. \/ /\ stage' = [stage EXCEPT ![r] = "close"] /\ result' # None
           /\ given' = [given EXCEPT ![r] = result']
        \/ /\ given' = [given EXCEPT ![r] = None]
           /\ stage' = [stage EXCEPT ![r] = "refused"] \/ stage' = [stage EXCEPT ![r] = "new"]
    BY <1>6 DEF Finish, FinishUnanswered, End
  <2>6. \A q \in Finishes : stage'[q] \in {"close", "answered"} =>
          given'[q] = result' /\ result' # None
    BY <2>1, <2>4, <2>5 DEF Truth, Types, TypeOK, Requests
  <2>7. status' \in Closed <=> result' # None
    BY <2>1, <2>2 DEF Truth
  <2>. QED
    BY <1>a, <2>1, <2>3, <2>4, <2>6, <2>7 DEF Truth
<1>7. ASSUME NEW r \in Requests, Close(r) PROVE Truth'
  <2>1. /\ stage[r] = "close" /\ stage[r] \notin Over /\ r \in Finishes
        /\ UNCHANGED <<row, given, invalidated>>
    BY <1>7 DEF Close, Types, Over
  <2>2. result # None
    BY <2>1 DEF Truth
  <2>3. stage' = [stage EXCEPT ![r] = "answered"]
    BY <1>7 DEF Close, End
  <2>. QED
    BY <1>a, <2>1, <2>2, <2>3 DEF Truth, row, Types, Requests
<1>8. CASE LateSnapshot \/ DeadlinePasses \/ Sweep \/ Cancel \/ RedisLoses \/ UNCHANGED vars
  <2>1. /\ UNCHANGED <<result, object, request, invalidated>>
        /\ redis' \in {redis, None}
        /\ status' = status \/ (status = "active" /\ status' \in {"expired", "cancelled"})
    BY <1>8 DEF LateSnapshot, DeadlinePasses, Sweep, Expire, Cancel, RedisLoses, vars, row
  <2>. QED
    BY <1>a, <2>1, TruthCarried DEF NoNewClaim, request
<1>9. ASSUME NEW p \in Replicas, Invalidate(p) PROVE Truth'
  <2>1. /\ status = "cancelled" /\ Collect(object) /\ UNCHANGED <<row, request>>
        /\ redis' = IF redis = None THEN None ELSE Envelope("cancelled", redis.work)
    BY <1>9 DEF Invalidate, CancelSessions, CancelById
  <2>2. redis' = None \/ redis'.status = "cancelled"
    BY <2>1 DEF Envelope
  <2>3. NoNewClaim
    BY <2>1, <2>2, CollectKeeps DEF NoNewClaim
  <2>. QED
    BY <2>1, <2>3, TruthCarried DEF request, row
<1>10. ASSUME NEW p \in Replicas, Crash(p) PROVE Truth'
  <2>1. /\ \A r \in Requests : stage'[r] \in {"refused", stage[r]}
        /\ \A r \in Requests : stage'[r] \in {"close", "answered"} => given'[r] = given[r]
        /\ Collect(object) /\ UNCHANGED <<status, result, redis, invalidated>>
    BY <1>10 DEF Crash, Busy, Over
  <2>2. NoNewClaim
    BY <2>1, CollectKeeps DEF NoNewClaim
  <2>. QED
    BY <1>a, <2>1, <2>2, TruthCarried DEF Requests
<1>. QED
  BY <1>1, <1>2, <1>3, <1>4, <1>5, <1>6, <1>7, <1>8, <1>9, <1>10 DEF Next, Enters

-----------------------------------------------------------------------------
(* Sequential requests *)

(* Both parts of what holds while the requests come one at a time.         *)
Sequential == calm => InTurn /\ (shared => 
    /\ status = "active" => Acknowledged \subseteq saved
    /\ redis # None /\ status = "active" => Acknowledged \subseteq redis.work
    /\ result # None => Acknowledged \subseteq result)

LEMMA InitSequential == Init => Sequential
  BY DEF Init, Sequential, InTurn, Acknowledged, Busy, Over, Requests

(* A request that enters finds everything that was answered before.        *)
LEMMA EnterSequential ==
    ASSUME Types, Truth, Sequential, NEW r \in Requests, NEW p \in Replicas, Enters(r, p)
    PROVE  Sequential'
<1>. SUFFICES ASSUME calm' PROVE Sequential'
  BY DEF Sequential
<1>1. /\ stage[r] = "new" /\ calm /\ Busy = {}
      /\ UNCHANGED <<shared, saved, result, overdue, late, given, invalidated>>
  BY EntryForm
<1>2. /\ InTurn
      /\ shared =>
          /\ status = "active" => Acknowledged \subseteq saved
          /\ redis # None /\ status = "active" => Acknowledged \subseteq redis.work
          /\ result # None => Acknowledged \subseteq result
  BY <1>1 DEF Sequential
<1>3. ASSUME stage' = [stage EXCEPT ![r] = "refused"], redis' \in {redis, None},
             status' = status \/ (status = "active" /\ status' = "expired")
      PROVE  Sequential'
  <2>1. Acknowledged' = Acknowledged
    BY <1>1, <1>3 DEF Acknowledged, Types, Requests
  <2>2. Busy' = {}
    BY <1>1, <1>3 DEF Busy, Over, Types
  <2>3. InTurn'
    BY <1>1, <1>2, <1>3, <2>2 DEF InTurn
  <2>. QED
    BY <1>1, <1>2, <1>3, <2>1, <2>3 DEF Sequential
<1>4. CASE End(r, "refused") /\ UNCHANGED <<status, redis, hot, object>>
  BY <1>3, <1>4 DEF End
<1>5. CASE ~(End(r, "refused") /\ UNCHANGED <<status, redis, hot, object>>)
  <2>1. PICK owner \in Requests, env \in Envelopes, key \in {redis, None} :
          Admit(r, p, owner, env, key) /\ CalmSource(env)
    BY <1>5, EntryForm
  <2>2. CASE env.status = "cancelled" \/ overdue
    BY <1>3, <2>1, <2>2 DEF Admit, End, Expire
  <2>3. CASE ~(env.status = "cancelled" \/ overdue)
    <3>. DEFINE objects == [object EXCEPT ![owner] = env]
    <3>1. /\ holds' = [holds EXCEPT ![r] = owner]
          /\ stage' = [stage EXCEPT ![r] = "handle"]
          /\ redis' = key /\ status' = status
          /\ Collect(objects)
      BY <2>1, <2>3 DEF Admit
    <3>2. holds'[r] = owner /\ objects[owner] = env
      BY <3>1 DEF Types, TypeOK
    <3>3. object'[holds'[r]] = env
      <4>. HIDE DEF objects
      <4>1. object'[holds'[r]] = objects[holds'[r]]
        BY <3>1, <3>2, CollectKeeps
      <4>. QED
        BY <3>2, <4>1
    <3>4. Busy' = {r} /\ stage'[r] = "handle"
      BY <1>1, <3>1 DEF Busy, Over, Types
    <3>5. Acknowledged' = Acknowledged
      BY <1>1, <3>1 DEF Acknowledged, Types, Requests
    <3>6. ~invalidated
      <4>1. SUFFICES ASSUME invalidated PROVE FALSE
        OBVIOUS
      <4>2. status = "cancelled" /\ (redis # None => redis.status = "cancelled")
        BY <1>2, <4>1 DEF Truth, InTurn
      <4>. QED
        BY <2>1, <2>3, <4>2 DEF CalmSource, Envelope
    <3>7. shared => Follows(r)'
      <4>1. shared /\ status = "active" => Acknowledged \subseteq env.work
        BY <1>2, <2>1 DEF CalmSource, Envelope
      <4>2. shared /\ result # None => env.status \in Ended
        BY <1>1, <1>2, <2>1 DEF CalmSource, Envelope, InTurn, Truth, Closed, Ended, Statuses
      <4>. QED
        BY <1>1, <3>1, <3>3, <3>4, <3>5, <4>1, <4>2 DEF Follows
    <3>8. InTurn'
      BY <1>1, <1>2, <3>1, <3>4, <3>6, <3>7 DEF InTurn
    <3>. QED
      BY <1>1, <1>2, <3>1, <3>5, <3>8 DEF Sequential
  <2>. QED
    BY <2>2, <2>3
<1>. QED
  BY <1>4, <1>5

(* The request at work is the only one, and follows those before it.       *)
LEMMA WorkerFollows ==
    ASSUME Types, Sequential, calm, NEW r \in Requests, stage[r] \notin Over
    PROVE  /\ InTurn /\ Busy = {r} /\ ~invalidated /\ late = {}
           /\ shared =>
                /\ Follows(r)
                /\ status = "active" => Acknowledged \subseteq saved
                /\ redis # None /\ status = "active" => Acknowledged \subseteq redis.work
                /\ result # None => Acknowledged \subseteq result
                /\ result # None => redis = None \/ redis.status \in Ended \/ stage[r] = "close"
<1>1. r \in Busy
  BY DEF Busy
<1>. QED
  BY <1>1 DEF Sequential, InTurn

(* It makes a step and works on. *)
LEMMA WorkerGoesOn ==
    ASSUME NEW r \in Requests, Types, stage[r] \notin Over, Busy = {r},
           late' = {}, ~invalidated', NEW next \in Stages \ Over,
           stage' = [stage EXCEPT ![r] = next],
           shared' =>
                /\ Follows(r)'
                /\ status' = "active" => Acknowledged \subseteq saved'
                /\ redis' # None /\ status' = "active" => Acknowledged \subseteq redis'.work
                /\ result' # None => Acknowledged \subseteq result'
                /\ result' # None => redis' = None \/ redis'.status \in Ended \/ next = "close"
    PROVE  Sequential'
<1>1. Acknowledged' = Acknowledged
  BY DEF Acknowledged, Over, Types, Requests
<1>2. Busy' = {r} /\ stage'[r] = next
  BY DEF Busy, Types
<1>3. InTurn'
  BY <1>2 DEF InTurn
<1>. QED
  BY <1>1, <1>3 DEF Sequential

(* Or it is over, and nobody is at work. *)
LEMMA WorkerEnds ==
    ASSUME NEW r \in Requests, Types, stage[r] \notin Over, Busy = {r},
           late' = {}, ~invalidated', NEW how \in Over,
           stage' = [stage EXCEPT ![r] = how],
           NEW known, Acknowledged' = known,
           shared' =>
                /\ status' = "active" => known \subseteq saved'
                /\ redis' # None /\ status' = "active" => known \subseteq redis'.work
                /\ result' # None => known \subseteq result'
                /\ result' # None => redis' = None \/ redis'.status \in Ended
    PROVE  Sequential'
<1>1. Busy' = {}
  BY DEF Busy, Types
<1>2. InTurn'
  BY <1>1 DEF InTurn
<1>. QED
  BY <1>2 DEF Sequential

LEMMA AnsweredNow ==
    ASSUME Types, NEW r \in Requests, NEW how \in Over, stage[r] \notin Over,
           stage' = [stage EXCEPT ![r] = how]
    PROVE  Acknowledged' = IF how = "answered" /\ r \in Edits THEN Acknowledged \cup {r}
                                                           ELSE Acknowledged
  BY DEF Acknowledged, Over, Types, Requests

LEMMA MutateSequential ==
    ASSUME Types, Truth, Sequential, NEW r \in Requests, Mutate(r)
    PROVE  Sequential'
<1>. SUFFICES ASSUME calm' PROVE Sequential'
  BY DEF Sequential
<1>1. /\ stage[r] = "handle" /\ stage[r] \notin Over /\ r \in Edits /\ Cache(r)
      /\ UNCHANGED <<shared, row, given, invalidated>>
  BY DEF Mutate, Over
<1>2. calm /\ (shared => redis' = object[holds[r]])
  BY <1>1, CacheForm
<1>3. object[holds[r]] \in Envelopes /\ holds[r] \in Requests
  BY <1>1, BusyObject
<1>4. CASE object[holds[r]].status \in Ended
  <2>1. stage' = [stage EXCEPT ![r] = "refused"]
    BY <1>4 DEF Mutate, End
  <2>2. Acknowledged' = Acknowledged
    BY <1>1, <2>1, AnsweredNow DEF Over
  <2>. QED
    BY <1>1, <1>2, <1>4, <2>1, <2>2, WorkerFollows, WorkerEnds DEF Follows, row, Over
<1>5. CASE object[holds[r]].status \notin Ended
  <2>. DEFINE e == Envelope(object[holds[r]].status, object[holds[r]].work \cup {r})
  <2>1. /\ object' = [object EXCEPT ![holds[r]] = e]
        /\ stage' = [stage EXCEPT ![r] = "save"]
        /\ UNCHANGED <<at, holds>>
    BY <1>5 DEF Mutate
  <2>2. e.work = object[holds[r]].work \cup {r}
    BY DEF Envelope
  <2>. HIDE DEF e
  <2>3. object'[holds'[r]] = e
    BY <1>3, <2>1 DEF Types, TypeOK
  <2>4. shared => result = None
    BY <1>1, <1>2, <1>5, WorkerFollows DEF Follows
  <2>5. Acknowledged' = Acknowledged /\ stage'[r] = "save"
    BY <1>1, <2>1 DEF Acknowledged, Types, Requests
  <2>6. shared => Follows(r)'
    BY <1>1, <1>2, <2>2, <2>3, <2>4, <2>5, WorkerFollows DEF Follows, row
  <2>. QED
    BY <1>1, <1>2, <2>1, <2>4, <2>6, WorkerFollows, WorkerGoesOn DEF Follows, row, Stages, Over
<1>. QED
  BY <1>4, <1>5

LEMMA SaveSequential ==
    ASSUME Types, Truth, Sequential, NEW r \in Requests, Save(r)
    PROVE  Sequential'
<1>. SUFFICES ASSUME calm' PROVE Sequential'
  BY DEF Sequential
<1>1. /\ stage[r] = "save" /\ stage[r] \notin Over /\ Cache(r)
      /\ stage' = [stage EXCEPT ![r] = "snapshot"]
      /\ UNCHANGED <<shared, row, object, at, holds, given, invalidated>>
  BY DEF Save, Over
<1>2. calm /\ (shared => redis' = object[holds[r]])
  BY <1>1, CacheForm
<1>3. shared => result = None
  BY <1>1, <1>2, WorkerFollows DEF Follows
<1>4. Acknowledged' = Acknowledged /\ stage'[r] = "snapshot"
  BY <1>1 DEF Acknowledged, Types, Requests
<1>5. shared => Follows(r)'
  BY <1>1, <1>2, <1>3, <1>4, WorkerFollows DEF Follows, row
<1>. QED
  BY <1>1, <1>2, <1>3, <1>5, WorkerFollows, WorkerGoesOn DEF Follows, row, Stages, Over

LEMMA SnapshotSequential ==
    ASSUME Types, Truth, Sequential, NEW r \in Requests, Snapshot(r)
    PROVE  Sequential'
<1>. SUFFICES ASSUME calm' PROVE Sequential'
  BY DEF Sequential
<1>1. /\ stage[r] = "snapshot" /\ stage[r] \notin Over /\ r \in Edits
      /\ Store(object[holds[r]].work) /\ Proceed(r)
      /\ UNCHANGED <<shared, status, result, overdue, late, redis, given, invalidated, calm>>
  BY DEF Snapshot, Over, Types
<1>2. calm
  BY <1>1
<1>3. shared => result = None
  BY <1>1, <1>2, WorkerFollows DEF Follows
<1>4. shared /\ status = "active" =>
        /\ Acknowledged \cup {r} \subseteq saved'
        /\ redis # None => Acknowledged \cup {r} \subseteq redis.work
  BY <1>1, <1>2, WorkerFollows DEF Follows, Store
<1>5. CASE stage' = [stage EXCEPT ![r] = "save"] /\ UNCHANGED <<at, holds, hot, object>>
  <2>1. Acknowledged' = Acknowledged /\ stage'[r] = "save"
    BY <1>1, <1>5 DEF Acknowledged, Types, Requests
  <2>2. shared => Follows(r)'
    BY <1>1, <1>2, <1>3, <1>5, <2>1, WorkerFollows DEF Follows
  <2>. QED
    BY <1>1, <1>2, <1>3, <1>4, <1>5, <2>2, WorkerFollows, WorkerGoesOn DEF Stages, Over
<1>6. CASE End(r, "answered") /\ UNCHANGED hot /\ Collect(object)
  <2>1. stage' = [stage EXCEPT ![r] = "answered"]
    BY <1>6 DEF End
  <2>2. Acknowledged' = Acknowledged \cup {r}
    BY <1>1, <2>1, AnsweredNow DEF Over
  <2>. QED
    BY <1>1, <1>2, <1>3, <1>4, <2>1, <2>2, WorkerFollows, WorkerEnds DEF Over
<1>. QED
  BY <1>1, <1>5, <1>6 DEF Proceed

LEMMA JudgeSequential ==
    ASSUME Types, Truth, Sequential, NEW r \in Requests, Judge(r)
    PROVE  Sequential'
<1>. SUFFICES ASSUME calm' PROVE Sequential'
  BY DEF Sequential
<1>1. /\ stage[r] = "handle" /\ stage[r] \notin Over /\ r \in Finishes /\ Cache(r)
      /\ UNCHANGED <<shared, row, invalidated>>
  BY DEF Judge, Over
<1>2. calm /\ (shared => redis' = object[holds[r]])
  BY <1>1, CacheForm
<1>3. CASE object[holds[r]].status \in Ended
  <2>1. PICK how \in {"answered", "refused"} : stage' = [stage EXCEPT ![r] = how]
    BY <1>3 DEF Judge, End
  <2>2. Acknowledged' = Acknowledged
    BY <1>1, <2>1, AnsweredNow DEF Over
  <2>. QED
    BY <1>1, <1>2, <1>3, <2>1, <2>2, WorkerFollows, WorkerEnds DEF Follows, row, Over
<1>4. CASE object[holds[r]].status \notin Ended
  <2>1. /\ given' = [given EXCEPT ![r] = object[holds[r]].work]
        /\ stage' = [stage EXCEPT ![r] = "finish"]
        /\ UNCHANGED <<at, holds, object>>
    BY <1>4 DEF Judge
  <2>2. given'[r] = object[holds[r]].work /\ stage'[r] = "finish"
    BY <2>1 DEF Types, TypeOK
  <2>3. shared => result = None
    BY <1>1, <1>2, <1>4, WorkerFollows DEF Follows
  <2>4. Acknowledged' = Acknowledged
    BY <1>1, <2>1 DEF Acknowledged, Types, Requests
  <2>5. shared => Follows(r)'
    BY <1>1, <1>2, <2>1, <2>2, <2>3, <2>4, WorkerFollows DEF Follows, row
  <2>. QED
    BY <1>1, <1>2, <2>1, <2>3, <2>5, WorkerFollows, WorkerGoesOn DEF Follows, row, Stages, Over
<1>. QED
  BY <1>3, <1>4

LEMMA FinishSequential ==
    ASSUME Types, Truth, Sequential, NEW r \in Requests, Finish(r)
    PROVE  Sequential'
<1>. SUFFICES ASSUME calm' PROVE Sequential'
  BY DEF Sequential
<1>1. /\ stage[r] = "finish" /\ stage[r] \notin Over /\ r \in Finishes /\ given[r] # None
      /\ StoreResult(r)
      /\ UNCHANGED <<shared, saved, overdue, late, redis, invalidated, calm>>
  BY DEF Finish, Over, Types
<1>2. calm
  BY <1>1
<1>3. shared => result = None
  BY <1>1, <1>2, WorkerFollows DEF Follows
<1>4. CASE result' # None
  <2>1. /\ given' = [given EXCEPT ![r] = result']
        /\ stage' = [stage EXCEPT ![r] = "close"]
        /\ UNCHANGED <<at, holds, hot, object>>
    BY <1>4 DEF Finish
  <2>2. shared => status = "active" /\ result' = given[r] /\ status' # "active"
    BY <1>1, <1>3, <1>4, VerdictType DEF StoreResult
  <2>3. Acknowledged' = Acknowledged /\ stage'[r] = "close"
    BY <1>1, <2>1 DEF Acknowledged, Types, Requests
  <2>4. shared => Follows(r)'
    BY <2>2, <2>3 DEF Follows
  <2>5. shared => Acknowledged \subseteq result'
    BY <1>1, <1>2, <2>2, WorkerFollows DEF Follows
  <2>. QED
    BY <1>1, <1>2, <2>1, <2>2, <2>4, <2>5, WorkerFollows, WorkerGoesOn DEF Stages, Over
<1>5. CASE result' = None
  <2>1. stage' = [stage EXCEPT ![r] = "refused"]
    BY <1>5 DEF Finish, End
  <2>2. Acknowledged' = Acknowledged
    BY <1>1, <2>1, AnsweredNow DEF Over
  <2>3. status' = status
    BY <1>1, <1>5 DEF StoreResult
  <2>. QED
    BY <1>1, <1>2, <1>5, <2>1, <2>2, <2>3, WorkerFollows, WorkerEnds DEF Over
<1>. QED
  BY <1>4, <1>5

LEMMA CloseSequential ==
    ASSUME Types, Truth, Sequential, NEW r \in Requests, Close(r)
    PROVE  Sequential'
<1>. SUFFICES ASSUME calm' PROVE Sequential'
  BY DEF Sequential
<1>. DEFINE e == Envelope(Verdict(given[r]), object[holds[r]].work)
            closed == [object EXCEPT ![holds[r]] = e]
<1>1. /\ stage[r] = "close" /\ stage[r] \notin Over /\ r \in Finishes
      /\ UNCHANGED <<shared, row, given, invalidated>>
      /\ stage' = [stage EXCEPT ![r] = "answered"]
  BY DEF Close, End, Over, Types
<1>2. \/ redis' = (IF shared THEN closed[holds[r]] ELSE None) /\ UNCHANGED calm
      \/ calm' = FALSE /\ UNCHANGED redis
  BY DEF Close
<1>3. closed[holds[r]] = e /\ e.status \in Ended
  BY <1>1, BusyObject, VerdictType DEF Envelope, Types, TypeOK, Ended, Statuses
<1>4. calm /\ (shared => redis' = e)
  BY <1>2, <1>3
<1>5. status # "active"
  BY <1>1 DEF Truth, Closed
<1>6. Acknowledged' = Acknowledged
  BY <1>1, AnsweredNow DEF Over
<1>. HIDE DEF e
<1>. QED
  BY <1>1, <1>3, <1>4, <1>5, <1>6, WorkerFollows, WorkerEnds DEF row, Over

(* What happens around the requests: time, the owner, Redis.               *)
LEMMA OutsideSequential ==
    ASSUME Types, Truth, Sequential,
           LateSnapshot \/ DeadlinePasses \/ Sweep \/ Cancel \/ RedisLoses \/ UNCHANGED vars
    PROVE  Sequential'
<1>. SUFFICES ASSUME calm' PROVE Sequential'
  BY DEF Sequential
<1>1. calm /\ UNCHANGED <<shared, result, hot, object, request, invalidated>>
  BY DEF LateSnapshot, DeadlinePasses, Sweep, Expire, Cancel, RedisLoses, vars, row
<1>2. late' = {} /\ saved' = saved
  BY <1>1 DEF Sequential, InTurn, LateSnapshot, DeadlinePasses, Sweep, Cancel, RedisLoses, vars, row
<1>3. status' = "active" => status = "active"
  BY DEF LateSnapshot, DeadlinePasses, Sweep, Expire, Cancel, RedisLoses, vars, row
<1>4. redis' = None \/ redis' = redis
  BY DEF LateSnapshot, DeadlinePasses, Sweep, Cancel, RedisLoses, vars
<1>5. Busy' = Busy /\ Acknowledged' = Acknowledged
  BY <1>1 DEF request, Busy, Acknowledged
<1>6. \A r \in Requests : shared /\ Follows(r) => Follows(r)'
  BY <1>1, <1>3, <1>4, <1>5 DEF request, Follows
<1>7. InTurn'
  BY <1>1, <1>2, <1>4, <1>5, <1>6 DEF Sequential, InTurn, Busy, request
<1>. QED
  BY <1>1, <1>2, <1>3, <1>4, <1>5, <1>7 DEF Sequential

(* A cancellation made known while nobody is at work.                      *)
LEMMA InvalidateSequential ==
    ASSUME Types, Truth, Sequential, NEW p \in Replicas, Invalidate(p)
    PROVE  Sequential'
<1>. SUFFICES ASSUME calm' PROVE Sequential'
  BY DEF Sequential
<1>1. /\ status = "cancelled" /\ calm /\ Busy = {} /\ UNCHANGED <<shared, row, request>>
      /\ redis' = IF redis = None THEN None ELSE Envelope("cancelled", redis.work)
  BY DEF Invalidate, CancelSessions, CancelById, Types, TypeOK
<1>2. redis' # None => redis'.status = "cancelled"
  BY <1>1 DEF Envelope
<1>3. result = None
  BY <1>1 DEF Truth, Closed
<1>4. Busy' = {}
  BY <1>1 DEF Busy, request
<1>5. InTurn'
  BY <1>1, <1>2, <1>3, <1>4 DEF Sequential, InTurn, row
<1>. QED
  BY <1>1, <1>3, <1>5 DEF Sequential, row

(* A crash is calm when it takes no call with it: the edits that were      *)
(* answered are stored.                                                    *)
LEMMA CrashSequential ==
    ASSUME Types, Truth, Sequential, NEW p \in Replicas, Crash(p)
    PROVE  Sequential'
<1>. SUFFICES ASSUME calm' PROVE Sequential'
  BY DEF Sequential
<1>. DEFINE lost == {r \in Busy : at[r] = p}
            sent == {r \in lost : stage[r] = "snapshot"}
            works == {object[holds[r]].work : r \in sent}
<1>1. /\ stage' = [r \in Requests |-> IF r \in lost THEN "refused" ELSE stage[r]]
      /\ holds' = [r \in Requests |-> IF r \in lost THEN None ELSE holds[r]]
      /\ given' = [r \in Requests |-> IF r \in lost THEN None ELSE given[r]]
      /\ Delay(works) /\ Collect(object)
      /\ calm' = (calm /\ \A r \in lost : stage[r] \notin {"snapshot", "finish", "close"})
      /\ UNCHANGED <<shared, status, saved, result, overdue, redis, invalidated>>
  BY DEF Crash
<1>2. calm
  BY <1>1 DEF Types, TypeOK
<1>3. \A r \in lost : stage[r] \notin {"snapshot", "finish", "close"}
  BY <1>1, <1>2
<1>4. works = {}
  BY <1>3
<1>5. InTurn
  BY <1>2 DEF Sequential
<1>6. late' = {}
  BY <1>1, <1>4, <1>5 DEF Delay, InTurn
<1>7. \A r \in Busy' : r \in Busy /\ r \notin lost
  BY <1>1 DEF Busy, Over
<1>8. Acknowledged' = Acknowledged
  BY <1>1 DEF Acknowledged, Busy, Over, Requests
<1>9. \A r \in Busy : stage[r] = "close" => r \in Busy' /\ stage'[r] = "close"
  BY <1>1, <1>3 DEF Busy, Over
<1>10. \A r \in Busy' :
         /\ stage'[r] = stage[r] /\ given'[r] = given[r]
         /\ object'[holds'[r]] = object[holds[r]]
  <2>. TAKE r \in Busy'
  <2>1. r \in Requests /\ stage[r] \notin Over /\ r \notin lost
    BY <1>7 DEF Busy
  <2>. HIDE DEF lost
  <2>2. holds'[r] = holds[r] /\ stage'[r] = stage[r] /\ given'[r] = given[r]
    BY <1>1, <2>1
  <2>3. holds[r] \in Requests
    BY <2>1, BusyObject
  <2>. QED
    BY <1>1, <2>1, <2>2, <2>3, CollectKeeps
<1>11. \A r \in Busy' : shared => Follows(r)'
  BY <1>1, <1>5, <1>7, <1>8, <1>10 DEF InTurn, Follows
<1>12. InTurn'
  <2>1. late' = {} /\ (\A q, r \in Busy' : q = r)
    BY <1>5, <1>6, <1>7 DEF InTurn
  <2>2. invalidated' => Busy' = {} /\ (redis' # None => redis'.status = "cancelled")
    BY <1>1, <1>5, <1>7 DEF InTurn
  <2>3. shared' /\ result' # None =>
          \/ redis' = None \/ redis'.status \in Ended \/ \E r \in Busy' : stage'[r] = "close"
    BY <1>1, <1>5, <1>9 DEF InTurn
  <2>. QED
    BY <1>1, <1>11, <2>1, <2>2, <2>3 DEF InTurn
<1>. QED
  BY <1>1, <1>2, <1>8, <1>12 DEF Sequential

-----------------------------------------------------------------------------
(* The invariant *)

LEMMA SequentialKept == Types /\ Truth /\ Sequential /\ [Next]_vars => Sequential'
<1>. SUFFICES ASSUME Types, Truth, Sequential, [Next]_vars PROVE Sequential'
  OBVIOUS
<1>1. ASSUME NEW r \in Requests, SnapshotUnanswered(r) \/ FinishUnanswered(r) PROVE Sequential'
  BY <1>1 DEF SnapshotUnanswered, FinishUnanswered, Sequential
<1>. QED
  BY <1>1, EnterSequential, MutateSequential, SaveSequential, SnapshotSequential,
     JudgeSequential, FinishSequential, CloseSequential, OutsideSequential,
     InvalidateSequential, CrashSequential DEF Next, Enters

THEOREM Invariant == Spec => [](Types /\ Truth /\ Sequential)
  BY InitTypes, InitTruth, InitSequential, TypesKept, TruthKept, SequentialKept, PTL DEF Spec

-----------------------------------------------------------------------------
(* What follows from it *)

(* Every variable has its type (HostedSessionEnvelope, the rows).          *)
THEOREM TypeCorrect == Spec => []TypeOK
<1>1. Types => TypeOK
  BY DEF Types
<1>. QED
  BY Invariant, <1>1, PTL

(* All answers to finish requests are the one stored result                *)
(* (resolveSessionResult), also from a stale copy on any replica.          *)
THEOREM OneResult == Spec => []AnswersAgree
<1>1. Truth => AnswersAgree
  BY DEF Truth, AnswersAgree
<1>. QED
  BY Invariant, <1>1, PTL

(* No edit that was answered is lost while requests come one at a time and *)
(* no call fails, on whichever replica each of them arrives                *)
(* (consistency-and-failure.md:41).                                        *)
THEOREM NoEditLost == Spec => []SequentialEditsKept
<1>1. Sequential => SequentialEditsKept
  BY DEF Sequential, SequentialEditsKept
<1>. QED
  BY Invariant, <1>1, PTL

(* A final status freezes status, state and result of the row              *)
(* (updateActiveSessionMetadata and the completion transaction).           *)
THEOREM FinalRowFrozen == Spec => FrozenAtEnd
<1>1. Types /\ [Next]_vars =>
        [status # "active" => UNCHANGED <<status, saved, result>>]_vars
  BY StepFreezes
<1>. QED
  BY Invariant, <1>1, PTL DEF Spec, FrozenAtEnd

(* A cancellation that hosted-sites knows of is respected by all replicas. *)
THEOREM CancelledStaysOut == Spec => CancelledIsRefused
<1>1. Types' /\ Truth /\ Sequential' /\ Types /\ [Next]_vars =>
        [\A r \in Requests :
           calm' /\ invalidated /\ stage[r] = "new" => stage'[r] \in Over]_vars
  <2>. SUFFICES ASSUME Types, Types', Truth, Sequential', [Next]_vars, NEW r \in Requests,
                       calm', invalidated
                PROVE  stage'[r] \in Over
    OBVIOUS
  <2>1. invalidated'
    BY EntryForm DEF Next, Enters, Mutate, Save, Snapshot, SnapshotUnanswered, Judge, Finish,
       FinishUnanswered, Close, LateSnapshot, DeadlinePasses, Sweep, Cancel, RedisLoses,
       Invalidate, Crash, vars
  <2>2. Busy' = {}
    BY <2>1 DEF Sequential, InTurn
  <2>. QED
    BY <2>2 DEF Busy
<1>. QED
  BY Invariant, <1>1, PTL DEF Spec, CancelledIsRefused

=============================================================================
