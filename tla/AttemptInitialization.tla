----------------------- MODULE AttemptInitialization -----------------------
(***************************************************************************)
(* How a run gets its hosted attempt: initializeAttempt and what is around *)
(* it in the orchestrator (server.ts, idempotent-initializer.ts,           *)
(* single-flight.ts).  One run; the commands attempt.init that Web sends   *)
(* for it name the revision of the case that was current then.             *)
(*                                                                         *)
(* A process runs one flight per revision, which later commands for the    *)
(* same key join.  A flight looks for the attempt, takes the Redis lease,  *)
(* looks again, creates.  The lease is an optimization: it expires after   *)
(* 30 seconds, Redis may be down, and flights of different revisions do    *)
(* not share it.  Uniqueness of the row decides.                           *)
(*                                                                         *)
(* With DATABASE_URL the attempt and its sessions are one transaction;     *)
(* through the Supabase client they are two calls.                         *)
(***************************************************************************)
EXTENDS Naturals, FiniteSets

CONSTANTS
    Processes,      \* workers that execute attempt.init
    Revisions,      \* published revisions of the case
    Commands,       \* the commands sent for the run
    Nobody

Flights == Processes \X Revisions

VARIABLES
    transactional,  \* how the process reaches the database
    attempt,        \* the row: its revision and status, Nobody for no revision
    sessions,       \* whether the attempt's sessions are there
    announced,      \* how often their creation was forwarded to Web
    lease,          \* per revision: the flight that owns the Redis key
    outlived,       \* flights whose lease expired while they relied on it
    stage,          \* per flight: the call it is about to make
    leased,         \* per flight: whether it has a lease to release
    command         \* per command: its revision and where it is

vars == <<transactional, attempt, sessions, announced, lease, outlived,
          stage, leased, command>>

Stage == {"idle", "find", "recover", "lock", "find2", "create",
          "sessions", "announce", "release", "failing", "ok", "error"}
CommandState == {"new", "queued", "handled", "ok", "error"}

Init ==
    /\ transactional \in BOOLEAN
    /\ attempt = [revision |-> Nobody, status |-> "absent"]
    /\ sessions = FALSE
    /\ announced = 0
    /\ lease = [r \in Revisions |-> Nobody]
    /\ outlived = {}
    /\ stage = [f \in Flights |-> "idle"]
    /\ leased = [f \in Flights |-> FALSE]
    /\ command = [c \in Commands |-> [state |-> "new", revision |-> Nobody, at |-> Nobody]]

Absent == attempt.status = "absent"
Complete == ~Absent /\ sessions

database == <<transactional, attempt, sessions, announced>>

-----------------------------------------------------------------------------
(* The command backbone: enqueued once, executed at least once.            *)
Enqueue(c, r) ==
    /\ command[c].state = "new"
    /\ command' = [command EXCEPT ![c] = [state |-> "queued", revision |-> r, at |-> Nobody]]
    /\ UNCHANGED <<database, lease, outlived, stage, leased>>

(* A process takes the command: it joins the flight of its key, or starts  *)
(* it.                                                                     *)
Dispatch(c, p) ==
    /\ command[c].state = "queued"
    /\ LET f == <<p, command[c].revision>>
       IN  /\ stage[f] \notin {"ok", "error"}
           /\ stage' = [stage EXCEPT ![f] = IF @ = "idle" THEN "find" ELSE @]
           /\ command' = [command EXCEPT ![c] =
                [state |-> "handled", revision |-> f[2], at |-> f]]
    /\ UNCHANGED <<database, lease, outlived, leased>>

(* The flight settles: all the commands that joined it are answered, and   *)
(* the key is free again.  A failed command is retried, or given up.       *)
Settle(f) ==
    /\ stage[f] \in {"ok", "error"}
    /\ \E final \in IF stage[f] = "ok" THEN {"ok"} ELSE {"queued", "error"} :
         command' = [c \in Commands |->
           IF command[c].state = "handled" /\ command[c].at = f
           THEN [state |-> final, at |-> Nobody,
                 revision |-> IF final = "queued" THEN f[2] ELSE Nobody]
           ELSE command[c]]
    /\ stage' = [stage EXCEPT ![f] = "idle"]
    /\ UNCHANGED <<database, lease, outlived, leased>>

(* The process dies.  Its lease stays until it expires; the entries it was *)
(* working on are reclaimed by another process.                            *)
Crash(p) ==
    /\ \E r \in Revisions : stage[<<p, r>>] # "idle"
    /\ stage' = [f \in Flights |-> IF f[1] = p THEN "idle" ELSE stage[f]]
    /\ leased' = [f \in Flights |-> leased[f] /\ f[1] # p]
    /\ outlived' = {f \in outlived : f[1] # p}
    /\ command' = [c \in Commands |->
         IF command[c].state = "handled" /\ command[c].at[1] = p
         THEN [state |-> "queued", revision |-> command[c].revision, at |-> Nobody]
         ELSE command[c]]
    /\ UNCHANGED <<database, lease>>

LeaseExpires(r) ==
    /\ lease[r] # Nobody
    /\ lease' = [lease EXCEPT ![r] = Nobody]
    /\ outlived' = IF leased[lease[r]] THEN outlived \cup {lease[r]} ELSE outlived
    /\ UNCHANGED <<database, stage, leased, command>>

-----------------------------------------------------------------------------
(* The steps of a flight.                                                  *)
GoTo(f, next) == stage' = [stage EXCEPT ![f] = next]

(* A flight that holds a lease goes through its finally block.             *)
Succeed(f) == GoTo(f, IF leased[f] THEN "release" ELSE "ok")
Fail(f) == GoTo(f, IF leased[f] THEN "failing" ELSE "error")

(* findExistingInitializedAttempt: nothing, an attempt to be recovered, or *)
(* an attempt of another revision, which is an error.  So is a read that   *)
(* fails.                                                                  *)
Find(f) ==
    /\ stage[f] \in {"find", "find2"}
    /\ \/ Absent /\ GoTo(f, IF stage[f] = "find" THEN "lock" ELSE "create")
       \/ attempt.revision = f[2] /\ GoTo(f, "recover")
       \/ ~Absent /\ attempt.revision # f[2] /\ Fail(f)
    /\ UNCHANGED <<database, lease, outlived, leased, command>>

(* Seeded fault: an attempt is enough, its sessions may be missing. *)
RecoverRegardless(f) ==
    /\ stage[f] = "recover"
    /\ \/ ~Absent /\ Succeed(f)
       \/ (~Complete \/ attempt.revision # f[2]) /\ Fail(f)
    /\ UNCHANGED <<database, lease, outlived, leased, command>>

(* recoverInitializedAttempt: poll for five seconds until the attempt has  *)
(* as many sessions as the revision asked for, of whichever revision it is.*)
Recover(f) ==
    /\ stage[f] = "recover"
    /\ \/ Complete /\ Succeed(f)
       \/ (~Complete \/ attempt.revision # f[2]) /\ Fail(f)
    /\ UNCHANGED <<database, lease, outlived, leased, command>>

(* acquireInitializationLease: SET NX, or no Redis.                        *)
AcquireLease(f) ==
    /\ stage[f] = "lock"
    /\ lease[f[2]] = Nobody
    /\ lease' = [lease EXCEPT ![f[2]] = f]
    /\ leased' = [leased EXCEPT ![f] = TRUE]
    /\ GoTo(f, "find2")
    /\ UNCHANGED <<database, outlived, command>>

(* Another flight of the key has it: wait for its attempt.                 *)
Contended(f) ==
    /\ stage[f] = "lock"
    /\ lease[f[2]] # Nobody
    /\ GoTo(f, "recover")
    /\ UNCHANGED <<database, lease, outlived, leased, command>>

RedisDown(f) ==
    /\ stage[f] = "lock"
    /\ GoTo(f, "create")
    /\ UNCHANGED <<database, lease, outlived, leased, command>>

(* Seeded fault: the row is inserted whether or not there is one. *)
CreateRegardless(f) ==
    /\ stage[f] = "create"
    /\ attempt' = [revision |-> f[2], status |-> "running"]
    /\ sessions' = transactional
    /\ GoTo(f, IF transactional THEN "announce" ELSE "sessions")
    /\ UNCHANGED <<transactional, announced, lease, outlived, leased, command>>

(* The insert of the attempt, in one transaction with its sessions or not; *)
(* the unique constraint on the run turns the loser to recovery.           *)
Create(f) ==
    /\ stage[f] = "create"
    /\ IF Absent
       THEN /\ attempt' = [revision |-> f[2], status |-> "running"]
            /\ sessions' = transactional
            /\ GoTo(f, IF transactional THEN "announce" ELSE "sessions")
       ELSE /\ GoTo(f, "recover")
            /\ UNCHANGED <<attempt, sessions>>
    /\ UNCHANGED <<transactional, announced, lease, outlived, leased, command>>

(* The second of the two calls without a transaction.                      *)
CreateSessions(f) ==
    /\ stage[f] = "sessions"
    /\ sessions' = TRUE
    /\ GoTo(f, "announce")
    /\ UNCHANGED <<transactional, attempt, announced, lease, outlived, leased, command>>

(* hosted.session.created for every session, and the first progress event. *)
Announce(f) ==
    /\ stage[f] = "announce"
    /\ announced' = announced + 1
    /\ Succeed(f)
    /\ UNCHANGED <<transactional, attempt, sessions, lease, outlived, leased, command>>

(* A call to the database fails. *)
CallFails(f) ==
    /\ stage[f] \in {"find", "find2", "recover", "create", "sessions"}
    /\ Fail(f)
    /\ UNCHANGED <<database, lease, outlived, leased, command>>

(* Seeded fault: the key is deleted without comparing its owner. *)
ReleaseAnyones(f) ==
    /\ stage[f] \in {"release", "failing"}
    /\ lease' = [lease EXCEPT ![f[2]] = Nobody]
    /\ leased' = [leased EXCEPT ![f] = FALSE]
    /\ outlived' = outlived \ {f}
    /\ GoTo(f, IF stage[f] = "release" THEN "ok" ELSE "error")
    /\ UNCHANGED <<database, command>>

(* The finally block: compare and delete.  If that call fails, so does the *)
(* initialization, although the attempt exists.                            *)
Release(f) ==
    /\ stage[f] \in {"release", "failing"}
    /\ lease' = [lease EXCEPT ![f[2]] = IF @ = f THEN Nobody ELSE @]
    /\ leased' = [leased EXCEPT ![f] = FALSE]
    /\ outlived' = outlived \ {f}
    /\ GoTo(f, IF stage[f] = "release" THEN "ok" ELSE "error")
    /\ UNCHANGED <<database, command>>

ReleaseThrows(f) ==
    /\ stage[f] \in {"release", "failing"}
    /\ leased' = [leased EXCEPT ![f] = FALSE]
    /\ outlived' = outlived \ {f}
    /\ GoTo(f, "error")
    /\ UNCHANGED <<database, lease, command>>

FlightStep(f) ==
    \/ Find(f) \/ Recover(f)
    \/ AcquireLease(f) \/ Contended(f) \/ RedisDown(f)
    \/ Create(f) \/ CreateSessions(f) \/ Announce(f)
    \/ CallFails(f) \/ Release(f) \/ ReleaseThrows(f) \/ Settle(f)

(* The routine cancel_hosted_attempt, on the row if there is one.          *)
CancelRow ==
    /\ attempt' = IF attempt.status = "running"
                  THEN [attempt EXCEPT !.status = "cancelled"] ELSE attempt
    /\ UNCHANGED <<transactional, sessions, announced, lease, outlived, stage,
                   leased, command>>

-----------------------------------------------------------------------------
TypeOK ==
    /\ transactional \in BOOLEAN
    /\ attempt \in [revision : Revisions \cup {Nobody},
                    status : {"absent", "running", "cancelled"}]
    /\ attempt.status = "absent" <=> attempt.revision = Nobody
    /\ sessions \in BOOLEAN
    /\ announced \in Nat
    /\ lease \in [Revisions -> Flights \cup {Nobody}]
    /\ outlived \subseteq Flights
    /\ stage \in [Flights -> Stage]
    /\ leased \in [Flights -> BOOLEAN]
    /\ command \in [Commands -> [state : CommandState,
                                 revision : Revisions \cup {Nobody},
                                 at : Flights \cup {Nobody}]]

(* Sessions are announced by their creator only: once at most, whatever is *)
(* retried, redelivered or raced (attempt-consistency.md:56).              *)
AnnouncedOnce == announced <= 1

(* A command answered 201 finds a complete attempt, even if it lost the    *)
(* race for it or its flight's process crashed and it was redelivered.     *)
AnsweredIsComplete ==
    \A c \in Commands : command[c].state = "ok" => Complete

(* The lease excludes flights of its key for as long as it lasts: nobody   *)
(* frees or takes the key of a flight that has not outlived it             *)
(* (acquireInitializationLease compares before it deletes).                *)
LeaseHeld ==
    \A f \in Flights : leased[f] /\ f \notin outlived => lease[f[2]] = f
=============================================================================
