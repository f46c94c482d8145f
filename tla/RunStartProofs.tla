--------------------------- MODULE RunStartProofs ---------------------------
(***************************************************************************)
(* Theorems about RunStart for every set of processes, of revisions and of *)
(* connect requests, and any number of cancellations by the owner.         *)
(***************************************************************************)
EXTENDS RunStart, TLAPS

USE NobodyAssumption

-----------------------------------------------------------------------------
(* The inductive invariant *)

(* A command on its way names a revision, and the flight that has it.      *)
CommandTypes ==
    /\ Orchestrator!TypeOK
    /\ \A c \in Commands :
         /\ command[c].state \in {"queued", "handled"} => command[c].revision \in Revisions
         /\ command[c].state = "handled" => command[c].at \in Orchestrator!Flights

ConnectTypes ==
    /\ current \in Revisions
    /\ connect \in [Commands -> [state : {"none", "recovering", "waiting"} \cup Answer,
                                 revision : Revisions \cup {Nobody}]]
    /\ \A c \in Commands : connect[c].state = "recovering" => connect[c].revision \in Revisions
    /\ unseen \in BOOLEAN

WebTypes ==
    /\ run \in Web!Open \cup Web!Final
    /\ cancellation \in [Cancellers -> {"none", "asking", "writing"} \cup Web!CancelAnswer]

Types == CommandTypes /\ ConnectTypes /\ WebTypes

(* A flight that has inserted the row and not yet announced it.            *)
Creating(f) == stage[f] \in {"sessions", "announce"}

(* Uniqueness of the row makes one flight the creator, for good.           *)
OneCreator ==
    /\ Orchestrator!Absent => announced = 0
    /\ \A f \in Orchestrator!Flights :
         Creating(f) => ~Orchestrator!Absent /\ announced = 0
    /\ \A f, g \in Orchestrator!Flights : Creating(f) /\ Creating(g) => f = g
    /\ AnnouncedOnce

(* Whoever reports success, up to the agent, has seen a complete attempt.  *)
SuccessIsComplete ==
    /\ \A f \in Orchestrator!Flights :
         stage[f] \in {"announce", "release", "ok"} => Orchestrator!Complete
    /\ Orchestrator!AnsweredIsComplete
    /\ ConnectedToAttempt

(* Once the orchestrator has answered a cancellation, an attempt that was  *)
(* there is cancelled, and one that comes later was not to be seen.        *)
AskedIsSeen ==
    run = "cancelled" \/ (\E k \in Cancellers : cancellation[k] = "writing") =>
        attempt.status = "cancelled" \/ unseen

IInv == Types /\ OneCreator /\ SuccessIsComplete /\ LeaseHeld /\ AskedIsSeen

USE DEF Orchestrator!Flights

-----------------------------------------------------------------------------
(* Types *)

(* The steps of a flight keep the types of the orchestrator's variables.   *)
LEMMA FlightTypes ==
    ASSUME CommandTypes, NEW f \in Orchestrator!Flights, Orchestrator!FlightStep(f)
    PROVE  CommandTypes'
<1>. USE DEF CommandTypes, Orchestrator!TypeOK, Orchestrator!database, Orchestrator!Stage,
             Orchestrator!CommandState, Orchestrator!Absent, Orchestrator!GoTo,
             Orchestrator!Succeed, Orchestrator!Fail
<1>1. CASE Orchestrator!Find(f) \/ Orchestrator!Recover(f)
  BY <1>1 DEF Orchestrator!Find, Orchestrator!Recover
<1>2. CASE Orchestrator!AcquireLease(f)
  BY <1>2 DEF Orchestrator!AcquireLease
<1>3. CASE Orchestrator!Contended(f) \/ Orchestrator!RedisDown(f) \/ Orchestrator!CallFails(f)
  BY <1>3 DEF Orchestrator!Contended, Orchestrator!RedisDown, Orchestrator!CallFails
<1>4. CASE Orchestrator!Create(f)
  BY <1>4 DEF Orchestrator!Create
<1>5. CASE Orchestrator!CreateSessions(f)
  BY <1>5 DEF Orchestrator!CreateSessions
<1>6. CASE Orchestrator!Announce(f)
  BY <1>6 DEF Orchestrator!Announce
<1>7. CASE Orchestrator!Release(f)
  BY <1>7 DEF Orchestrator!Release
<1>8. CASE Orchestrator!ReleaseThrows(f)
  BY <1>8 DEF Orchestrator!ReleaseThrows
<1>9. CASE Orchestrator!Settle(f)
  BY <1>9 DEF Orchestrator!Settle
<1>. QED
  BY <1>1, <1>2, <1>3, <1>4, <1>5, <1>6, <1>7, <1>8, <1>9 DEF Orchestrator!FlightStep

(* So do the other steps of the orchestrator.                              *)
LEMMA DispatchTypes ==
    ASSUME CommandTypes, NEW c \in Commands, NEW p \in Processes, Orchestrator!Dispatch(c, p)
    PROVE  CommandTypes'
<1>. USE DEF CommandTypes, Orchestrator!TypeOK, Orchestrator!Dispatch
<1>1. command[c].revision \in Revisions
  OBVIOUS
<1>. QED
  BY <1>1 DEF Orchestrator!database, Orchestrator!CommandState, Orchestrator!Stage

LEMMA CrashTypes ==
    ASSUME CommandTypes, NEW p \in Processes, Orchestrator!Crash(p)
    PROVE  CommandTypes'
<1>. USE DEF CommandTypes, Orchestrator!TypeOK, Orchestrator!Crash
<1>. QED
  BY DEF Orchestrator!database, Orchestrator!CommandState, Orchestrator!Stage

LEMMA EnqueueTypes ==
    ASSUME CommandTypes, NEW c \in Commands, NEW r \in Revisions, Orchestrator!Enqueue(c, r)
    PROVE  CommandTypes'
  BY DEF CommandTypes, Orchestrator!TypeOK, Orchestrator!Enqueue, Orchestrator!database,
         Orchestrator!CommandState

(* Every variable keeps its type. *)
LEMMA TypesKept == Types /\ [Next]_vars => Types'
<1>. SUFFICES ASSUME Types, [Next]_vars PROVE Types'
  OBVIOUS
<1>. USE DEF Types
<1>0. ASSUME UNCHANGED initVars PROVE CommandTypes'
  BY <1>0 DEF initVars, CommandTypes, Orchestrator!TypeOK
<1>. USE DEF WebTypes, ConnectTypes, Answer, GoOn, webVars, Web!Open, Web!Final, Web!CancelAnswer
<1>1. ASSUME NEW c \in Commands, ReadRun(c) PROVE Types'
  BY <1>0, <1>1 DEF ReadRun
<1>2. ASSUME NEW c \in Commands, RecoverConnection(c) PROVE Types'
  BY <1>0, <1>2 DEF RecoverConnection, Found
<1>3. ASSUME NEW c \in Commands, PostInit(c) PROVE Types'
  BY <1>3, EnqueueTypes DEF PostInit
<1>4. ASSUME NEW c \in Commands, InitAnswered(c) PROVE Types'
  BY <1>0, <1>4 DEF InitAnswered
<1>5. ASSUME NEW c \in Commands, GiveUpWaiting(c) PROVE Types'
  BY <1>0, <1>5 DEF GiveUpWaiting
<1>6. ASSUME NEW c \in Commands, NEW p \in Processes, Dispatch(c, p) PROVE Types'
  BY <1>6, DispatchTypes DEF Dispatch
<1>7. ASSUME NEW f \in Orchestrator!Flights, FlightStep(f) PROVE Types'
  BY <1>7, FlightTypes DEF FlightStep
<1>8. ASSUME NEW p \in Processes, Crash(p) PROVE Types'
  BY <1>8, CrashTypes DEF Crash
<1>9. ASSUME NEW r \in Revisions, LeaseExpires(r) PROVE Types'
  <2>1. CommandTypes'
    BY <1>9 DEF LeaseExpires, Orchestrator!LeaseExpires, CommandTypes, Orchestrator!TypeOK,
                Orchestrator!database
  <2>. QED
    BY <1>9, <2>1 DEF LeaseExpires
<1>10. ASSUME NEW k \in Cancellers, CancelAttempt(k) PROVE Types'
  <2>1. CommandTypes'
    BY <1>10 DEF CancelAttempt, Orchestrator!CancelRow, CommandTypes, Orchestrator!TypeOK
  <2>. QED
    BY <1>10, <2>1 DEF CancelAttempt, Web!AttemptCancelled, Orchestrator!Absent
<1>11. ASSUME NEW k \in Cancellers, CancelStep(k) PROVE Types'
  BY <1>0, <1>11 DEF CancelStep, Web!ReadForCancel, Web!OrchestratorSilent, Web!CancelRun,
                     Web!CancelLost
<1>12. CASE Publish
  BY <1>0, <1>12 DEF Publish
<1>13. CASE UNCHANGED vars
  BY <1>0, <1>13 DEF vars
<1>. QED
  BY <1>1, <1>2, <1>3, <1>4, <1>5, <1>6, <1>7, <1>8, <1>9, <1>10, <1>11, <1>12, <1>13 DEF Next

-----------------------------------------------------------------------------
(* The steps of a flight *)

(* The row is inserted by one flight at a time, since the others find it.  *)
LEMMA FlightKeepsCreator ==
    ASSUME CommandTypes, OneCreator,
           NEW f \in Orchestrator!Flights, Orchestrator!FlightStep(f)
    PROVE  OneCreator'
<1>. USE DEF CommandTypes, OneCreator, Creating, AnnouncedOnce, Orchestrator!AnnouncedOnce,
             Orchestrator!TypeOK, Orchestrator!database, Orchestrator!Stage,
             Orchestrator!Absent, Orchestrator!GoTo, Orchestrator!Succeed, Orchestrator!Fail
<1>1. CASE Orchestrator!Find(f) \/ Orchestrator!Recover(f)
  BY <1>1 DEF Orchestrator!Find, Orchestrator!Recover
<1>2. CASE Orchestrator!AcquireLease(f) \/ Orchestrator!Contended(f) \/ Orchestrator!RedisDown(f)
  BY <1>2 DEF Orchestrator!AcquireLease, Orchestrator!Contended, Orchestrator!RedisDown
<1>3. CASE Orchestrator!CallFails(f)
  BY <1>3 DEF Orchestrator!CallFails
<1>4. CASE Orchestrator!Create(f)
  BY <1>4 DEF Orchestrator!Create
<1>5. CASE Orchestrator!CreateSessions(f)
  BY <1>5 DEF Orchestrator!CreateSessions
<1>6. CASE Orchestrator!Announce(f)
  BY <1>6 DEF Orchestrator!Announce
<1>7. CASE Orchestrator!Release(f) \/ Orchestrator!ReleaseThrows(f)
  BY <1>7 DEF Orchestrator!Release, Orchestrator!ReleaseThrows
<1>8. CASE Orchestrator!Settle(f)
  BY <1>8 DEF Orchestrator!Settle
<1>. QED
  BY <1>1, <1>2, <1>3, <1>4, <1>5, <1>6, <1>7, <1>8 DEF Orchestrator!FlightStep

(* A complete attempt stays complete, and only with one does a flight      *)
(* succeed and answer its commands.                                        *)
FlightsComplete ==
    /\ \A f \in Orchestrator!Flights :
         stage[f] \in {"announce", "release", "ok"} => Orchestrator!Complete
    /\ Orchestrator!AnsweredIsComplete

LEMMA FlightKeepsComplete ==
    ASSUME CommandTypes, OneCreator, FlightsComplete,
           NEW f \in Orchestrator!Flights, Orchestrator!FlightStep(f)
    PROVE  FlightsComplete' /\ (Orchestrator!Complete => Orchestrator!Complete')
<1>. USE DEF CommandTypes, FlightsComplete, Orchestrator!AnsweredIsComplete,
             Orchestrator!TypeOK, Orchestrator!database, Orchestrator!Complete,
             Orchestrator!Absent, Orchestrator!GoTo, Orchestrator!Succeed, Orchestrator!Fail
<1>1. CASE Orchestrator!Find(f) \/ Orchestrator!Recover(f)
  BY <1>1 DEF Orchestrator!Find, Orchestrator!Recover
<1>2. CASE Orchestrator!AcquireLease(f) \/ Orchestrator!Contended(f) \/ Orchestrator!RedisDown(f)
  BY <1>2 DEF Orchestrator!AcquireLease, Orchestrator!Contended, Orchestrator!RedisDown
<1>3. CASE Orchestrator!CallFails(f)
  BY <1>3 DEF Orchestrator!CallFails
<1>4. CASE Orchestrator!Create(f)
  BY <1>4 DEF Orchestrator!Create
<1>5. CASE Orchestrator!CreateSessions(f)
  BY <1>5 DEF Orchestrator!CreateSessions, OneCreator, Creating
<1>6. CASE Orchestrator!Announce(f)
  BY <1>6 DEF Orchestrator!Announce
<1>7. CASE Orchestrator!Release(f) \/ Orchestrator!ReleaseThrows(f)
  BY <1>7 DEF Orchestrator!Release, Orchestrator!ReleaseThrows
<1>8. CASE Orchestrator!Settle(f)
  BY <1>8 DEF Orchestrator!Settle
<1>. QED
  BY <1>1, <1>2, <1>3, <1>4, <1>5, <1>6, <1>7, <1>8 DEF Orchestrator!FlightStep

(* No flight takes or frees the key of another that counts on its lease.   *)
LEMMA FlightKeepsLease ==
    ASSUME CommandTypes, LeaseHeld,
           NEW f \in Orchestrator!Flights, Orchestrator!FlightStep(f)
    PROVE  LeaseHeld'
<1>. USE DEF CommandTypes, LeaseHeld, Orchestrator!LeaseHeld, Orchestrator!TypeOK
<1>1. CASE UNCHANGED <<lease, outlived, leased>>
  BY <1>1
<1>2. CASE Orchestrator!AcquireLease(f)
  BY <1>2 DEF Orchestrator!AcquireLease
<1>3. CASE Orchestrator!Release(f)
  BY <1>3 DEF Orchestrator!Release
<1>4. CASE Orchestrator!ReleaseThrows(f)
  BY <1>4 DEF Orchestrator!ReleaseThrows
<1>. QED
  BY <1>1, <1>2, <1>3, <1>4 DEF Orchestrator!FlightStep, Orchestrator!Find,
     Orchestrator!Recover, Orchestrator!Contended, Orchestrator!RedisDown,
     Orchestrator!Create, Orchestrator!CreateSessions, Orchestrator!Announce,
     Orchestrator!CallFails, Orchestrator!Settle

(* A flight never changes an attempt it has not created itself.            *)
LEMMA FlightKeepsAttempt ==
    ASSUME NEW f \in Orchestrator!Flights, Orchestrator!FlightStep(f), ~Orchestrator!Absent
    PROVE  attempt' = attempt
  BY DEF Orchestrator!FlightStep, Orchestrator!Find, Orchestrator!Recover,
     Orchestrator!AcquireLease, Orchestrator!Contended, Orchestrator!RedisDown,
     Orchestrator!Create, Orchestrator!CreateSessions, Orchestrator!Announce,
     Orchestrator!CallFails, Orchestrator!Release, Orchestrator!ReleaseThrows,
     Orchestrator!Settle, Orchestrator!database

-----------------------------------------------------------------------------
(* The invariant *)

LEMMA IInvHolds == Init => IInv
<1>. SUFFICES ASSUME Init PROVE IInv
  OBVIOUS
<1>. USE DEF Init, Orchestrator!Init, Web!Init, Web!Registered
<1>1. Types
  BY DEF Types, CommandTypes, ConnectTypes, WebTypes, Orchestrator!TypeOK, Answer,
         Orchestrator!Stage, Orchestrator!CommandState, Web!Open
<1>2. OneCreator
  BY DEF OneCreator, Creating, AnnouncedOnce, Orchestrator!AnnouncedOnce, Orchestrator!Absent
<1>3. SuccessIsComplete
  BY DEF SuccessIsComplete, Orchestrator!AnsweredIsComplete, ConnectedToAttempt
<1>4. LeaseHeld
  BY DEF LeaseHeld, Orchestrator!LeaseHeld
<1>5. AskedIsSeen
  BY DEF AskedIsSeen
<1>. QED
  BY <1>1, <1>2, <1>3, <1>4, <1>5 DEF IInv

LEMMA CreatorKept == IInv /\ [Next]_vars => OneCreator'
<1>. SUFFICES ASSUME IInv, [Next]_vars PROVE OneCreator'
  OBVIOUS
<1>1. ASSUME NEW f \in Orchestrator!Flights, FlightStep(f) PROVE OneCreator'
  BY <1>1, FlightKeepsCreator DEF IInv, Types, FlightStep
<1>. USE DEF IInv, Types, CommandTypes, Orchestrator!TypeOK, OneCreator, Creating, AnnouncedOnce,
             Orchestrator!AnnouncedOnce, Orchestrator!Absent, Orchestrator!database
<1>2. ASSUME UNCHANGED initVars PROVE OneCreator'
  BY <1>2 DEF initVars
<1>3. ASSUME NEW c \in Commands, PostInit(c) PROVE OneCreator'
  BY <1>3 DEF PostInit, Orchestrator!Enqueue
<1>4. ASSUME NEW c \in Commands, NEW p \in Processes, Dispatch(c, p) PROVE OneCreator'
  BY <1>4 DEF Dispatch, Orchestrator!Dispatch
<1>5. ASSUME NEW p \in Processes, Crash(p) PROVE OneCreator'
  BY <1>5 DEF Crash, Orchestrator!Crash
<1>6. ASSUME NEW r \in Revisions, LeaseExpires(r) PROVE OneCreator'
  BY <1>6 DEF LeaseExpires, Orchestrator!LeaseExpires
<1>7. ASSUME NEW k \in Cancellers, CancelAttempt(k) PROVE OneCreator'
  BY <1>7 DEF CancelAttempt, Orchestrator!CancelRow
<1>. QED
  BY <1>1, <1>2, <1>3, <1>4, <1>5, <1>6, <1>7 DEF Next, ReadRun, RecoverConnection, Found,
     InitAnswered, GiveUpWaiting, CancelStep, Publish, vars

LEMMA SuccessKept == IInv /\ [Next]_vars => SuccessIsComplete'
<1>. SUFFICES ASSUME IInv, [Next]_vars PROVE SuccessIsComplete'
  OBVIOUS
<1>1. ASSUME NEW f \in Orchestrator!Flights, FlightStep(f) PROVE SuccessIsComplete'
  BY <1>1, FlightKeepsComplete
     DEF IInv, Types, FlightStep, SuccessIsComplete, FlightsComplete, ConnectedToAttempt
<1>. USE DEF IInv, Types, CommandTypes, ConnectTypes, Orchestrator!TypeOK, SuccessIsComplete,
             Orchestrator!AnsweredIsComplete, ConnectedToAttempt,
             Orchestrator!Complete, Orchestrator!Absent, Orchestrator!database, GoOn
<1>2. ASSUME NEW c \in Commands, ReadRun(c) PROVE SuccessIsComplete'
  BY <1>2 DEF ReadRun, initVars
<1>3. ASSUME NEW c \in Commands, RecoverConnection(c) PROVE SuccessIsComplete'
  BY <1>3 DEF RecoverConnection, Found, initVars
<1>4. ASSUME NEW c \in Commands, PostInit(c) PROVE SuccessIsComplete'
  BY <1>4 DEF PostInit, Orchestrator!Enqueue
<1>5. ASSUME NEW c \in Commands, InitAnswered(c) PROVE SuccessIsComplete'
  BY <1>5 DEF InitAnswered, initVars
<1>6. ASSUME NEW c \in Commands, GiveUpWaiting(c) PROVE SuccessIsComplete'
  BY <1>6 DEF GiveUpWaiting, initVars
<1>7. ASSUME NEW c \in Commands, NEW p \in Processes, Dispatch(c, p) PROVE SuccessIsComplete'
  BY <1>7 DEF Dispatch, Orchestrator!Dispatch
<1>8. ASSUME NEW p \in Processes, Crash(p) PROVE SuccessIsComplete'
  BY <1>8 DEF Crash, Orchestrator!Crash
<1>9. ASSUME NEW r \in Revisions, LeaseExpires(r) PROVE SuccessIsComplete'
  BY <1>9 DEF LeaseExpires, Orchestrator!LeaseExpires
<1>10. ASSUME NEW k \in Cancellers, CancelAttempt(k) PROVE SuccessIsComplete'
  BY <1>10 DEF CancelAttempt, Orchestrator!CancelRow
<1>11. CASE \/ \E k \in Cancellers : CancelStep(k)
            \/ Publish \/ UNCHANGED vars
  BY <1>11 DEF CancelStep, Publish, vars, initVars
<1>. QED
  BY <1>1, <1>2, <1>3, <1>4, <1>5, <1>6, <1>7, <1>8, <1>9, <1>10, <1>11 DEF Next

LEMMA LeaseKept == IInv /\ [Next]_vars => LeaseHeld'
<1>. SUFFICES ASSUME IInv, [Next]_vars PROVE LeaseHeld'
  OBVIOUS
<1>. USE DEF IInv, Types, CommandTypes, Orchestrator!TypeOK, LeaseHeld, Orchestrator!LeaseHeld
<1>1. ASSUME NEW f \in Orchestrator!Flights, FlightStep(f) PROVE LeaseHeld'
  BY <1>1, FlightKeepsLease DEF FlightStep
<1>2. CASE UNCHANGED <<lease, outlived, leased>>
  BY <1>2
<1>3. ASSUME NEW p \in Processes, Crash(p) PROVE LeaseHeld'
  BY <1>3 DEF Crash, Orchestrator!Crash
<1>4. ASSUME NEW r \in Revisions, LeaseExpires(r) PROVE LeaseHeld'
  BY <1>4 DEF LeaseExpires, Orchestrator!LeaseExpires
<1>. QED
  BY <1>1, <1>2, <1>3, <1>4 DEF Next, ReadRun, RecoverConnection, Found, PostInit,
     Orchestrator!Enqueue, InitAnswered, GiveUpWaiting, Dispatch, Orchestrator!Dispatch,
     CancelAttempt, Orchestrator!CancelRow, CancelStep, Publish, vars, initVars

LEMMA SeenKept == IInv /\ [Next]_vars => AskedIsSeen'
<1>. SUFFICES ASSUME IInv, [Next]_vars PROVE AskedIsSeen'
  OBVIOUS
<1>. USE DEF IInv, Types, WebTypes, AskedIsSeen
<1>1. ASSUME NEW f \in Orchestrator!Flights, FlightStep(f) PROVE AskedIsSeen'
  BY <1>1, FlightKeepsAttempt DEF FlightStep, webVars, Orchestrator!Absent
<1>2. CASE UNCHANGED <<attempt, run, cancellation, unseen>>
  BY <1>2
<1>3. ASSUME NEW k \in Cancellers, CancelAttempt(k) PROVE AskedIsSeen'
  BY <1>3 DEF CancelAttempt, Orchestrator!CancelRow, Web!AttemptCancelled, Orchestrator!Absent,
              CommandTypes, Orchestrator!TypeOK
<1>4. ASSUME NEW k \in Cancellers, CancelStep(k) PROVE AskedIsSeen'
  BY <1>4 DEF CancelStep, initVars, Web!ReadForCancel, Web!OrchestratorSilent, Web!CancelRun,
              Web!CancelLost, Web!Open, Web!Final, Web!CancelAnswer
<1>. QED
  BY <1>1, <1>2, <1>3, <1>4 DEF Next, ReadRun, RecoverConnection, Found, PostInit,
     Orchestrator!Enqueue, InitAnswered, GiveUpWaiting, Dispatch, Orchestrator!Dispatch,
     Crash, Orchestrator!Crash, LeaseExpires, Orchestrator!LeaseExpires,
     Publish, vars, initVars, webVars, Orchestrator!database

THEOREM Invariant == Spec => []IInv
<1>1. IInv /\ [Next]_vars => IInv'
  BY TypesKept, CreatorKept, SuccessKept, LeaseKept, SeenKept DEF IInv
<1>. QED
  BY IInvHolds, <1>1, PTL DEF Spec

-----------------------------------------------------------------------------
(* What follows from it *)

(* Every variable has its type (the declarations of single-flight.ts and   *)
(* idempotent-initializer.ts, the routes' answers).                        *)
THEOREM TypeCorrect == Spec => []TypeOK
<1>1. IInv => TypeOK
  BY DEF IInv, Types, CommandTypes, ConnectTypes, TypeOK
<1>. QED
  BY Invariant, <1>1, PTL

(* The sessions of a run are announced once at most: creating them is the  *)
(* privilege of the flight whose insert succeeded, whatever is retried.    *)
THEOREM AnnouncedAtMostOnce == Spec => []AnnouncedOnce
<1>1. IInv => AnnouncedOnce
  BY DEF IInv, OneCreator
<1>. QED
  BY Invariant, <1>1, PTL

(* No flight loses its key to another before the lease runs out            *)
(* (acquireInitializationLease and its release).                           *)
THEOREM LeaseIsExclusive == Spec => []LeaseHeld
<1>1. IInv => LeaseHeld
  BY DEF IInv
<1>. QED
  BY Invariant, <1>1, PTL

(* The agent is told to start only if its attempt has all its sessions     *)
(* (recoverInitializedAttempt, initializeAttempt).                         *)
THEOREM ConnectedIsComplete == Spec => []ConnectedToAttempt
<1>1. IInv => ConnectedToAttempt
  BY DEF IInv, SuccessIsComplete
<1>. QED
  BY Invariant, <1>1, PTL

(* The same for a command of the backbone that was answered 201.           *)
THEOREM AnsweredCommandsComplete == Spec => []Orchestrator!AnsweredIsComplete
<1>1. IInv => Orchestrator!AnsweredIsComplete
  BY DEF IInv, SuccessIsComplete
<1>. QED
  BY Invariant, <1>1, PTL

(* A cancelled run has a running attempt only if none was there to cancel. *)
THEOREM CancellationIsHeard == Spec => []CancellationReaches
<1>1. IInv => CancellationReaches
  BY DEF IInv, AskedIsSeen, CancellationReaches
<1>. QED
  BY Invariant, <1>1, PTL

=============================================================================
