--------------------------- MODULE CommandBackbone ---------------------------
(***************************************************************************)
(* One partition of the orchestrator's command transport: a Redis stream   *)
(* with a consumer group, the lease that names the partition's one worker, *)
(* and the keys kept per command (result, retry counter, response list).   *)
(* Every Redis or database call of processMessage is a step, so a crash or *)
(* an exception can fall between any two of them.                          *)
(*                                                                         *)
(* The stream's contents are given: Stream[e] is the command id of its     *)
(* e-th entry.  An id may occur twice, because every API replica enqueues  *)
(* the same "maintenance-cleanup-<bucket>".                                *)
(*                                                                         *)
(* Abstracted: payloads, error texts, back-off, the 24 hour and 60 second  *)
(* expiries of the keys, MAXLEN trimming, entries without an id or type,   *)
(* and batches of more than 16 entries.  A handler may fail or succeed.    *)
(***************************************************************************)
EXTENDS Integers, Sequences, FiniteSets

CONSTANTS
    Commands,       \* command ids
    Stream,         \* the sequence of commands that come to be enqueued
    Workers,        \* worker processes the partition is assigned to
    Nobody,         \* not a worker
    MaxAttempts,    \* maxCommandAttempts, 3 in the code
    MaxFaults,      \* bound on crashes, failed calls and early lease expiries
    LeaseOutlived   \* whether a worker may run on after its lease expired

ASSUME BackboneAssumption ==
    /\ Stream \in Seq(Commands)
    /\ IsFiniteSet(Workers) /\ Nobody \notin Workers
    /\ MaxAttempts \in Nat \ {0}
    /\ MaxFaults \in Nat
    /\ LeaseOutlived \in BOOLEAN

Entries == 1..Len(Stream)
Answers == {"ok", "dead"}       \* the handler's response, or 500 dead-lettered

VARIABLES
    \* Redis
    entry,      \* of each entry: "none" (not enqueued), "queued", "pending" or "acked"
    retries,    \* the retry counter of each command, 0 while there is none
    stored,     \* the result key of each command, "none" while there is none
    answers,    \* what was ever pushed to the command's response list
    holder,     \* who holds the partition lease
    \* Postgres
    dead,       \* commands with a row in orchestrator_command_dead_letters
    \* the workers
    up,         \* which worker processes run
    taken,      \* the entries of the batch the worker has not finished
    pc,         \* the worker's next call for the first of them
    answer,     \* its response so far
    \* history
    succeeded,  \* how often the handler returned, for each command
    failed,     \* how often it threw
    faults      \* faults so far

keyVars == <<retries, stored, answers, dead>>
history == <<succeeded, failed>>
localVars == <<taken, pc, answer>>
vars == <<entry, keyVars, holder, up, localVars, history, faults>>

InState(s) == {e \in Entries : entry[e] = s}

(* Batches come in stream order and are worked off in order. *)
Current(w) == CHOOSE e \in taken[w] : \A f \in taken[w] : e <= f
Command(w) == Stream[Current(w)]

Init ==
    /\ entry = [e \in Entries |-> "none"]
    /\ retries = [c \in Commands |-> 0]
    /\ stored = [c \in Commands |-> "none"]
    /\ answers = [c \in Commands |-> {}]
    /\ holder = Nobody
    /\ dead = {}
    /\ up = {}
    /\ taken = [w \in Workers |-> {}]
    /\ pc = [w \in Workers |-> "ready"]
    /\ answer = [w \in Workers |-> "none"]
    /\ succeeded = [c \in Commands |-> 0]
    /\ failed = [c \in Commands |-> 0]
    /\ faults = 0

(* execute: XADD.  (What the caller then reads is `answers'.) *)
Enqueue ==
    \E e \in Entries :
        /\ InState("none") # {} /\ \A f \in InState("none") : e <= f
        /\ entry[e] = "none"
        /\ entry' = [entry EXCEPT ![e] = "queued"]
        /\ UNCHANGED <<keyVars, holder, up, localVars, history, faults>>

-----------------------------------------------------------------------------
(* Worker processes and the lease *)

Fault == faults < MaxFaults /\ faults' = faults + 1

Idle(w) ==
    /\ taken' = [taken EXCEPT ![w] = {}]
    /\ pc' = [pc EXCEPT ![w] = "ready"]
    /\ answer' = [answer EXCEPT ![w] = "none"]

(* Seeded fault: SET without NX. *)
StartRegardless(w) ==
    /\ w \notin up
    /\ holder' = w
    /\ up' = up \cup {w}
    /\ UNCHANGED <<entry, keyVars, localVars, history, faults>>

(* start: SET NX on the lease.  A worker that does not get it exits. *)
Start(w) ==
    /\ w \notin up
    /\ holder = Nobody
    /\ holder' = w
    /\ up' = up \cup {w}
    /\ UNCHANGED <<entry, keyVars, localVars, history, faults>>

(* The process dies between two calls.  Nothing releases the lease: no     *)
(* signal handler calls stop().                                            *)
Crash(w) ==
    /\ w \in up
    /\ Fault
    /\ up' = up \ {w}
    /\ Idle(w)
    /\ UNCHANGED <<entry, keyVars, holder, history>>

(* Seeded fault: a lease without an expiry. *)
LeaseNeverExpires == FALSE /\ UNCHANGED vars

(* Ten seconds without a renewal: the holder is down, or its event loop or *)
(* its connection stalls.                                                  *)
LeaseExpires ==
    /\ holder # Nobody
    /\ IF holder \in up THEN LeaseOutlived /\ Fault ELSE UNCHANGED faults
    /\ holder' = Nobody
    /\ UNCHANGED <<entry, keyVars, up, localVars, history>>

(* renewPartitionLeases finds the lease gone: the process exits. *)
LoseLease(w) ==
    /\ w \in up
    /\ holder # w
    /\ up' = up \ {w}
    /\ Idle(w)
    /\ UNCHANGED <<entry, keyVars, holder, history, faults>>

-----------------------------------------------------------------------------
(* consume *)

Receive(w, batch) ==
    /\ w \in up
    /\ taken[w] = {}
    /\ batch # {}
    /\ taken' = [taken EXCEPT ![w] = batch]
    /\ pc' = [pc EXCEPT ![w] = "lookup"]
    /\ UNCHANGED <<keyVars, holder, up, answer, history, faults>>

(* Seeded fault: XREADGROUP with NOACK. *)
DeliverWithoutPending(w) ==
    /\ Receive(w, InState("queued"))
    /\ entry' = [e \in Entries |-> IF entry[e] = "queued" THEN "acked" ELSE entry[e]]

(* XREADGROUP with ">": everything not delivered yet. *)
Deliver(w) ==
    /\ Receive(w, InState("queued"))
    /\ entry' = [e \in Entries |-> IF entry[e] = "queued" THEN "pending" ELSE entry[e]]

(* XAUTOCLAIM: entries delivered some time ago and not acknowledged. *)
Reclaim(w) ==
    /\ \E batch \in SUBSET InState("pending") : Receive(w, batch)
    /\ UNCHANGED entry

(* Any call of processMessage throws, the dead letter's database included: *)
(* consume drops the rest of the batch.                                    *)
Abort(w) ==
    /\ w \in up
    /\ taken[w] # {}
    /\ Fault
    /\ Idle(w)
    /\ UNCHANGED <<entry, keyVars, holder, up, history>>

-----------------------------------------------------------------------------
(* processMessage *)

At(w, label) == w \in up /\ pc[w] = label
Goto(w, label) == pc' = [pc EXCEPT ![w] = label]
Respond(w, a) == answer' = [answer EXCEPT ![w] = a]
SameElsewhere == UNCHANGED <<entry, holder, up, taken>>

(* Seeded fault: the stored result is not looked up. *)
LookupNothing(w) ==
    /\ At(w, "lookup")
    /\ Goto(w, "budget")
    /\ UNCHANGED <<keyVars, answer, history, faults>> /\ SameElsewhere

(* A command with a stored result is answered and acknowledged. *)
Lookup(w) ==
    /\ At(w, "lookup")
    /\ IF stored[Command(w)] # "none"
       THEN Goto(w, "publish") /\ Respond(w, stored[Command(w)])
       ELSE Goto(w, "budget") /\ UNCHANGED answer
    /\ UNCHANGED <<keyVars, history, faults>> /\ SameElsewhere

(* Seeded fault: one attempt too few after a restart. *)
CheckBudgetTooEarly(w) ==
    /\ At(w, "budget")
    /\ Goto(w, IF retries[Command(w)] + 1 >= MaxAttempts THEN "bury" ELSE "run")
    /\ UNCHANGED <<keyVars, answer, history, faults>> /\ SameElsewhere

(* A command that used up its attempts goes to the dead letters unexecuted. *)
CheckBudget(w) ==
    /\ At(w, "budget")
    /\ Goto(w, IF retries[Command(w)] >= MaxAttempts THEN "bury" ELSE "run")
    /\ UNCHANGED <<keyVars, answer, history, faults>> /\ SameElsewhere

HandlerReturns(w) ==
    /\ At(w, "run")
    /\ succeeded' = [succeeded EXCEPT ![Command(w)] = @ + 1]
    /\ Goto(w, "clear")
    /\ Respond(w, "ok")
    /\ UNCHANGED <<keyVars, failed, faults>> /\ SameElsewhere

HandlerThrows(w) ==
    /\ At(w, "run")
    /\ failed' = [failed EXCEPT ![Command(w)] = @ + 1]
    /\ Goto(w, "count")
    /\ UNCHANGED <<keyVars, answer, succeeded, faults>> /\ SameElsewhere

(* DEL of the retry keys, inside the try block ... *)
Clear(w) ==
    /\ At(w, "clear")
    /\ retries' = [retries EXCEPT ![Command(w)] = 0]
    /\ Goto(w, "forget")
    /\ UNCHANGED <<stored, answers, dead, answer, history, faults>> /\ SameElsewhere

(* ... so that its own failure is taken for a failure of the handler. *)
ClearThrows(w) ==
    /\ At(w, "clear")
    /\ Fault
    /\ Goto(w, "count")
    /\ UNCHANGED <<keyVars, answer, history>> /\ SameElsewhere

(* INCR of the retry counter: another attempt, or the dead letters.  The   *)
(* loop ends on a response, were it one whose DEL failed.                  *)
CountFailure(w) ==
    /\ At(w, "count")
    /\ retries' = [retries EXCEPT ![Command(w)] = @ + 1]
    /\ Goto(w, IF retries'[Command(w)] >= MaxAttempts THEN "bury"
               ELSE IF answer[w] = "none" THEN "run" ELSE "forget")
    /\ UNCHANGED <<stored, answers, dead, answer, history, faults>> /\ SameElsewhere

(* Seeded fault: no onDeadLetter is configured. *)
BuryQuietly(w) ==
    /\ At(w, "bury")
    /\ Goto(w, "forget")
    /\ Respond(w, "dead")
    /\ UNCHANGED <<keyVars, history, faults>> /\ SameElsewhere

(* onDeadLetter: the row is upserted. *)
Bury(w) ==
    /\ At(w, "bury")
    /\ dead' = dead \cup {Command(w)}
    /\ Goto(w, "forget")
    /\ Respond(w, "dead")
    /\ UNCHANGED <<retries, stored, answers, history, faults>> /\ SameElsewhere

(* The retry keys are deleted ... *)
Forget(w) ==
    /\ At(w, "forget")
    /\ retries' = [retries EXCEPT ![Command(w)] = 0]
    /\ Goto(w, "store")
    /\ UNCHANGED <<stored, answers, dead, answer, history, faults>> /\ SameElsewhere

(* ... before the result is stored. *)
Store(w) ==
    /\ At(w, "store")
    /\ stored' = [stored EXCEPT ![Command(w)] = answer[w]]
    /\ Goto(w, "publish")
    /\ UNCHANGED <<retries, answers, dead, answer, history, faults>> /\ SameElsewhere

Publish(w) ==
    /\ At(w, "publish")
    /\ answers' = [answers EXCEPT ![Command(w)] = @ \cup {answer[w]}]
    /\ Goto(w, "ack")
    /\ UNCHANGED <<retries, stored, dead, answer, history, faults>> /\ SameElsewhere

(* XACK, and on to the next entry of the batch. *)
Acknowledge(w) ==
    /\ At(w, "ack")
    /\ entry' = [entry EXCEPT ![Current(w)] = "acked"]
    /\ taken' = [taken EXCEPT ![w] = @ \ {Current(w)}]
    /\ Goto(w, IF taken[w] = {Current(w)} THEN "ready" ELSE "lookup")
    /\ Respond(w, "none")
    /\ UNCHANGED <<keyVars, holder, up, history, faults>>

-----------------------------------------------------------------------------
Process(w) ==
    \/ Lookup(w) \/ CheckBudget(w)
    \/ HandlerReturns(w) \/ HandlerThrows(w)
    \/ Clear(w) \/ CountFailure(w) \/ Bury(w)
    \/ Forget(w) \/ Store(w) \/ Publish(w) \/ Acknowledge(w)

Work(w) == Deliver(w) \/ Reclaim(w) \/ Process(w)

Next ==
    \/ Enqueue
    \/ LeaseExpires
    \/ \E w \in Workers :
          Start(w) \/ Work(w) \/ ClearThrows(w) \/ Abort(w) \/ Crash(w) \/ LoseLease(w)

(* The process supervisor restarts workers, Redis expires leases, and the  *)
(* consumer loop of a live worker never stops.  Commands need not come.    *)
Fairness ==
    /\ WF_vars(LeaseExpires)
    /\ WF_vars(\E w \in Workers : Start(w))
    /\ \A w \in Workers : WF_vars(Work(w)) /\ WF_vars(LoseLease(w))

Safety == Init /\ [][Next]_vars
Spec == Safety /\ Fairness

-----------------------------------------------------------------------------
(* Type correctness of the Redis keys and of the workers' local state. *)
TypeOK ==
    /\ entry \in [Entries -> {"none", "queued", "pending", "acked"}]
    /\ retries \in [Commands -> Nat]
    /\ stored \in [Commands -> Answers \cup {"none"}]
    /\ answers \in [Commands -> SUBSET Answers]
    /\ holder \in Workers \cup {Nobody}
    /\ dead \subseteq Commands
    /\ up \subseteq Workers
    /\ taken \in [Workers -> SUBSET Entries]
    /\ pc \in [Workers -> {"ready", "lookup", "budget", "run", "clear", "count",
                           "bury", "forget", "store", "publish", "ack"}]
    /\ answer \in [Workers -> Answers \cup {"none"}]
    /\ succeeded \in [Commands -> Nat]
    /\ failed \in [Commands -> Nat]
    /\ faults \in 0..MaxFaults

(* An entry leaves the pending list only when its command has a stored     *)
(* result that was sent to the caller, and, if the command was given up,   *)
(* a dead letter an operator can find: no command is lost.                 *)
NothingLost ==
    \A e \in InState("acked") :
        LET c == Stream[e]
        IN  /\ stored[c] # "none"
            /\ answers[c] # {}
            /\ "dead" \in answers[c] => c \in dead

(* A command is given up only after it was executed MaxAttempts times,     *)
(* however the executions are spread over workers, crashes and entries.    *)
GivenUpAfterAttempts ==
    \A c \in dead : succeeded[c] + failed[c] >= MaxAttempts

(* Handlers of one partition never run side by side, and no entry is in    *)
(* the hands of two workers.                                               *)
OneConsumer == \A w, v \in Workers : w # v => taken[w] = {} \/ taken[v] = {}

(* Every caller that waits for a command gets the same answer, whichever   *)
(* entry or delivery it stems from, and it is the one that is kept.        *)
OneAnswer ==
    \A c \in Commands : answers[c] \subseteq {stored[c]}

(* Every command that was enqueued is settled: answered and acknowledged. *)
EveryCommandSettles ==
    \A e \in Entries : entry[e] = "queued" ~> entry[e] = "acked"

(* "Reclaim retries failed DLQ persistence without re-executing an         *)
(* exhausted handler": once a command is among the dead letters, its       *)
(* handler does not run again.                                             *)
ExhaustedNotReexecuted ==
    [][ \A c \in dead : UNCHANGED <<succeeded[c], failed[c]>> ]_vars

(* "Handler failures retain retry state in Redis and stop after three      *)
(* attempts": what is given up is a command whose handler failed that      *)
(* often.                                                                  *)
GivenUpAfterFailures == \A c \in dead : failed[c] >= MaxAttempts
=============================================================================
