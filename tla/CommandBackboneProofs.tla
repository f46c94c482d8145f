------------------------ MODULE CommandBackboneProofs ------------------------
(***************************************************************************)
(* Theorems about CommandBackbone for every stream, every finite set of    *)
(* workers and every number of attempts and faults.                        *)
(***************************************************************************)
EXTENDS CommandBackbone, WellFoundedInduction, FiniteSetTheorems, TLAPS

-----------------------------------------------------------------------------
(* The invariants *)

(* What a worker has in hand is true of the keys. *)
Memory(w) ==
    /\ taken[w] = {} <=> pc[w] = "ready"
    /\ taken[w] # {} => w \in up
    /\ pc[w] \in {"ready", "lookup", "budget", "run"} => answer[w] = "none"
    /\ pc[w] \in {"clear", "forget", "store", "publish", "ack"} => answer[w] # "none"
    /\ answer[w] = "dead" => Command(w) \in dead
    /\ pc[w] \in {"publish", "ack"} => stored[Command(w)] # "none"
    /\ pc[w] = "ack" => answers[Command(w)] # {}

(* Nobody is told that a command is dead which is not among the dead letters. *)
DeadAreBuried ==
    \A c \in Commands : stored[c] = "dead" \/ "dead" \in answers[c] => c \in dead

IInv == TypeOK /\ (\A w \in Workers : Memory(w)) /\ DeadAreBuried /\ NothingLost

-----------------------------------------------------------------------------
(* A worker's current entry *)

(* A worker with a batch has a first entry, which is one of the batch. *)
LEMMA CurrentOfBatch ==
    ASSUME TypeOK, NEW w \in Workers, taken[w] # {}
    PROVE  Current(w) \in taken[w] /\ Current(w) \in Entries /\ Command(w) \in Commands
<1>1. taken[w] \subseteq Entries
  BY DEF TypeOK
<1>2. Entries \subseteq Nat
  BY BackboneAssumption DEF Entries
<1>3. PICK e \in taken[w] : \A f \in taken[w] : ~(<<f, e>> \in OpToRel(<, Nat))
  BY <1>1, <1>2, NatLessThanWellFounded, WFMin
<1>4. ASSUME NEW f \in taken[w] PROVE e <= f
  <2>1. e \in Nat /\ f \in Nat
    BY <1>1, <1>2
  <2>2. ~(<<f, e>> \in OpToRel(<, Nat))
    BY <1>3
  <2>3. ~(f < e)
    BY <2>1, <2>2 DEF OpToRel
  <2>. QED
    BY <2>1, <2>3
<1>5. Current(w) \in taken[w]
  BY <1>4 DEF Current
<1>. QED
  BY <1>1, <1>5, BackboneAssumption DEF Command, Entries

(* A batch that does not change keeps its first entry. *)
LEMMA SameBatch ==
    ASSUME NEW w \in Workers, taken'[w] = taken[w]
    PROVE  Current(w)' = Current(w) /\ Command(w)' = Command(w)
  BY DEF Command, Current

-----------------------------------------------------------------------------
(* Type correctness *)

(* The steps of processMessage that leave the batch as it is. *)
Call(w) ==
    \/ Lookup(w) \/ CheckBudget(w) \/ HandlerReturns(w) \/ HandlerThrows(w)
    \/ Clear(w) \/ ClearThrows(w) \/ CountFailure(w) \/ Bury(w)
    \/ Forget(w) \/ Store(w) \/ Publish(w)

(* A call keeps the types: the keys it writes are those of a command. *)
LEMMA CallTypes ==
    ASSUME TypeOK, NEW w \in Workers, Memory(w), Call(w)
    PROVE  TypeOK'
<1>. DEFINE c == Command(w)
<1>1. c \in Commands
  <2>1. pc[w] # "ready"
    BY DEF Call, At, Lookup, CheckBudget, HandlerReturns, HandlerThrows, Clear, ClearThrows,
           CountFailure, Bury, Forget, Store, Publish
  <2>. QED
    BY <2>1, CurrentOfBatch DEF Memory
<1>. HIDE DEF c
<1>. USE <1>1 DEF TypeOK, At, Goto, Respond, SameElsewhere, keyVars, history, Answers
<1>2. CASE Lookup(w)
  BY <1>2 DEF Lookup, c
<1>3. CASE CheckBudget(w)
  BY <1>3 DEF CheckBudget, c
<1>4. CASE HandlerReturns(w)
  BY <1>4 DEF HandlerReturns, c
<1>5. CASE HandlerThrows(w)
  BY <1>5 DEF HandlerThrows, c
<1>6. CASE Clear(w)
  BY <1>6 DEF Clear, c
<1>7. CASE ClearThrows(w)
  BY <1>7, BackboneAssumption DEF ClearThrows, Fault
<1>8. CASE CountFailure(w)
  BY <1>8 DEF CountFailure, c
<1>9. CASE Bury(w)
  BY <1>9 DEF Bury, c
<1>10. CASE Forget(w)
  BY <1>10 DEF Forget, c
<1>11. CASE Store(w)
  <2>1. answer[w] \in Answers \cup {"none"}
    OBVIOUS
  <2>. QED
    BY <2>1, <1>11 DEF Store, c
<1>12. CASE Publish(w)
  BY <1>12 DEF Publish, Memory, c
<1>. QED
  BY <1>2, <1>3, <1>4, <1>5, <1>6, <1>7, <1>8, <1>9, <1>10, <1>11, <1>12 DEF Call

(* So does every other step. *)
LEMMA TypeStep ==
    ASSUME TypeOK, \A w \in Workers : Memory(w), [Next]_vars
    PROVE  TypeOK'
<1>. USE DEF TypeOK, At, Goto, Respond, Idle, history, localVars
<1>1. CASE Enqueue
  <2>1. PICK e \in Entries : entry' = [entry EXCEPT ![e] = "queued"]
    BY <1>1 DEF Enqueue
  <2>. QED
    BY <1>1, <2>1 DEF Enqueue, keyVars
<1>2. CASE LeaseExpires
  BY <1>2, BackboneAssumption DEF LeaseExpires, Fault, keyVars
<1>3. ASSUME NEW w \in Workers, Start(w) PROVE TypeOK'
  BY <1>3 DEF Start, keyVars
<1>4. ASSUME NEW w \in Workers, Crash(w) PROVE TypeOK'
  BY <1>4, BackboneAssumption DEF Crash, Fault, keyVars
<1>5. ASSUME NEW w \in Workers, LoseLease(w) PROVE TypeOK'
  BY <1>5 DEF LoseLease, keyVars
<1>6. ASSUME NEW w \in Workers, Abort(w) PROVE TypeOK'
  BY <1>6, BackboneAssumption DEF Abort, Fault, keyVars
<1>7. ASSUME NEW w \in Workers, NEW batch \in SUBSET Entries, Receive(w, batch),
             entry' \in [Entries -> {"none", "queued", "pending", "acked"}]
      PROVE  TypeOK'
  BY <1>7 DEF Receive, keyVars
<1>8. ASSUME NEW w \in Workers, Deliver(w) PROVE TypeOK'
  <2>1. InState("queued") \in SUBSET Entries
    BY DEF InState
  <2>2. entry' \in [Entries -> {"none", "queued", "pending", "acked"}]
    BY <1>8 DEF Deliver
  <2>. QED
    BY <1>7, <1>8, <2>1, <2>2 DEF Deliver
<1>9. ASSUME NEW w \in Workers, Reclaim(w) PROVE TypeOK'
  <2>1. PICK batch \in SUBSET InState("pending") : Receive(w, batch)
    BY <1>9 DEF Reclaim
  <2>2. batch \in SUBSET Entries
    BY DEF InState
  <2>. QED
    BY <1>7, <1>9, <2>1, <2>2 DEF Reclaim
<1>10. ASSUME NEW w \in Workers, Acknowledge(w) PROVE TypeOK'
  <2>1. Current(w) \in Entries
    BY <1>10, CurrentOfBatch DEF Acknowledge, Memory
  <2>. QED
    BY <1>10, <2>1 DEF Acknowledge, keyVars
<1>11. CASE UNCHANGED vars
  BY <1>11 DEF vars, keyVars
<1>. QED
  BY <1>1, <1>2, <1>3, <1>4, <1>5, <1>6, <1>8, <1>9, <1>10, <1>11, CallTypes
     DEF Next, Work, Process, Call

-----------------------------------------------------------------------------
(* What a worker has in hand *)

(* Dead letters, stored results and answers are never taken back. *)
Grows ==
    /\ dead \subseteq dead'
    /\ \A c \in Commands : /\ stored[c] # "none" => stored'[c] # "none"
                           /\ answers[c] \subseteq answers'[c]

(* What a step that does not serve v does to v, at the most. *)
Spared(v) ==
    /\ taken'[v] = taken[v] /\ pc'[v] = pc[v] /\ answer'[v] = answer[v]
    /\ v \in up => v \in up'

Dropped(v) == taken'[v] = {} /\ pc'[v] = "ready" /\ answer'[v] = "none"

(* A step of processMessage only adds to the keys, and to a stored result  *)
(* only the answer of a worker that has one.                               *)
LEMMA CallGrows ==
    ASSUME TypeOK, NEW w \in Workers, Memory(w), Call(w)
    PROVE  Grows
<1>. USE DEF Grows, TypeOK, keyVars
<1>1. CASE Store(w)
  <2>1. answer[w] # "none"
    BY <1>1 DEF Store, At, Memory
  <2>. QED
    BY <1>1, <2>1 DEF Store
<1>2. CASE Publish(w)
  BY <1>2 DEF Publish
<1>3. CASE Bury(w)
  BY <1>3 DEF Bury
<1>4. CASE UNCHANGED <<stored, answers, dead>>
  BY <1>4
<1>. QED
  BY <1>1, <1>2, <1>3, <1>4
     DEF Call, Lookup, CheckBudget, HandlerReturns, HandlerThrows, Clear, ClearThrows,
         CountFailure, Forget

(* What a worker has in hand stays true while others work. *)
LEMMA SparedKeeps ==
    ASSUME TypeOK, NEW v \in Workers, Memory(v), Grows, Spared(v)
    PROVE  Memory(v)'
<1>1. Command(v)' = Command(v)
  BY SameBatch DEF Spared
<1>2. taken[v] # {} => Command(v) \in Commands
  BY CurrentOfBatch
<1>3. pc[v] \in {"publish", "ack"} \/ answer[v] = "dead" => taken[v] # {}
  BY DEF Memory
<1>. QED
  BY <1>1, <1>2, <1>3 DEF Memory, Spared, Grows

(* A worker that dropped its batch has nothing in hand. *)
LEMMA DroppedKeeps ==
    ASSUME NEW v \in Workers, Dropped(v)
    PROVE  Memory(v)'
  BY DEF Memory, Dropped

(* A call leaves its worker with a true memory. *)
LEMMA CallKeeps ==
    ASSUME TypeOK, DeadAreBuried, NEW w \in Workers, Memory(w), Call(w)
    PROVE  Memory(w)'
<1>. DEFINE c == Command(w)
<1>1. taken' = taken /\ up' = up /\ w \in up /\ Command(w)' = c
  <2>1. taken' = taken /\ up' = up /\ w \in up
    BY DEF Call, At, SameElsewhere, Lookup, CheckBudget, HandlerReturns, HandlerThrows, Clear,
           ClearThrows, CountFailure, Bury, Forget, Store, Publish
  <2>. QED
    BY <2>1, SameBatch
<1>2. pc[w] # "ready" => taken[w] # {} /\ c \in Commands
  BY CurrentOfBatch DEF Memory
<1>. HIDE DEF c
<1>. USE <1>1, <1>2 DEF TypeOK, Memory, At, Goto, Respond, keyVars
<1>3. CASE Lookup(w)
  <2>1. stored[c] = "dead" => c \in dead
    BY <1>3 DEF Lookup, DeadAreBuried
  <2>. QED
    BY <1>3, <2>1 DEF Lookup, c
<1>4. CASE CheckBudget(w)
  BY <1>4 DEF CheckBudget
<1>5. CASE HandlerReturns(w)
  BY <1>5 DEF HandlerReturns
<1>6. CASE HandlerThrows(w)
  BY <1>6 DEF HandlerThrows
<1>7. ASSUME UNCHANGED <<stored, answers, dead, answer>>, pc[w] # "ready",
             NEW label \in {"run", "count", "bury", "forget", "store"}, Goto(w, label),
             label = "run" => answer[w] = "none",
             label \in {"forget", "store"} => answer[w] # "none"
      PROVE  Memory(w)'
  BY <1>7 DEF c
<1>8. CASE Clear(w) \/ ClearThrows(w) \/ Forget(w)
  BY <1>7, <1>8 DEF Clear, ClearThrows, Forget
<1>9. CASE CountFailure(w)
  BY <1>7, <1>9 DEF CountFailure
<1>10. CASE Bury(w)
  BY <1>10 DEF Bury, c
<1>11. CASE Store(w)
  BY <1>11 DEF Store, c
<1>12. CASE Publish(w)
  BY <1>12 DEF Publish, c
<1>. QED
  BY <1>3, <1>4, <1>5, <1>6, <1>8, <1>9, <1>10, <1>11, <1>12 DEF Call

(* An acknowledgement moves on to the next entry, with nothing in hand. *)
LEMMA AcknowledgeKeeps ==
    ASSUME TypeOK, NEW w \in Workers, Memory(w), Acknowledge(w)
    PROVE  Memory(w)'
<1>1. Current(w) \in taken[w]
  BY CurrentOfBatch DEF Acknowledge, At, Memory
<1>2. /\ taken'[w] = taken[w] \ {Current(w)} /\ up' = up /\ w \in up
      /\ pc'[w] = IF taken[w] = {Current(w)} THEN "ready" ELSE "lookup"
      /\ answer'[w] = "none"
  BY DEF Acknowledge, At, Goto, Respond, TypeOK
<1>. QED
  BY <1>1, <1>2 DEF Memory

(* Every step adds to the keys, and leaves each worker a true memory. *)
LEMMA MemoryStep ==
    ASSUME IInv, [Next]_vars
    PROVE  Grows /\ \A v \in Workers : Memory(v)'
<1>. USE DEF IInv
<1>1. ASSUME UNCHANGED keyVars, \A v \in Workers : Spared(v) \/ Dropped(v)
      PROVE  Grows /\ \A v \in Workers : Memory(v)'
  <2>1. Grows
    BY <1>1 DEF Grows, keyVars
  <2>. QED
    BY <1>1, <2>1, SparedKeeps, DroppedKeeps
<1>2. ASSUME UNCHANGED keyVars, NEW w \in Workers, Memory(w)',
             \A v \in Workers \ {w} : Spared(v)
      PROVE  Grows /\ \A v \in Workers : Memory(v)'
  <2>1. Grows
    BY <1>2 DEF Grows, keyVars
  <2>. QED
    BY <1>2, <2>1, SparedKeeps
<1>3. CASE Enqueue \/ LeaseExpires \/ UNCHANGED vars
  BY <1>1, <1>3 DEF Enqueue, LeaseExpires, vars, localVars, Spared
<1>4. ASSUME NEW w \in Workers, Start(w) PROVE Grows /\ \A v \in Workers : Memory(v)'
  BY <1>1, <1>4 DEF Start, localVars, Spared
<1>5. ASSUME NEW w \in Workers, Crash(w) \/ LoseLease(w) \/ Abort(w)
      PROVE  Grows /\ \A v \in Workers : Memory(v)'
  <2>1. \A v \in Workers : Spared(v) \/ Dropped(v)
    BY <1>5 DEF Crash, LoseLease, Abort, Idle, Spared, Dropped, TypeOK
  <2>. QED
    BY <1>1, <1>5, <2>1 DEF Crash, LoseLease, Abort
<1>6. ASSUME NEW w \in Workers, NEW batch, Receive(w, batch)
      PROVE  Grows /\ \A v \in Workers : Memory(v)'
  <2>1. Memory(w)'
    BY <1>6 DEF Receive, Memory, TypeOK
  <2>2. \A v \in Workers \ {w} : Spared(v)
    BY <1>6 DEF Receive, Spared, TypeOK
  <2>. QED
    BY <1>2, <1>6, <2>1, <2>2 DEF Receive
<1>7. ASSUME NEW w \in Workers, Call(w) PROVE Grows /\ \A v \in Workers : Memory(v)'
  <2>1. Memory(w)' /\ Grows
    BY <1>7, CallKeeps, CallGrows
  <2>2. \A v \in Workers \ {w} : Spared(v)
    BY <1>7 DEF Call, Lookup, CheckBudget, HandlerReturns, HandlerThrows, Clear, ClearThrows,
                CountFailure, Bury, Forget, Store, Publish, Goto, Respond, SameElsewhere,
                Spared, TypeOK
  <2>. QED
    BY <2>1, <2>2, SparedKeeps
<1>8. ASSUME NEW w \in Workers, Acknowledge(w) PROVE Grows /\ \A v \in Workers : Memory(v)'
  <2>1. \A v \in Workers \ {w} : Spared(v)
    BY <1>8 DEF Acknowledge, Goto, Respond, Spared, TypeOK
  <2>. QED
    BY <1>2, <1>8, <2>1, AcknowledgeKeeps DEF Acknowledge
<1>. QED
  BY <1>3, <1>4, <1>5, <1>6, <1>7, <1>8 DEF Next, Work, Process, Deliver, Reclaim, Call

-----------------------------------------------------------------------------
(* The keys *)

(* Only a command among the dead letters is stored, or answered, as dead. *)
LEMMA DeadAreBuriedStep ==
    ASSUME IInv, [Next]_vars
    PROVE  DeadAreBuried'
<1>. USE DEF IInv, DeadAreBuried
<1>1. Grows
  BY MemoryStep
<1>2. CASE UNCHANGED <<stored, answers>>
  BY <1>1, <1>2 DEF Grows
<1>3. ASSUME NEW w \in Workers, Store(w) PROVE DeadAreBuried'
  BY <1>1, <1>3 DEF Store, Memory, Grows, TypeOK
<1>4. ASSUME NEW w \in Workers, Publish(w) PROVE DeadAreBuried'
  BY <1>1, <1>4 DEF Publish, Memory, Grows, TypeOK
<1>. QED
  BY <1>2, <1>3, <1>4
     DEF Next, Work, Process, vars, keyVars, Enqueue, LeaseExpires, Start, Crash, LoseLease,
         Abort, Receive, Deliver, Reclaim, Lookup, CheckBudget, HandlerReturns, HandlerThrows,
         Clear, ClearThrows, CountFailure, Bury, Forget, Acknowledge

(* Only Acknowledge takes an entry off the pending list. *)
LEMMA AckedStep ==
    ASSUME TypeOK, [Next]_vars, NEW e \in Entries, entry[e] # "acked", entry'[e] = "acked"
    PROVE  \E w \in Workers : Acknowledge(w) /\ e = Current(w)
<1>1. ~ UNCHANGED entry
  OBVIOUS
<1>2. ~ Enqueue
  BY DEF Enqueue, TypeOK
<1>3. \A w \in Workers : ~ Deliver(w)
  BY DEF Deliver
<1>4. PICK w \in Workers : Acknowledge(w)
  BY <1>1, <1>2, <1>3
     DEF Next, Work, Process, vars, LeaseExpires, Start, Crash, LoseLease, Abort, Reclaim,
         Lookup, CheckBudget, HandlerReturns, HandlerThrows, Clear, ClearThrows, CountFailure,
         Bury, Forget, Store, Publish, SameElsewhere
<1>. QED
  BY <1>4 DEF Acknowledge, TypeOK

(* An entry is acknowledged when its command is settled, and stays settled. *)
LEMMA NothingLostStep ==
    ASSUME IInv, [Next]_vars
    PROVE  NothingLost'
<1>1. Grows /\ DeadAreBuried'
  BY MemoryStep, DeadAreBuriedStep
<1>. SUFFICES ASSUME NEW e \in Entries, entry'[e] = "acked"
              PROVE  /\ stored'[Stream[e]] # "none"
                     /\ answers'[Stream[e]] # {}
                     /\ "dead" \in answers'[Stream[e]] => Stream[e] \in dead'
  BY DEF NothingLost, InState
<1>2. Stream[e] \in Commands
  BY BackboneAssumption DEF Entries
<1>3. stored[Stream[e]] # "none" /\ answers[Stream[e]] # {}
  <2>1. CASE entry[e] = "acked"
    BY <2>1 DEF IInv, NothingLost, InState
  <2>2. CASE entry[e] # "acked"
    <3>1. PICK w \in Workers : Acknowledge(w) /\ e = Current(w)
      BY <2>2, AckedStep DEF IInv
    <3>. QED
      BY <3>1 DEF IInv, Memory, Acknowledge, At, Command
  <2>. QED
    BY <2>1, <2>2
<1>. QED
  BY <1>1, <1>2, <1>3 DEF Grows, DeadAreBuried

(* The invariant is inductive. *)
LEMMA InitInv == Init => IInv
<1>. SUFFICES ASSUME Init PROVE IInv
  OBVIOUS
<1>1. TypeOK
  BY BackboneAssumption DEF Init, TypeOK, Answers
<1>2. (\A w \in Workers : Memory(w)) /\ DeadAreBuried /\ NothingLost
  BY DEF Init, Memory, DeadAreBuried, NothingLost, InState
<1>. QED
  BY <1>1, <1>2 DEF IInv

(* The invariant holds in every reachable state. *)
THEOREM Invariance == Safety => []IInv
<1>1. IInv /\ [Next]_vars => IInv'
  BY TypeStep, MemoryStep, DeadAreBuriedStep, NothingLostStep DEF IInv
<1>. QED
  BY InitInv, <1>1, PTL DEF Safety

(* The keys and the workers' local state keep their types. *)
THEOREM TypeCorrect == Safety => []TypeOK
<1>1. IInv => TypeOK
  BY DEF IInv
<1>. QED
  BY Invariance, <1>1, PTL

(* Whatever crashes, and even when two workers own the partition at once,  *)
(* an entry is acknowledged only when its command has a stored result, an  *)
(* answer was sent and a given-up command is among the dead letters.       *)
THEOREM NoCommandLost == Safety => []NothingLost
<1>1. IInv => NothingLost
  BY DEF IInv
<1>. QED
  BY Invariance, <1>1, PTL

-----------------------------------------------------------------------------
(* Leases that are respected *)

(* A worker that runs holds the lease. *)
Leased == \A w \in up : holder = w

(* The lease is only given to one worker, and only taken from a dead one. *)
LEMMA LeasedStep ==
    ASSUME ~ LeaseOutlived, IInv, Leased, [Next]_vars
    PROVE  Leased'
<1>. USE DEF Leased, IInv, TypeOK
<1>1. CASE LeaseExpires
  BY <1>1 DEF LeaseExpires
<1>2. ASSUME NEW w \in Workers, Start(w) PROVE Leased'
  BY <1>2, BackboneAssumption DEF Start
<1>3. ASSUME NEW w \in Workers, Crash(w) \/ LoseLease(w) PROVE Leased'
  BY <1>3 DEF Crash, LoseLease
<1>4. CASE UNCHANGED <<up, holder>>
  BY <1>4
<1>. QED
  BY <1>1, <1>2, <1>3, <1>4
     DEF Next, Work, Process, vars, Enqueue, Abort, Receive, Deliver, Reclaim, SameElsewhere,
         Lookup, CheckBudget, HandlerReturns, HandlerThrows, Clear, ClearThrows, CountFailure,
         Bury, Forget, Store, Publish, Acknowledge

(* As long as no worker outlives its lease, one worker at a time has       *)
(* entries in hand.                                                        *)
LEMMA LeasedMeansOneConsumer ==
    ASSUME IInv, Leased
    PROVE  OneConsumer
  BY DEF IInv, Memory, Leased, OneConsumer

(* A command in the hands of a worker that did not find a result has none  *)
(* until that worker stores its own; what it publishes is what is stored.  *)
Unanswered(w) ==
    /\ pc[w] \in {"budget", "run", "clear", "count", "bury", "forget", "store"} =>
          stored[Command(w)] = "none"
    /\ pc[w] = "publish" => stored[Command(w)] = answer[w]

LInv == IInv /\ Leased /\ (\A w \in Workers : Unanswered(w)) /\ OneAnswer

(* A call of the only worker at work stores a first result, and publishes  *)
(* the stored one.                                                         *)
LEMMA CallAnswersOnce ==
    ASSUME LInv, NEW w \in Workers, Call(w)
    PROVE  Unanswered(w)' /\ OneAnswer'
<1>. DEFINE c == Command(w)
<1>1. taken' = taken /\ Command(w)' = c /\ pc[w] # "ready"
  <2>1. taken' = taken /\ pc[w] # "ready"
    BY DEF Call, At, SameElsewhere, Lookup, CheckBudget, HandlerReturns, HandlerThrows, Clear,
           ClearThrows, CountFailure, Bury, Forget, Store, Publish
  <2>. QED
    BY <2>1, SameBatch
<1>2. c \in Commands
  BY <1>1, CurrentOfBatch DEF LInv, IInv, Memory
<1>. HIDE DEF c
<1>. USE <1>1, <1>2 DEF LInv, IInv, TypeOK, Unanswered, OneAnswer, At, Goto, Respond, keyVars
<1>3. CASE Lookup(w)
  BY <1>3 DEF Lookup, c
<1>4. CASE Store(w)
  BY <1>4 DEF Store, c, Answers
<1>5. CASE Publish(w)
  BY <1>5 DEF Publish, c
<1>6. ASSUME UNCHANGED <<stored, answers>>, stored[c] = "none",
             NEW label \in {"run", "clear", "count", "bury", "forget", "store"}, Goto(w, label)
      PROVE  Unanswered(w)' /\ OneAnswer'
  BY <1>6 DEF c
<1>7. CASE CheckBudget(w) \/ HandlerReturns(w) \/ HandlerThrows(w) \/ Clear(w)
           \/ ClearThrows(w) \/ CountFailure(w) \/ Bury(w) \/ Forget(w)
  <2>1. UNCHANGED <<stored, answers>> /\ stored[c] = "none"
    BY <1>7 DEF c, CheckBudget, HandlerReturns, HandlerThrows, Clear, ClearThrows, CountFailure,
                Bury, Forget
  <2>2. \E label \in {"run", "clear", "count", "bury", "forget", "store"} : Goto(w, label)
    BY <1>7 DEF CheckBudget, HandlerReturns, HandlerThrows, Clear, ClearThrows, CountFailure,
                Bury, Forget
  <2>. QED
    BY <1>6, <2>1, <2>2
<1>. QED
  BY <1>3, <1>4, <1>5, <1>7 DEF Call

(* No step has a second answer for a command that has one. *)
LEMMA AnswerStep ==
    ASSUME LInv, [Next]_vars
    PROVE  (\A w \in Workers : Unanswered(w)') /\ OneAnswer'
<1>. USE DEF LInv
<1>1. OneConsumer
  BY LeasedMeansOneConsumer
<1>2. ASSUME UNCHANGED <<stored, answers>>, NEW v \in Workers,
             Spared(v) \/ pc'[v] \in {"ready", "lookup"}
      PROVE  Unanswered(v)'
  BY <1>2, SameBatch DEF Unanswered, Spared
<1>3. UNCHANGED <<stored, answers>> => OneAnswer'
  BY DEF OneAnswer
<1>4. ASSUME NEW w \in Workers, Call(w)
      PROVE  (\A v \in Workers : Unanswered(v)') /\ OneAnswer'
  <2>1. Unanswered(w)' /\ OneAnswer'
    BY <1>4, CallAnswersOnce
  <2>2. pc[w] # "ready"
    BY <1>4 DEF Call, At, Lookup, CheckBudget, HandlerReturns, HandlerThrows, Clear, ClearThrows,
                CountFailure, Bury, Forget, Store, Publish
  <2>3. ASSUME NEW v \in Workers \ {w} PROVE Unanswered(v)'
    <3>1. pc[v] = "ready"
      BY <1>1, <2>2 DEF OneConsumer, IInv, Memory
    <3>2. pc'[v] = pc[v]
      BY <1>4 DEF IInv, TypeOK, Call, Goto, Lookup, CheckBudget, HandlerReturns, HandlerThrows,
                  Clear, ClearThrows, CountFailure, Bury, Forget, Store, Publish
    <3>. QED
      BY <3>1, <3>2 DEF Unanswered
  <2>. QED
    BY <2>1, <2>3
<1>5. CASE Enqueue \/ LeaseExpires \/ (\E w \in Workers : Start(w)) \/ UNCHANGED vars
  BY <1>2, <1>3, <1>5 DEF Enqueue, LeaseExpires, Start, vars, keyVars, localVars, Spared
<1>6. ASSUME NEW w \in Workers, Crash(w) \/ LoseLease(w) \/ Abort(w) \/ Acknowledge(w)
      PROVE  (\A v \in Workers : Unanswered(v)') /\ OneAnswer'
  <2>1. UNCHANGED <<stored, answers>>
    BY <1>6 DEF Crash, LoseLease, Abort, Acknowledge, keyVars
  <2>2. \A v \in Workers : Spared(v) \/ pc'[v] \in {"ready", "lookup"}
    BY <1>6 DEF IInv, TypeOK, Crash, LoseLease, Abort, Acknowledge, Idle, Goto, Respond, Spared
  <2>. QED
    BY <1>2, <1>3, <2>1, <2>2
<1>7. ASSUME NEW w \in Workers, NEW batch, Receive(w, batch)
      PROVE  (\A v \in Workers : Unanswered(v)') /\ OneAnswer'
  <2>1. UNCHANGED <<stored, answers>>
    BY <1>7 DEF Receive, keyVars
  <2>2. \A v \in Workers : Spared(v) \/ pc'[v] \in {"ready", "lookup"}
    BY <1>7 DEF IInv, TypeOK, Receive, Spared
  <2>. QED
    BY <1>2, <1>3, <2>1, <2>2
<1>. QED
  BY <1>4, <1>5, <1>6, <1>7 DEF Next, Work, Process, Deliver, Reclaim, Call

(* The invariant of a partition whose leases are respected. *)
LEMMA LeasedInvariance ==
    ASSUME ~ LeaseOutlived
    PROVE  Safety => []LInv
<1>1. Init => LInv
  BY InitInv DEF Init, LInv, Leased, Unanswered, OneAnswer
<1>2. IInv /\ [Next]_vars => IInv'
  BY TypeStep, MemoryStep, DeadAreBuriedStep, NothingLostStep DEF IInv
<1>3. LInv /\ [Next]_vars => LInv'
  BY <1>2, LeasedStep, AnswerStep DEF LInv
<1>. QED
  BY <1>1, <1>3, PTL DEF Safety

(* When no worker outlives its lease, handlers of the partition never run  *)
(* side by side.                                                           *)
THEOREM LeasesExclude ==
    ASSUME ~ LeaseOutlived
    PROVE  Safety => []OneConsumer
<1>1. LInv => OneConsumer
  BY LeasedMeansOneConsumer DEF LInv
<1>. QED
  BY LeasedInvariance, <1>1, PTL

(* When no worker outlives its lease, every delivery and every copy of a   *)
(* command is answered alike.                                              *)
THEOREM CommandsAnsweredOnce ==
    ASSUME ~ LeaseOutlived
    PROVE  Safety => []OneAnswer
<1>1. LInv => OneAnswer
  BY DEF LInv
<1>. QED
  BY LeasedInvariance, <1>1, PTL

-----------------------------------------------------------------------------
(* The attempts of a command *)

Executions(c) == succeeded[c] + failed[c]

(* Workers that executed a command and have not yet counted it, or cleared *)
(* the counter.                                                            *)
Owing(c) == {w \in Workers : pc[w] \in {"clear", "count"} /\ Command(w) = c}

(* The retry counter never runs ahead of the executions, even if several   *)
(* workers are about to increment it.                                      *)
CountedOnce ==
    \A c \in Commands : retries[c] + Cardinality(Owing(c)) <= Executions(c)

(* A worker on its way to the dead letters has seen the limit reached. *)
LimitSeen ==
    \A w \in Workers : pc[w] = "bury" => Executions(Command(w)) >= MaxAttempts

AInv == IInv /\ CountedOnce /\ LimitSeen /\ GivenUpAfterAttempts

(* The set of owing workers is finite, whichever way it changes. *)
LEMMA OwingFinite ==
    ASSUME NEW c
    PROVE  IsFiniteSet(Owing(c)) /\ Cardinality(Owing(c)) \in Nat
  BY BackboneAssumption, FS_Subset, FS_CardinalityType DEF Owing

(* Executions are never taken back. *)
LEMMA ExecutionsGrow ==
    ASSUME TypeOK, [Next]_vars, NEW c \in Commands
    PROVE  Executions(c)' >= Executions(c) /\ Executions(c) \in Nat
<1>. USE DEF TypeOK, Executions
<1>1. CASE UNCHANGED history
  BY <1>1 DEF history
<1>2. ASSUME NEW w \in Workers, HandlerReturns(w) \/ HandlerThrows(w)
      PROVE  Executions(c)' >= Executions(c) /\ Executions(c) \in Nat
  BY <1>2 DEF HandlerReturns, HandlerThrows
<1>. QED
  BY <1>1, <1>2
     DEF Next, Work, Process, vars, Enqueue, LeaseExpires, Start, Crash, LoseLease, Abort,
         Receive, Deliver, Reclaim, Lookup, CheckBudget, Clear, ClearThrows, CountFailure,
         Bury, Forget, Store, Publish, Acknowledge

(* A worker's step changes the set of owing workers by that worker only. *)
LEMMA OwingChange ==
    ASSUME NEW w \in Workers, \A v \in Workers \ {w} : Spared(v), NEW c
    PROVE  Cardinality(Owing(c)') = Cardinality(Owing(c))
               + (IF w \in Owing(c)' THEN 1 ELSE 0) - (IF w \in Owing(c) THEN 1 ELSE 0)
<1>. DEFINE others == Owing(c) \ {w}
<1>1. Owing(c)' \ {w} = others
  <2>1. \A v \in Workers \ {w} : Command(v)' = Command(v) /\ pc'[v] = pc[v]
    BY SameBatch DEF Spared
  <2>. QED
    BY <2>1 DEF Owing
<1>2. IsFiniteSet(others)
  BY OwingFinite, FS_Subset
<1>3. Cardinality(others) \in Nat
  BY <1>2, FS_CardinalityType
<1>4. Cardinality(others \cup {w}) = Cardinality(others) + 1
  BY <1>2, FS_AddElement
<1>5. Cardinality(Owing(c)) = Cardinality(others) + (IF w \in Owing(c) THEN 1 ELSE 0)
  <2>1. Owing(c) = IF w \in Owing(c) THEN others \cup {w} ELSE others
    OBVIOUS
  <2>. QED
    BY <1>3, <1>4, <2>1
<1>6. Cardinality(Owing(c)') = Cardinality(others) + (IF w \in Owing(c)' THEN 1 ELSE 0)
  <2>1. Owing(c)' = IF w \in Owing(c)' THEN others \cup {w} ELSE others
    BY <1>1
  <2>. QED
    BY <1>3, <1>4, <2>1
<1>. HIDE DEF others
<1>. QED
  BY <1>3, <1>5, <1>6

(* A call of a worker counts an execution at most once. *)
LEMMA CallCountsOnce ==
    ASSUME AInv, NEW w \in Workers, Call(w)
    PROVE  CountedOnce'
<1>. DEFINE d == Command(w)
<1>1. Command(w)' = d /\ d \in Commands /\ (\A v \in Workers \ {w} : Spared(v))
  <2>1. taken' = taken /\ pc[w] # "ready" /\ (\A v \in Workers \ {w} : Spared(v))
    BY DEF Call, At, Lookup, CheckBudget, HandlerReturns, HandlerThrows, Clear, ClearThrows,
           CountFailure, Bury, Forget, Store, Publish, Goto, Respond, SameElsewhere, Spared,
           AInv, IInv, TypeOK
  <2>. QED
    BY <2>1, SameBatch, CurrentOfBatch DEF AInv, IInv, Memory
<1>. SUFFICES ASSUME NEW c \in Commands
              PROVE  retries'[c] + Cardinality(Owing(c)') <= Executions(c)'
  BY DEF CountedOnce
<1>. DEFINE before == IF w \in Owing(c) THEN 1 ELSE 0
            after == IF w \in Owing(c)' THEN 1 ELSE 0
            n == Cardinality(Owing(c))
<1>2. Cardinality(Owing(c)') = n + after - before
  BY <1>1, OwingChange
<1>3. n \in Nat /\ n >= before
  <2>1. n \in Nat /\ (Owing(c) # {} => n # 0)
    BY OwingFinite, FS_EmptySet
  <2>. QED
    BY <2>1
<1>4. /\ (w \in Owing(c)) <=> (pc[w] \in {"clear", "count"} /\ d = c)
      /\ (w \in Owing(c)') <=> (pc'[w] \in {"clear", "count"} /\ d = c)
  BY <1>1 DEF Owing
<1>5. retries[c] + n <= succeeded[c] + failed[c]
  BY DEF AInv, CountedOnce, Executions
<1>6. retries[c] \in Nat /\ succeeded[c] \in Nat /\ failed[c] \in Nat
  BY DEF AInv, IInv, TypeOK
<1>7. retries'[c] + after - before <=
          retries[c] + (succeeded'[c] + failed'[c]) - (succeeded[c] + failed[c])
      \/ retries'[c] + n + after - before <= succeeded'[c] + failed'[c]
  <2>1. /\ retries \in [Commands -> Nat] /\ succeeded \in [Commands -> Nat]
        /\ failed \in [Commands -> Nat] /\ pc' = [pc EXCEPT ![w] = pc'[w]]
        /\ pc \in [Workers -> {"ready", "lookup", "budget", "run", "clear", "count",
                               "bury", "forget", "store", "publish", "ack"}]
    BY DEF AInv, IInv, TypeOK, Call, At, Lookup, CheckBudget, HandlerReturns, HandlerThrows,
           Clear, ClearThrows, CountFailure, Bury, Forget, Store, Publish, Goto
  <2>. HIDE DEF d, n
  <2>. USE <1>4, <1>6, <2>1 DEF At, Goto, history, keyVars
  <2>2. CASE HandlerReturns(w)
    BY <2>2 DEF HandlerReturns, d
  <2>3. CASE HandlerThrows(w)
    BY <2>3 DEF HandlerThrows, d
  <2>4. CASE Clear(w) \/ Forget(w)
    BY <1>3, <1>5, <2>4 DEF Clear, Forget, d
  <2>5. CASE CountFailure(w)
    BY <2>5 DEF CountFailure, d
  <2>6. CASE Lookup(w) \/ CheckBudget(w) \/ ClearThrows(w) \/ Bury(w) \/ Store(w) \/ Publish(w)
    BY <2>6 DEF Lookup, CheckBudget, ClearThrows, Bury, Store, Publish
  <2>. QED
    BY <2>2, <2>3, <2>4, <2>5, <2>6 DEF Call
<1>. QED
  <2>1. retries'[c] \in Nat /\ succeeded'[c] \in Nat /\ failed'[c] \in Nat
    BY CallTypes DEF AInv, IInv, TypeOK
  <2>. HIDE DEF n
  <2>. QED
    BY <1>2, <1>3, <1>5, <1>6, <1>7, <2>1 DEF Executions

(* No step counts more than was executed. *)
LEMMA CountedOnceStep ==
    ASSUME AInv, [Next]_vars
    PROVE  CountedOnce'
<1>. USE DEF AInv
<1>1. ASSUME UNCHANGED <<retries, succeeded, failed>>,
             \A v \in Workers : Spared(v) \/ pc'[v] \notin {"clear", "count"}
      PROVE  CountedOnce'
  <2>. SUFFICES ASSUME NEW c \in Commands
                PROVE  retries[c] + Cardinality(Owing(c)') <= Executions(c)
    BY <1>1 DEF CountedOnce, Executions
  <2>1. Owing(c)' \subseteq Owing(c)
    BY <1>1, SameBatch DEF Owing, Spared
  <2>2. Cardinality(Owing(c)') <= Cardinality(Owing(c)) /\ Cardinality(Owing(c)') \in Nat
    BY <2>1, OwingFinite, FS_Subset, FS_CardinalityType
  <2>3. retries[c] + Cardinality(Owing(c)) <= Executions(c)
    BY DEF CountedOnce
  <2>4. retries[c] \in Nat /\ Executions(c) \in Nat /\ Cardinality(Owing(c)) \in Nat
    BY OwingFinite DEF IInv, TypeOK, Executions
  <2>. QED
    BY <2>2, <2>3, <2>4
<1>2. CASE Enqueue \/ LeaseExpires \/ (\E w \in Workers : Start(w)) \/ UNCHANGED vars
  BY <1>1, <1>2 DEF Enqueue, LeaseExpires, Start, vars, keyVars, localVars, history, Spared
<1>3. ASSUME NEW w \in Workers, Crash(w) \/ LoseLease(w) \/ Abort(w) \/ Acknowledge(w)
      PROVE  CountedOnce'
  <2>1. UNCHANGED <<retries, succeeded, failed>>
    BY <1>3 DEF Crash, LoseLease, Abort, Acknowledge, keyVars, history
  <2>2. \A v \in Workers : Spared(v) \/ pc'[v] \notin {"clear", "count"}
    BY <1>3 DEF IInv, TypeOK, Crash, LoseLease, Abort, Acknowledge, Idle, Goto, Respond, Spared
  <2>. QED
    BY <1>1, <2>1, <2>2
<1>4. ASSUME NEW w \in Workers, NEW batch, Receive(w, batch)
      PROVE  CountedOnce'
  <2>1. UNCHANGED <<retries, succeeded, failed>>
    BY <1>4 DEF Receive, keyVars, history
  <2>2. \A v \in Workers : Spared(v) \/ pc'[v] \notin {"clear", "count"}
    BY <1>4 DEF IInv, TypeOK, Receive, Spared
  <2>. QED
    BY <1>1, <2>1, <2>2
<1>. QED
  BY <1>2, <1>3, <1>4, CallCountsOnce DEF Next, Work, Process, Deliver, Reclaim, Call

(* A worker finds the limit reached only when it is. *)
LEMMA LimitSeenStep ==
    ASSUME AInv, [Next]_vars
    PROVE  LimitSeen'
<1>. USE DEF AInv
<1>1. ASSUME NEW v \in Workers, pc'[v] = "bury", Spared(v)
      PROVE  Executions(Command(v))' >= MaxAttempts
  <2>1. Command(v)' = Command(v) /\ pc[v] = "bury"
    BY <1>1, SameBatch DEF Spared
  <2>2. Command(v) \in Commands
    BY <2>1, CurrentOfBatch DEF IInv, Memory
  <2>3. Executions(Command(v)) >= MaxAttempts
    BY <2>1 DEF LimitSeen
  <2>. DEFINE c == Command(v)
  <2>4. succeeded'[c] + failed'[c] >= succeeded[c] + failed[c]
    BY <2>2, ExecutionsGrow DEF IInv, Executions
  <2>5. /\ succeeded[c] \in Nat /\ failed[c] \in Nat
        /\ succeeded'[c] \in Nat /\ failed'[c] \in Nat
    BY <2>2, TypeStep DEF IInv, TypeOK
  <2>6. succeeded[c] + failed[c] >= MaxAttempts
    BY <2>3 DEF Executions
  <2>7. Executions(Command(v))' = succeeded'[c] + failed'[c]
    BY <2>1 DEF Executions
  <2>. HIDE DEF c
  <2>. QED
    BY <2>4, <2>5, <2>6, <2>7, BackboneAssumption
<1>2. ASSUME NEW v \in Workers, pc'[v] = "bury", ~ Spared(v)
      PROVE  Executions(Command(v))' >= MaxAttempts
  <2>1. CheckBudget(v) \/ CountFailure(v)
    BY <1>2 DEF IInv, TypeOK, Next, Work, Process, vars, keyVars, localVars, Enqueue,
       LeaseExpires, Start, Crash, LoseLease, Abort, Idle, Receive, Deliver, Reclaim, Lookup,
       HandlerReturns, HandlerThrows, Clear, ClearThrows, Bury, Forget, Store, Publish,
       Acknowledge, CheckBudget, CountFailure, At, Goto, Respond, SameElsewhere, Spared
  <2>. DEFINE c == Command(v)
  <2>2. taken' = taken /\ pc[v] \in {"budget", "count"} /\ UNCHANGED history
    BY <2>1 DEF CheckBudget, CountFailure, At, SameElsewhere
  <2>3. Command(v)' = c
    BY <2>2, SameBatch
  <2>4. c \in Commands
    BY <2>2, CurrentOfBatch DEF IInv, Memory
  <2>5. retries[c] + Cardinality(Owing(c)) <= Executions(c)
    BY <2>4 DEF CountedOnce
  <2>6. Cardinality(Owing(c)) \in Nat /\ (pc[v] = "count" => Cardinality(Owing(c)) >= 1)
    <3>1. pc[v] = "count" => v \in Owing(c)
      BY DEF Owing
    <3>. QED
      BY <3>1, OwingFinite, FS_EmptySet
  <2>7. retries[c] + (IF pc[v] = "count" THEN 1 ELSE 0) >= MaxAttempts
    BY <1>2, <2>1, <2>4 DEF CheckBudget, CountFailure, At, Goto, IInv, TypeOK
  <2>8. retries[c] \in Nat /\ Executions(c) \in Nat
    BY <2>4 DEF IInv, TypeOK, Executions
  <2>9. Executions(Command(v))' = Executions(c)
    BY <2>2, <2>3 DEF Executions, history
  <2>. HIDE DEF c
  <2>. QED
    BY <2>5, <2>6, <2>7, <2>8, <2>9, BackboneAssumption
<1>. QED
  BY <1>1, <1>2 DEF LimitSeen

(* Only a worker that found the limit reached buries a command. *)
LEMMA GivenUpStep ==
    ASSUME AInv, [Next]_vars
    PROVE  GivenUpAfterAttempts'
<1>. USE DEF AInv
<1>. SUFFICES ASSUME NEW c \in dead'
              PROVE  succeeded'[c] + failed'[c] >= MaxAttempts
  BY DEF GivenUpAfterAttempts
<1>1. c \in Commands /\ succeeded[c] + failed[c] >= MaxAttempts
  <2>1. CASE c \in dead
    BY <2>1 DEF GivenUpAfterAttempts, IInv, TypeOK
  <2>2. CASE c \notin dead
    <3>1. PICK w \in Workers : Bury(w) /\ c = Command(w)
      BY <2>2
         DEF Next, Work, Process, vars, keyVars, Enqueue, LeaseExpires, Start, Crash, LoseLease,
             Abort, Receive, Deliver, Reclaim, Lookup, CheckBudget, HandlerReturns,
             HandlerThrows, Clear, ClearThrows, CountFailure, Bury, Forget, Store, Publish,
             Acknowledge
    <3>2. pc[w] = "bury"
      BY <3>1 DEF Bury, At
    <3>3. c \in Commands
      BY <3>1, <3>2, CurrentOfBatch DEF IInv, Memory
    <3>. QED
      BY <3>1, <3>2, <3>3 DEF LimitSeen, Executions
  <2>. QED
    BY <2>1, <2>2
<1>2. succeeded'[c] + failed'[c] >= succeeded[c] + failed[c]
  BY <1>1, ExecutionsGrow DEF IInv, Executions
<1>3. /\ succeeded[c] \in Nat /\ failed[c] \in Nat
      /\ succeeded'[c] \in Nat /\ failed'[c] \in Nat
  BY <1>1, TypeStep DEF IInv, TypeOK
<1>. QED
  BY <1>1, <1>2, <1>3, BackboneAssumption

(* A command is among the dead letters only after MaxAttempts executions,  *)
(* however many workers, crashes, copies and expired leases there were:    *)
(* the counter and its increment are kept with the command, not a worker.  *)
THEOREM LimitRespected == Safety => []GivenUpAfterAttempts
<1>1. Init => AInv
  <2>1. ASSUME Init, NEW c \in Commands PROVE retries[c] + Cardinality(Owing(c)) <= Executions(c)
    <3>1. Owing(c) = {}
      BY <2>1 DEF Init, Owing
    <3>. QED
      BY <2>1, <3>1, FS_EmptySet DEF Init, Executions
  <2>. QED
    BY <2>1, InitInv DEF Init, AInv, CountedOnce, LimitSeen, GivenUpAfterAttempts
<1>2. AInv /\ [Next]_vars => AInv'
  <2>1. IInv /\ [Next]_vars => IInv'
    BY TypeStep, MemoryStep, DeadAreBuriedStep, NothingLostStep DEF IInv
  <2>. QED
    BY <2>1, CountedOnceStep, LimitSeenStep, GivenUpStep DEF AInv
<1>3. AInv => GivenUpAfterAttempts
  BY DEF AInv
<1>. QED
  BY <1>1, <1>2, <1>3, PTL DEF Safety
=============================================================================
