-------------------------- MODULE RunOutcomeProofs --------------------------
(***************************************************************************)
(* Theorems about RunOutcome for every set of workers, owners and agents   *)
(* and every limit on the claims of a callback.                            *)
(***************************************************************************)
EXTENDS RunOutcome, TLAPS

USE MaxAttemptsAssumption

-----------------------------------------------------------------------------
(* The inductive invariant *)

ByItself == {"completed", "failed", "timeout"}

(* The callback is born with the notice, which repeats the final status;   *)
(* an attempt that runs, or was cancelled, has neither.                    *)
NoticeIsStatus ==
    /\ status # "running" => Begun
    /\ status \in ByItself => notice = status
    /\ status \in {"running", "cancelled"} => notice = "none"
    /\ row # "none" => status \in ByItself

(* What workers remember: a claim of a row that exists, no newer than the  *)
(* row's count; and an accepted callback has reached the run.              *)
WorkersKnow ==
    \A w \in Workers :
        /\ phase[w] # "idle" => row # "none"
        /\ phase[w] = "accepted" => run \in Web!Final
        /\ claim[w] <= attempts

IInv ==
    /\ TypeOK
    /\ NoticeIsStatus
    /\ WorkersKnow
    /\ Outbox!DeadAfterAllAttempts
    /\ OneEnding
    /\ RunTellsAttempt
    /\ DeliveredIsKnown
    /\ AnswersAreTrue

USE DEF ByItself, Begun, Web!Open, Web!Final, Web!CancelAnswer, Outbox!RowStatus,
        Outbox!Phase, Outbox!Settled

-----------------------------------------------------------------------------
(* What each kind of step does *)

(* The attempt ends by itself: everything is told in one transaction.      *)
LEMMA AttemptEndsEffect ==
    ASSUME AttemptEnds
    PROVE  /\ Begun /\ status = "running" /\ status' \in ByItself /\ notice' = status'
           /\ row = "none" /\ row' = "pending" /\ ripe' = TRUE
           /\ UNCHANGED <<connect, attempts, phase, claim, webVars>>
  BY DEF AttemptEnds, Attempt!Finish, Attempt!TimeOut, Attempt!FinalStatus, Outbox!Enqueue

(* A cancellation touches the attempt only while it runs.                  *)
LEMMA CancelEffect ==
    ASSUME NEW c \in Cancellers, CancelAttempt(c) \/ CancelAnswerLost(c)
    PROVE  /\ \/ UNCHANGED <<status, notice>>
              \/ Begun /\ status = "running" /\ status' = "cancelled" /\ notice' = notice
           /\ cancellation[c] = "asking"
           /\ \E a \in {"writing", "409", "503"} :
                /\ cancellation' = [cancellation EXCEPT ![c] = a]
                /\ a = "409" => Begun /\ status \notin {"running", "cancelled"}
           /\ UNCHANGED <<connect, outboxVars, run, connected, endings, submission>>
<1>1. CASE CancelAttempt(c)
  BY <1>1 DEF CancelAttempt, Web!AttemptCancelled, Attempt!Cancel, attemptVars
<1>2. CASE CancelAnswerLost(c)
  BY <1>2 DEF CancelAnswerLost, Web!OrchestratorSilent, Attempt!Cancel, attemptVars
<1>. QED
  BY <1>1, <1>2

(* A callback changes the run of an open run only, to what it reports.     *)
LEMMA CompleteEffect ==
    ASSUME IInv, NEW w \in Workers, phase[w] = "posting", Web!Complete(notice)
    PROVE  /\ status \in ByItself /\ notice = status /\ Begun
           /\ \/ run \in Web!Open /\ run' = notice /\ endings' = <<notice>>
              \/ run \in Web!Final /\ UNCHANGED <<run, endings>>
           /\ run' \in Web!Final
           /\ UNCHANGED <<connected, submission, cancellation>>
<1>1. status \in ByItself /\ notice = status /\ Begun
  BY DEF IInv, WorkersKnow, NoticeIsStatus
<1>2. run \in Web!Open => endings = <<>>
  BY DEF IInv, OneEnding
<1>3. CASE run \in Web!Open
  <2>1. run' = notice /\ endings' = Append(<<>>, notice)
    BY <1>2, <1>3 DEF Web!Complete
  <2>2. Append(<<>>, notice) = <<notice>>
    OBVIOUS
  <2>. QED
    BY <1>1, <1>3, <2>1, <2>2 DEF Web!Complete
<1>4. CASE run \in Web!Final
  BY <1>1, <1>4 DEF Web!Complete
<1>. QED
  BY <1>3, <1>4 DEF IInv, TypeOK

(* A worker's own step moves an unsettled row, and only a worker whose     *)
(* callback was accepted marks it delivered.                               *)
LEMMA OutboxEffect ==
    ASSUME IInv, NEW w \in Workers, Outbox!Step(w) \/ Outbox!Abandon(w)
    PROVE  /\ Outbox!TypeOK'
           /\ row' # row => row \in {"pending", "delivering"} /\ row' # "none"
           /\ row' = "delivered" => row = "delivered" \/ phase[w] = "accepted"
           /\ Outbox!DeadAfterAllAttempts'
           /\ \A v \in Workers :
                /\ phase'[v] # "idle" => row' # "none"
                /\ phase'[v] = "accepted" => phase[v] = "accepted"
                /\ claim'[v] <= attempts'
<1>. USE DEF IInv, TypeOK, Outbox!TypeOK, WorkersKnow, Outbox!DeadAfterAllAttempts
<1>1. CASE Outbox!GiveUp(w)
  BY <1>1 DEF Outbox!GiveUp, Outbox!Claimable
<1>2. CASE Outbox!Claim(w)
  <2>. USE <1>2 DEF Outbox!Claim, Outbox!Claimable
  <2>1. attempts' \in 0..MaxAttempts /\ attempts' > attempts
    OBVIOUS
  <2>2. claim' \in [Workers -> 0..MaxAttempts]
    BY <2>1
  <2>3. phase' \in [Workers -> Outbox!Phase]
    OBVIOUS
  <2>4. \A v \in Workers : claim'[v] <= attempts'
    BY <2>1
  <2>. QED
    BY <2>1, <2>2, <2>3, <2>4
<1>3. CASE Outbox!MarkDelivered(w)
  BY <1>3 DEF Outbox!MarkDelivered, Outbox!Finish
<1>4. CASE Outbox!MarkThrows(w)
  BY <1>4 DEF Outbox!MarkThrows
<1>5. CASE Outbox!MarkFailed(w)
  <2>. USE <1>5 DEF Outbox!MarkFailed, Outbox!Finish
  <2>1. claim' \in [Workers -> 0..MaxAttempts] /\ phase' \in [Workers -> Outbox!Phase]
    OBVIOUS
  <2>2. \A v \in Workers : claim'[v] <= attempts'
    OBVIOUS
  <2>3. claim[w] >= MaxAttempts => attempts = MaxAttempts
    OBVIOUS
  <2>4. row' \in Outbox!RowStatus /\ ripe' \in BOOLEAN
    OBVIOUS
  <2>. QED
    BY <2>1, <2>2, <2>3, <2>4
<1>6. CASE Outbox!Abandon(w)
  BY <1>6 DEF Outbox!Abandon, Outbox!Finish
<1>. QED
  BY <1>1, <1>2, <1>3, <1>4, <1>5, <1>6 DEF Outbox!Step

(* The answer to a POST is only remembered.                                *)
LEMMA AnswerEffect ==
    ASSUME IInv, NEW w \in Workers, Outbox!Answered(w) \/ Outbox!Refused(w)
    PROVE  /\ phase[w] = "posting" /\ row # "none"
           /\ Outbox!TypeOK'
           /\ \A v \in Workers : phase'[v] # phase[v] => v = w
           /\ Outbox!Refused(w) => phase'[w] = "refused"
           /\ UNCHANGED <<row, attempts, ripe, claim>>
  BY DEF IInv, TypeOK, Outbox!TypeOK, WorkersKnow, Outbox!Answered, Outbox!Refused

(* A report of the agent or a progress event leaves an ended run alone.    *)
LEMMA ReportEffect ==
    ASSUME IInv, ReportRunning \/ (\E m \in Submitters : MetadataStep(m))
    PROVE  /\ run' = run \/ (run \in Web!Open /\ run' \in Web!Open)
           /\ submission' \in [Submitters ->
                Web!Open \cup {"none", "locked", "written", "lost"}]
           /\ UNCHANGED <<connect, attemptVars, outboxVars, endings, cancellation>>
<1>. USE DEF IInv, TypeOK
<1>1. CASE ReportRunning
  BY <1>1 DEF ReportRunning, Web!ReportStatus
<1>2. ASSUME NEW m \in Submitters, MetadataStep(m), Web!ReadForMetadata(m)
      PROVE  /\ run' = run /\ submission' \in [Submitters ->
                  Web!Open \cup {"none", "locked", "written", "lost"}]
             /\ UNCHANGED <<endings, cancellation>>
  BY <1>2 DEF Web!ReadForMetadata
<1>3. ASSUME NEW m \in Submitters, MetadataStep(m), Web!WriteMetadata(m)
      PROVE  /\ run \in Web!Open /\ run' \in Web!Open
             /\ submission' \in [Submitters ->
                  Web!Open \cup {"none", "locked", "written", "lost"}]
             /\ UNCHANGED <<endings, cancellation>>
  BY <1>3 DEF Web!WriteMetadata
<1>4. ASSUME NEW m \in Submitters, MetadataStep(m), Web!MetadataConflict(m)
      PROVE  /\ run' = run /\ submission' \in [Submitters ->
                  Web!Open \cup {"none", "locked", "written", "lost"}]
             /\ UNCHANGED <<endings, cancellation>>
  BY <1>4 DEF Web!MetadataConflict
<1>. QED
  BY <1>1, <1>2, <1>3, <1>4 DEF MetadataStep

(* The Web application's own steps of a cancellation.                      *)
LEMMA CancelStepEffect ==
    ASSUME IInv, NEW c \in Cancellers, CancelStep(c)
    PROVE  /\ \/ UNCHANGED <<run, endings>>
              \/ run \in Web!Open /\ run' = "cancelled" /\ endings' = <<"cancelled">>
           /\ \E a \in {"200", "409", "503", "asking"} :
                /\ cancellation' = [cancellation EXCEPT ![c] = a]
                /\ a = "200" => run' = "cancelled"
                /\ a = "409" => run' \in Web!Final \ {"cancelled"}
           /\ UNCHANGED <<connect, attemptVars, outboxVars, connected, submission>>
<1>. USE DEF IInv, TypeOK, OneEnding, CancelStep
<1>1. CASE Web!ReadForCancel(c)
  BY <1>1 DEF Web!ReadForCancel
<1>2. CASE Web!OrchestratorSilent(c)
  BY <1>2 DEF Web!OrchestratorSilent
<1>3. CASE Web!CancelLost(c)
  BY <1>3 DEF Web!CancelLost
<1>4. CASE Web!CancelRun(c)
  <2>1. CASE run \in Web!Open
    BY <1>4, <2>1 DEF Web!CancelRun
  <2>2. CASE run \in Web!Final
    BY <1>4, <2>2 DEF Web!CancelRun
  <2>. QED
    BY <2>1, <2>2
<1>. QED
  BY <1>1, <1>2, <1>3, <1>4

-----------------------------------------------------------------------------
(* The invariant *)

LEMMA IInvHolds == Init => IInv
<1>. SUFFICES ASSUME Init PROVE IInv
  OBVIOUS
<1>. USE DEF Init, Attempt!Init, Outbox!Init, Web!Init
<1>1. TypeOK
  <2>1. Outbox!TypeOK
    <3>1. 0 \in 0..MaxAttempts
      OBVIOUS
    <3>2. claim \in [Workers -> 0..MaxAttempts]
      BY <3>1
    <3>3. phase \in [Workers -> Outbox!Phase]
      OBVIOUS
    <3>. QED
      BY <3>1, <3>2, <3>3 DEF Outbox!TypeOK
  <2>2. /\ submission \in [Submitters -> Web!Open \cup {"none", "locked", "written", "lost"}]
        /\ cancellation \in [Cancellers -> {"none", "asking", "writing"} \cup Web!CancelAnswer]
    OBVIOUS
  <2>. QED
    BY <2>1, <2>2 DEF TypeOK
<1>2. NoticeIsStatus /\ WorkersKnow /\ Outbox!DeadAfterAllAttempts
  BY DEF NoticeIsStatus, WorkersKnow, Outbox!DeadAfterAllAttempts
<1>3. OneEnding /\ RunTellsAttempt /\ DeliveredIsKnown /\ AnswersAreTrue
  BY DEF OneEnding, RunTellsAttempt, DeliveredIsKnown, AnswersAreTrue
<1>. QED
  BY <1>1, <1>2, <1>3 DEF IInv

(* A step that leaves the callback and the attempt alone. *)
LEMMA WebStepKeeps ==
    ASSUME IInv, UNCHANGED <<connect, status, notice, outboxVars>>,
           TypeOK', OneEnding', AnswersAreTrue',
           run \in Web!Final => run' = run,
           run' \in Web!Final /\ run' # run => run' = "cancelled"
    PROVE  IInv'
<1>1. NoticeIsStatus' /\ Outbox!DeadAfterAllAttempts'
  BY DEF IInv, NoticeIsStatus, Outbox!DeadAfterAllAttempts, outboxVars
<1>2. WorkersKnow' /\ DeliveredIsKnown'
  BY DEF IInv, WorkersKnow, DeliveredIsKnown, outboxVars
<1>3. RunTellsAttempt'
  BY DEF IInv, RunTellsAttempt, TypeOK, outboxVars
<1>. QED
  BY <1>1, <1>2, <1>3 DEF IInv

LEMMA NextKeepsIInv == IInv /\ [Next]_vars => IInv'
<1>. SUFFICES ASSUME IInv, [Next]_vars PROVE IInv'
  OBVIOUS
<1>1. CASE Admit \/ UNCHANGED vars
  BY <1>1 DEF Admit, vars, attemptVars, outboxVars, webVars, IInv, TypeOK, Outbox!TypeOK,
     NoticeIsStatus, WorkersKnow, Outbox!DeadAfterAllAttempts, OneEnding, RunTellsAttempt,
     DeliveredIsKnown, AnswersAreTrue
<1>2. CASE Initialize
  BY <1>2 DEF Initialize, attemptVars, outboxVars, webVars, IInv, TypeOK, Outbox!TypeOK,
     NoticeIsStatus, WorkersKnow, Outbox!DeadAfterAllAttempts, OneEnding, RunTellsAttempt,
     DeliveredIsKnown, AnswersAreTrue
<1>3. CASE AttemptEnds
  BY <1>3, AttemptEndsEffect DEF webVars, IInv, TypeOK, Outbox!TypeOK,
     NoticeIsStatus, WorkersKnow, Outbox!DeadAfterAllAttempts, OneEnding, RunTellsAttempt,
     DeliveredIsKnown, AnswersAreTrue
<1>4. CASE TimePasses
  BY <1>4 DEF TimePasses, Outbox!TimePasses, attemptVars, webVars, IInv, TypeOK, Outbox!TypeOK,
     NoticeIsStatus, WorkersKnow, Outbox!DeadAfterAllAttempts, OneEnding, RunTellsAttempt,
     DeliveredIsKnown, AnswersAreTrue
<1>5. ASSUME ReportRunning \/ (\E m \in Submitters : MetadataStep(m)) PROVE IInv'
  <2>1. TypeOK' /\ OneEnding' /\ AnswersAreTrue'
    BY <1>5, ReportEffect DEF IInv, TypeOK, OneEnding, AnswersAreTrue, attemptVars, outboxVars,
       Outbox!TypeOK
  <2>. QED
    BY <1>5, <2>1, ReportEffect, WebStepKeeps DEF attemptVars
<1>6. ASSUME NEW c \in Cancellers, CancelStep(c) PROVE IInv'
  <2>1. PICK a \in {"200", "409", "503", "asking"} :
          /\ cancellation' = [cancellation EXCEPT ![c] = a]
          /\ a = "200" => run' = "cancelled"
          /\ a = "409" => run' \in Web!Final \ {"cancelled"}
    BY <1>6, CancelStepEffect
  <2>2. cancellation' \in [Cancellers -> {"none", "asking", "writing"} \cup Web!CancelAnswer]
    BY <2>1 DEF IInv, TypeOK
  <2>3. Outbox!TypeOK'
    BY <1>6, CancelStepEffect DEF IInv, TypeOK, Outbox!TypeOK, outboxVars
  <2>4. TypeOK' /\ OneEnding'
    BY <1>6, <2>2, <2>3, CancelStepEffect DEF IInv, TypeOK, OneEnding, attemptVars
  <2>5. AnswersAreTrue'
    BY <1>6, <2>1, CancelStepEffect DEF IInv, TypeOK, AnswersAreTrue, attemptVars
  <2>. QED
    BY <1>6, <2>4, <2>5, CancelStepEffect, WebStepKeeps DEF attemptVars
<1>7. ASSUME NEW c \in Cancellers, CancelAttempt(c) \/ CancelAnswerLost(c) PROVE IInv'
  <2>1. PICK a \in {"writing", "409", "503"} :
          /\ cancellation' = [cancellation EXCEPT ![c] = a]
          /\ a = "409" => Begun /\ status \notin {"running", "cancelled"}
    BY <1>7, CancelEffect
  <2>2. cancellation' \in [Cancellers -> {"none", "asking", "writing"} \cup Web!CancelAnswer]
    BY <2>1 DEF IInv, TypeOK
  <2>3. Outbox!TypeOK'
    BY <1>7, CancelEffect DEF IInv, TypeOK, Outbox!TypeOK, outboxVars
  <2>4. TypeOK'
    BY <1>7, <2>2, <2>3, CancelEffect DEF IInv, TypeOK
  <2>5. AnswersAreTrue'
    BY <1>7, <2>1, CancelEffect DEF IInv, TypeOK, AnswersAreTrue
  <2>6. NoticeIsStatus' /\ WorkersKnow' /\ Outbox!DeadAfterAllAttempts'
    BY <1>7, CancelEffect DEF IInv, NoticeIsStatus, WorkersKnow, Outbox!DeadAfterAllAttempts,
       outboxVars
  <2>7. OneEnding' /\ RunTellsAttempt' /\ DeliveredIsKnown'
    BY <1>7, CancelEffect DEF IInv, OneEnding, RunTellsAttempt, DeliveredIsKnown, outboxVars,
       NoticeIsStatus
  <2>. QED
    BY <2>4, <2>5, <2>6, <2>7 DEF IInv
<1>8. ASSUME NEW w \in Workers, OutboxStep(w) \/ Abandon(w) PROVE IInv'
  <2>1. Outbox!Step(w) \/ Outbox!Abandon(w)
    BY <1>8 DEF OutboxStep, Abandon
  <2>2. UNCHANGED <<connect, attemptVars, webVars>>
    BY <1>8 DEF OutboxStep, Abandon
  <2>3. TypeOK' /\ NoticeIsStatus' /\ OneEnding' /\ RunTellsAttempt' /\ AnswersAreTrue'
    BY <2>1, <2>2, OutboxEffect DEF IInv, TypeOK, NoticeIsStatus, WorkersKnow, OneEnding,
       RunTellsAttempt, AnswersAreTrue, attemptVars, webVars
  <2>4. WorkersKnow' /\ DeliveredIsKnown' /\ Outbox!DeadAfterAllAttempts'
    BY <2>1, <2>2, OutboxEffect DEF IInv, WorkersKnow, DeliveredIsKnown, webVars
  <2>. QED
    BY <2>3, <2>4 DEF IInv
<1>9. ASSUME NEW w \in Workers, DeliveryFails(w) PROVE IInv'
  <2>1. Outbox!Refused(w) /\ UNCHANGED <<connect, attemptVars, webVars>>
    BY <1>9 DEF DeliveryFails
  <2>2. WorkersKnow'
    BY <2>1, AnswerEffect DEF IInv, WorkersKnow, webVars
  <2>. QED
    BY <2>1, <2>2, AnswerEffect DEF IInv, TypeOK, NoticeIsStatus, OneEnding, RunTellsAttempt,
       DeliveredIsKnown, AnswersAreTrue, attemptVars, webVars, Outbox!DeadAfterAllAttempts
<1>10. ASSUME NEW w \in Workers, Deliver(w) \/ ResponseLost(w) PROVE IInv'
  <2>1. /\ Outbox!Answered(w) \/ Outbox!Refused(w)
        /\ Web!Complete(notice)
        /\ UNCHANGED <<connect, attemptVars>>
    BY <1>10 DEF Deliver, ResponseLost
  <2>2. phase[w] = "posting"
    BY <2>1, AnswerEffect
  <2>3. TypeOK' /\ OneEnding' /\ RunTellsAttempt'
    BY <2>1, <2>2, AnswerEffect, CompleteEffect
       DEF IInv, TypeOK, OneEnding, RunTellsAttempt, attemptVars
  <2>4. NoticeIsStatus' /\ WorkersKnow' /\ Outbox!DeadAfterAllAttempts'
    BY <2>1, <2>2, AnswerEffect, CompleteEffect
       DEF IInv, NoticeIsStatus, WorkersKnow, Outbox!DeadAfterAllAttempts, attemptVars
  <2>5. DeliveredIsKnown' /\ AnswersAreTrue'
    BY <2>1, <2>2, AnswerEffect, CompleteEffect
       DEF IInv, DeliveredIsKnown, AnswersAreTrue, attemptVars
  <2>. QED
    BY <2>3, <2>4, <2>5 DEF IInv
<1>. QED
  BY <1>1, <1>2, <1>3, <1>4, <1>5, <1>6, <1>7, <1>8, <1>9, <1>10 DEF Next

THEOREM Invariant == Spec => []IInv
  BY IInvHolds, NextKeepsIInv, PTL DEF Spec, Safety

-----------------------------------------------------------------------------
(* What follows from it *)

(* Every variable has its type (the check constraints of the columns).     *)
THEOREM TypeCorrect == Spec => []TypeOK
  BY Invariant, PTL DEF IInv

(* A run has one final event, that of its final status: the update that    *)
(* wins also inserts it (completeRun, cancelRun).                          *)
THEOREM EndsOnce == Spec => []OneEnding
  BY Invariant, PTL DEF IInv

(* A run ends as its attempt did, unless its owner cancelled it.           *)
THEOREM RunEndsAsAttempt == Spec => []RunTellsAttempt
  BY Invariant, PTL DEF IInv

(* A callback is marked delivered only after Web accepted it, by whichever *)
(* worker (deliverHostedCallbackOutbox).                                   *)
THEOREM DeliveryIsReal == Spec => []DeliveredIsKnown
  BY Invariant, PTL DEF IInv

(* What a cancelling owner was told is true and stays so.                  *)
THEOREM OwnersAreToldTheTruth == Spec => []AnswersAreTrue
  BY Invariant, PTL DEF IInv

(* A callback is given up only after all its claims were used up, however  *)
(* many workers outlive theirs (both places that set "dead").              *)
THEOREM DeadIsExhausted == Spec => []Outbox!DeadAfterAllAttempts
  BY Invariant, PTL DEF IInv

(* A final run and a settled callback never change: no late callback, no   *)
(* cancellation and no stale worker revives them.                          *)
THEOREM FinalForGood == Spec => EndStays
<1>1. IInv /\ [Next]_vars =>
        [(run \in Web!Final => run' = run) /\ (row \in Outbox!Settled => row' = row)]_vars
  <2>. SUFFICES ASSUME IInv, [Next]_vars
                PROVE  (run \in Web!Final => run' = run) /\ (row \in Outbox!Settled => row' = row)
    OBVIOUS
  <2>1. CASE Admit \/ Initialize \/ TimePasses \/ UNCHANGED vars
    BY <2>1 DEF Admit, Initialize, TimePasses, Outbox!TimePasses, vars, outboxVars, webVars
  <2>2. CASE AttemptEnds
    BY <2>2, AttemptEndsEffect DEF webVars
  <2>3. CASE ReportRunning \/ (\E m \in Submitters : MetadataStep(m))
    BY <2>3, ReportEffect DEF outboxVars
  <2>4. ASSUME NEW c \in Cancellers, CancelAttempt(c) \/ CancelAnswerLost(c) \/ CancelStep(c)
        PROVE  (run \in Web!Final => run' = run) /\ (row \in Outbox!Settled => row' = row)
    BY <2>4, CancelEffect, CancelStepEffect DEF outboxVars
  <2>5. ASSUME NEW w \in Workers, OutboxStep(w) \/ Abandon(w)
        PROVE  (run \in Web!Final => run' = run) /\ (row \in Outbox!Settled => row' = row)
    BY <2>5, OutboxEffect DEF OutboxStep, Abandon, webVars
  <2>6. ASSUME NEW w \in Workers, Deliver(w) \/ ResponseLost(w) \/ DeliveryFails(w)
        PROVE  (run \in Web!Final => run' = run) /\ (row \in Outbox!Settled => row' = row)
    BY <2>6, AnswerEffect, CompleteEffect DEF Deliver, ResponseLost, DeliveryFails, webVars
  <2>. QED
    BY <2>1, <2>2, <2>3, <2>4, <2>5, <2>6 DEF Next
<1>. QED
  BY <1>1, Invariant, PTL DEF Spec, Safety, EndStays

(* The attempt, its callback and the run together do nothing but what the  *)
(* contract of a run allows: one end of the attempt, one end of the run,   *)
(* the same unless the owner cancelled, given up in the open.              *)
THEOREM RunContractKept == Spec => Contract!Safety
<1>. USE DEF Contract!ByItself
<1>1. Init => Contract!Init
  BY DEF Init, Contract!Init, Attempt!Init, Outbox!Init, Web!Init
<1>2. ASSUME IInv, [Next]_vars PROVE [Contract!Next]_Contract!vars
  <2>. USE <1>2 DEF Contract!vars
  <2>1. CASE Admit \/ UNCHANGED vars
    BY <2>1 DEF Admit, vars, attemptVars, outboxVars, webVars
  <2>2. CASE Initialize
    BY <2>2 DEF Initialize, IInv, NoticeIsStatus, TypeOK, attemptVars, outboxVars, webVars
  <2>3. CASE TimePasses
    BY <2>3 DEF TimePasses, Outbox!TimePasses, attemptVars, webVars
  <2>4. CASE AttemptEnds
    <3>1. Contract!AttemptEnds
      BY <2>4, AttemptEndsEffect DEF Contract!AttemptEnds, webVars
    <3>. QED
      BY <3>1 DEF Contract!Next
  <2>5. CASE ReportRunning \/ (\E m \in Submitters : MetadataStep(m))
    BY <2>5, ReportEffect DEF attemptVars, outboxVars
  <2>6. ASSUME NEW c \in Cancellers, CancelAttempt(c) \/ CancelAnswerLost(c)
        PROVE  [Contract!Next]_Contract!vars
    <3>1. CASE UNCHANGED <<status, notice>>
      BY <2>6, <3>1, CancelEffect DEF outboxVars
    <3>2. CASE ~UNCHANGED <<status, notice>>
      <4>1. Contract!AttemptEnds
        BY <2>6, <3>2, CancelEffect DEF Contract!AttemptEnds, outboxVars
      <4>. QED
        BY <4>1 DEF Contract!Next
    <3>. QED
      BY <3>1, <3>2
  <2>7. ASSUME NEW c \in Cancellers, CancelStep(c) PROVE [Contract!Next]_Contract!vars
    <3>1. CASE UNCHANGED <<run, endings>>
      BY <2>7, <3>1, CancelStepEffect DEF attemptVars, outboxVars
    <3>2. CASE ~UNCHANGED <<run, endings>>
      <4>1. Contract!OwnerCancels
        BY <2>7, <3>2, CancelStepEffect DEF Contract!OwnerCancels, attemptVars, outboxVars
      <4>. QED
        BY <4>1 DEF Contract!Next
    <3>. QED
      BY <3>1, <3>2
  <2>8. ASSUME NEW w \in Workers, OutboxStep(w) \/ Abandon(w)
        PROVE  [Contract!Next]_Contract!vars
    <3>1. UNCHANGED <<connect, attemptVars, webVars>>
      BY <2>8 DEF OutboxStep, Abandon
    <3>2. row' = row \/ row # "none"
      BY <2>8, OutboxEffect DEF OutboxStep, Abandon
    <3>3. row # "none" => Begun /\ status \in ByItself
      BY DEF IInv, NoticeIsStatus
    <3>4. row = "dead" => row' = "dead"
      BY <2>8, OutboxEffect DEF OutboxStep, Abandon
    <3>5. CASE row' # "dead" \/ row = "dead"
      BY <3>1, <3>4, <3>5 DEF attemptVars, webVars
    <3>6. CASE row' = "dead" /\ row # "dead"
      <4>1. Contract!GiveUp
        BY <3>1, <3>2, <3>3, <3>6 DEF Contract!GiveUp, attemptVars, webVars
      <4>. QED
        BY <4>1 DEF Contract!Next
    <3>. QED
      BY <3>5, <3>6
  <2>9. ASSUME NEW w \in Workers, DeliveryFails(w) PROVE [Contract!Next]_Contract!vars
    BY <2>9, AnswerEffect DEF DeliveryFails, attemptVars, webVars
  <2>10. ASSUME NEW w \in Workers, Deliver(w) \/ ResponseLost(w)
         PROVE  [Contract!Next]_Contract!vars
    <3>1. /\ row' = row /\ phase[w] = "posting"
          /\ Web!Complete(notice) /\ UNCHANGED <<connect, attemptVars>>
      BY <2>10, AnswerEffect DEF Deliver, ResponseLost
    <3>2. CASE run \in Web!Final
      BY <3>1, <3>2, CompleteEffect DEF attemptVars
    <3>3. CASE run \in Web!Open
      <4>1. Contract!Tell
        BY <3>1, <3>3, CompleteEffect DEF Contract!Tell, attemptVars
      <4>. QED
        BY <4>1 DEF Contract!Next
    <3>. QED
      BY <3>2, <3>3 DEF IInv, TypeOK
  <2>. QED
    BY <2>1, <2>2, <2>3, <2>4, <2>5, <2>6, <2>7, <2>8, <2>9, <2>10 DEF Next
<1>. QED
  BY <1>1, <1>2, Invariant, PTL DEF Spec, Safety, Contract!Safety

=============================================================================
