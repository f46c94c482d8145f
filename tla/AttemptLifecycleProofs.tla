----------------------- MODULE AttemptLifecycleProofs -----------------------
(***************************************************************************)
(* Theorems about AttemptLifecycle for every suite length, every choice of *)
(* required sessions and every set of workers.                             *)
(***************************************************************************)
EXTENDS AttemptLifecycle, TLAPS

USE SuiteAssumption DEF Sessions, None, Outcomes, FinalStatuses, OpenRows, Terminal

-----------------------------------------------------------------------------
(* The inductive invariant *)

(* No session is closed behind the back of an attempt that runs. *)
RunningRows ==
    status = "running" =>
        \A s \in Sessions : row[s] \in {"created", "active", "completed", "failed"}

(* What the rows of the database satisfy between any two transactions. *)
RowsInv == RunningRows /\ OneActiveSession /\ SuiteOrder /\ OneStory

(* What a worker remembers about its command. *)
LocalState ==
    \A w \in Workers :
        /\ pc[w] # "idle" => on[w] \in Sessions
        /\ pc[w] \in {"recall", "check", "read", "commit", "answer"} => given[w] \in Outcomes
        /\ pc[w] = "recall" => result[on[w]] # "none"

(* A worker that passed the check of the active session was not ahead of   *)
(* the attempt then, and the attempt never goes back: every session before *)
(* the worker's has its result by the time the worker reads the results.   *)
NeverAhead ==
    \A w \in Workers :
        pc[w] \in {"read", "commit"} => Terminal \/ on[w] <= active

(* A plan made for the session that is next is the one its transaction     *)
(* would compute itself.                                                   *)
PlansAreCurrent ==
    \A w \in Workers :
        pc[w] = "commit" /\ Completable(on[w]) =>
            \E evidence \in Outcomes :
                plan[w] = AttemptUpdate(result, on[w], given[w], evidence)

IInv ==
    /\ TypeOK
    /\ RowsInv
    /\ LocalState
    /\ NeverAhead
    /\ PlansAreCurrent
    /\ FirstWinnerAnswers

-----------------------------------------------------------------------------
(* The operators that compute the attempt update *)

(* A scored suite always has one of the three outcomes. *)
LEMMA SuiteVerdictType ==
    ASSUME NEW outcome, NEW evidence
    PROVE  SuiteVerdict(outcome, evidence) \in Outcomes
  BY DEF SuiteVerdict

(* The first session outside a proper prefix of the suite is its successor. *)
LEMMA FirstPendingOfPrefix ==
    ASSUME NEW k \in Nat, k < N
    PROVE  FirstPending(1..k) = k + 1
<1>1. k + 1 \in Sessions \ (1..k)
  OBVIOUS
<1>2. \A t \in Sessions \ (1..k) : k + 1 <= t
  OBVIOUS
<1>3. \A s \in Sessions \ (1..k) :
        (\A t \in Sessions \ (1..k) : s <= t) => s = k + 1
  BY <1>1, <1>2
<1>. QED
  BY <1>1, <1>2, <1>3 DEF FirstPending

(* A prefix and one more session, wherever that is: what a worker sees     *)
(* that was overtaken by a timeout or a cancellation.                      *)
LEMMA FirstPendingType ==
    ASSUME NEW k \in 0..N, NEW s \in Sessions, (1..k) \cup {s} # Sessions
    PROVE  FirstPending((1..k) \cup {s}) \in Sessions
<1>. DEFINE F == (1..k) \cup {s}
            m == IF s = k + 1 THEN k + 2 ELSE k + 1
<1>1. m \in Sessions \ F
  OBVIOUS
<1>2. \A t \in Sessions \ F : m <= t
  OBVIOUS
<1>3. \E u \in Sessions \ F : \A t \in Sessions \ F : u <= t
  BY <1>1, <1>2
<1>. QED
  BY <1>3 DEF FirstPending

(* The update is well formed whenever the results seen are a prefix. *)
LEMMA AttemptUpdateType ==
    ASSUME NEW seen \in [Sessions -> Outcomes \cup {"none"}],
           NEW k \in 0..N, {t \in Sessions : seen[t] # "none"} = 1..k,
           NEW s \in Sessions, NEW outcome \in Outcomes, NEW evidence \in Outcomes
    PROVE  AttemptUpdate(seen, s, outcome, evidence) \in Plans
<1>. DEFINE known == [seen EXCEPT ![s] = outcome]
            finished == {t \in Sessions : known[t] # "none"}
<1>1. finished = (1..k) \cup {s}
  OBVIOUS
<1>2. CASE finished = Sessions
  <2>1. AttemptUpdate(seen, s, outcome, evidence) =
          [finished |-> finished, next |-> None, verdict |-> SuiteVerdict(known, evidence)]
    BY <1>2 DEF AttemptUpdate
  <2>. QED
    BY <2>1, SuiteVerdictType DEF Plans
<1>3. CASE finished # Sessions
  <2>1. AttemptUpdate(seen, s, outcome, evidence) =
          [finished |-> finished, next |-> FirstPending(finished), verdict |-> "none"]
    BY <1>3 DEF AttemptUpdate
  <2>2. FirstPending(finished) \in Sessions
    BY <1>1, <1>3, FirstPendingType
  <2>. QED
    BY <2>1, <2>2 DEF Plans
<1>. QED
  BY <1>2, <1>3

(* For the session that follows the prefix, the update is what one expects:*)
(* promote the next session, or score the suite when this was the last.    *)
UpdateOfNext(u, seen, s, outcome, evidence) ==
    /\ u.finished = 1..s
    /\ u.verdict =
         IF s = N THEN SuiteVerdict([seen EXCEPT ![s] = outcome], evidence) ELSE "none"
    /\ s < N => u.next = s + 1

SeenBefore(seen, s) == {t \in Sessions : seen[t] # "none"} = 1..(s - 1)

(* The plan for the session right after a finished prefix is the expected one. *)
LEMMA AttemptUpdateOfNext ==
    ASSUME NEW seen \in [Sessions -> Outcomes \cup {"none"}],
           NEW s \in Sessions, SeenBefore(seen, s),
           NEW outcome \in Outcomes, NEW evidence \in Outcomes
    PROVE  UpdateOfNext(AttemptUpdate(seen, s, outcome, evidence), seen, s, outcome, evidence)
<1>. DEFINE known == [seen EXCEPT ![s] = outcome]
            finished == {t \in Sessions : known[t] # "none"}
<1>1. finished = 1..s
  BY DEF SeenBefore
<1>2. finished = Sessions <=> s = N
  BY <1>1
<1>3. CASE s = N
  <2>1. AttemptUpdate(seen, s, outcome, evidence) =
          [finished |-> finished, next |-> None, verdict |-> SuiteVerdict(known, evidence)]
    BY <1>2, <1>3 DEF AttemptUpdate
  <2>. QED
    BY <2>1, <1>1, <1>3 DEF UpdateOfNext
<1>4. CASE s # N
  <2>1. AttemptUpdate(seen, s, outcome, evidence) =
          [finished |-> finished, next |-> FirstPending(finished), verdict |-> "none"]
    BY <1>2, <1>4 DEF AttemptUpdate
  <2>2. FirstPending(1..s) = s + 1
    BY <1>4, FirstPendingOfPrefix
  <2>. HIDE DEF finished
  <2>. QED
    BY <2>1, <2>2, <1>1, <1>4 DEF UpdateOfNext
<1>. QED
  BY <1>3, <1>4

-----------------------------------------------------------------------------
(* The transactions keep the rows consistent *)

(* What the invariant says of a completion the transaction accepts: the    *)
(* session is the first without a result, and the plan made before the     *)
(* transaction is the one for it.                                          *)
Accepted(w) ==
    /\ status = "running"
    /\ on[w] \in Sessions
    /\ active = on[w]
    /\ given[w] \in Outcomes
    /\ Finished = 1..(on[w] - 1)
    /\ plan[w].finished = 1..on[w]
    /\ on[w] < N => /\ plan[w].verdict = "none"
                    /\ plan[w].next = on[w] + 1
                    /\ row[on[w] + 1] = "created"
    /\ on[w] = N => /\ plan[w].verdict \in Outcomes
                    /\ \E evidence \in Outcomes : plan[w].verdict =
                          SuiteVerdict([result EXCEPT ![on[w]] = given[w]], evidence)

(* Under the invariant, a completion that passes the transaction's tests is *)
(* the one its plan was made for.                                          *)
LEMMA AcceptedCompletion ==
    ASSUME IInv, NEW w \in Workers, pc[w] = "commit", Completable(on[w])
    PROVE  Accepted(w)
<1>1. /\ status = "running" /\ on[w] \in Sessions
      /\ active = on[w] /\ given[w] \in Outcomes
  BY DEF IInv, TypeOK, LocalState, Completable
<1>2. Finished = 1..(on[w] - 1)
  BY <1>1 DEF IInv, RowsInv, SuiteOrder
<1>3. result \in [Sessions -> Outcomes \cup {"none"}]
  BY DEF IInv, TypeOK
<1>4. PICK evidence \in Outcomes : plan[w] = AttemptUpdate(result, on[w], given[w], evidence)
  BY DEF IInv, PlansAreCurrent
<1>5. UpdateOfNext(plan[w], result, on[w], given[w], evidence)
  <2>1. SeenBefore(result, on[w])
    BY <1>2 DEF SeenBefore, Finished
  <2>. HIDE DEF Sessions, Outcomes
  <2>. QED
    BY <2>1, <1>1, <1>3, <1>4, AttemptUpdateOfNext
<1>6. on[w] = N => /\ plan[w].verdict \in Outcomes
                   /\ plan[w].verdict =
                        SuiteVerdict([result EXCEPT ![on[w]] = given[w]], evidence)
  BY <1>5, SuiteVerdictType DEF UpdateOfNext
<1>7. on[w] < N => row[on[w] + 1] = "created"
  <2>. SUFFICES ASSUME on[w] < N PROVE row[on[w] + 1] = "created"
    OBVIOUS
  <2>1. on[w] + 1 \in Sessions /\ on[w] + 1 \notin Finished /\ on[w] + 1 # active
    BY <1>1, <1>2
  <2>2. row[on[w] + 1] \notin {"completed", "failed"}
    BY <2>1 DEF IInv, RowsInv, SuiteOrder
  <2>3. row[on[w] + 1] # "active"
    BY <2>1, <1>1 DEF IInv, RowsInv, OneActiveSession
  <2>. QED
    BY <1>1, <2>1, <2>2, <2>3 DEF IInv, RowsInv, RunningRows
<1>8. on[w] < N => plan[w].verdict = "none" /\ plan[w].next = on[w] + 1
  BY <1>1, <1>5 DEF UpdateOfNext
<1>9. plan[w].finished = 1..on[w]
  BY <1>5 DEF UpdateOfNext
<1>. HIDE DEF Sessions, Outcomes
<1>. QED
  BY <1>1, <1>2, <1>6, <1>7, <1>8, <1>9 DEF Accepted

(* Completing a session that is not the last. *)
LEMMA AdvanceKeepsRows ==
    ASSUME IInv, NEW w \in Workers, CommitAdvance(w)
    PROVE  /\ RowsInv'
           /\ status' = "running"
           /\ active' = active + 1
           /\ active = on[w]
           /\ on[w] \in Sessions /\ on[w] < N
           /\ given[w] \in Outcomes
           /\ result' = [result EXCEPT ![on[w]] = given[w]]
<1>. DEFINE s == on[w]
<1>1. pc[w] = "commit" /\ Completable(s) /\ plan[w].verdict = "none"
  BY DEF CommitAdvance, StoreResult
<1>2. /\ status = "running" /\ s \in Sessions /\ active = s /\ given[w] \in Outcomes
      /\ Finished = 1..(s - 1) /\ plan[w].finished = 1..s
      /\ s < N /\ plan[w].next = s + 1 /\ row[s + 1] = "created"
  <2>1. Accepted(w)
    BY <1>1, AcceptedCompletion
  <2>2. s # N
    BY <2>1, <1>1 DEF Accepted
  <2>3. s < N
    BY <2>1, <2>2 DEF Accepted
  <2>. QED
    BY <2>1, <2>3 DEF Accepted
<1>3. /\ row \in [Sessions -> OpenRows \cup {"completed", "failed", "expired", "cancelled"}]
      /\ result \in [Sessions -> Outcomes \cup {"none"}]
      /\ deadline \in [Sessions -> {"none", "ahead", "past"}]
  BY DEF IInv, TypeOK
<1>4. /\ result' = [result EXCEPT ![s] = given[w]]
      /\ completedIds' = 1..s
      /\ row' = [row EXCEPT ![s] = ClosedRow(given[w]), ![s + 1] = "active"]
      /\ deadline' = [deadline EXCEPT ![s + 1] = "ahead"]
      /\ active' = s + 1
      /\ status' = "running" /\ score' = score /\ outbox' = outbox
  BY <1>2 DEF CommitAdvance, StoreResult
<1>5. ClosedRow(given[w]) \in {"completed", "failed"}
  BY DEF ClosedRow
<1>6. Finished' = 1..s
  BY <1>2, <1>3, <1>4 DEF Finished
<1>7. RunningRows'
  BY <1>2, <1>3, <1>4, <1>5 DEF IInv, RowsInv, RunningRows
<1>8. OneActiveSession'
  BY <1>2, <1>3, <1>4, <1>5 DEF IInv, RowsInv, OneActiveSession
<1>9. SuiteOrder'
  <2>1. \A t \in Sessions :
          IF t \in Finished' THEN row'[t] = ClosedRow(result'[t])
          ELSE row'[t] \notin {"completed", "failed"}
    <3>. TAKE t \in Sessions
    <3>1. CASE t = s
      BY <3>1, <1>2, <1>3, <1>4, <1>6
    <3>2. CASE t = s + 1
      BY <3>2, <1>2, <1>3, <1>4, <1>6
    <3>3. CASE t # s /\ t # s + 1
      <4>1. row'[t] = row[t] /\ result'[t] = result[t] /\ (t \in Finished' <=> t \in Finished)
        BY <3>3, <1>2, <1>3, <1>4, <1>6
      <4>. QED
        BY <4>1 DEF IInv, RowsInv, SuiteOrder
    <3>. QED
      BY <3>1, <3>2, <3>3
  <2>2. s \in 0..N /\ active' - 1 = s
    BY <1>2, <1>4
  <2>3. \E k \in 0..N : Finished' = 1..k
    BY <2>2, <1>6
  <2>. HIDE DEF Sessions
  <2>. QED
    BY <1>4, <1>6, <2>1, <2>2, <2>3 DEF SuiteOrder
<1>10. OneStory'
  BY <1>2, <1>4 DEF IInv, RowsInv, OneStory
<1>. QED
  BY <1>2, <1>4, <1>7, <1>8, <1>9, <1>10 DEF RowsInv

(* Completing the last session. *)
LEMMA FinishKeepsRows ==
    ASSUME IInv, NEW w \in Workers, CommitFinish(w)
    PROVE  /\ RowsInv'
           /\ status' \in FinalStatuses
           /\ status = "running"
           /\ active = on[w] /\ on[w] = N
           /\ given[w] \in Outcomes
           /\ Finished = 1..(N - 1) /\ Finished' = 1..N
           /\ score' \in Outcomes
           /\ status' = FinalStatus(score')
           /\ outbox' = status'
           /\ active' = None
           /\ result' = [result EXCEPT ![on[w]] = given[w]]
<1>1. pc[w] = "commit" /\ Completable(on[w]) /\ plan[w].verdict # "none"
  BY DEF CommitFinish, StoreResult
<1>2. /\ status = "running" /\ on[w] = N /\ active = N /\ given[w] \in Outcomes
      /\ Finished = 1..(N - 1) /\ plan[w].finished = 1..N
      /\ plan[w].verdict \in Outcomes
      /\ \E evidence \in Outcomes : plan[w].verdict =
             SuiteVerdict([result EXCEPT ![N] = given[w]], evidence)
  <2>1. Accepted(w)
    BY <1>1, AcceptedCompletion
  <2>2. on[w] = N
    BY <2>1, <1>1 DEF Accepted
  <2>. QED
    BY <2>1, <2>2 DEF Accepted
<1>3. /\ row \in [Sessions -> OpenRows \cup {"completed", "failed", "expired", "cancelled"}]
      /\ result \in [Sessions -> Outcomes \cup {"none"}]
      /\ N \in Sessions
  BY DEF IInv, TypeOK
<1>4. outbox = "none"
  BY <1>2 DEF IInv, RowsInv, OneStory
<1>5. /\ result' = [result EXCEPT ![N] = given[w]]
      /\ completedIds' = 1..N
      /\ row' = [row EXCEPT ![N] = ClosedRow(given[w])]
      /\ active' = None
      /\ score' = plan[w].verdict
      /\ status' = FinalStatus(score')
  BY <1>2 DEF CommitFinish, StoreResult
<1>6. status' \in {"completed", "failed"}
  BY <1>5 DEF FinalStatus
<1>7. outbox' = status'
  BY <1>2, <1>4, <1>6 DEF CommitFinish, Enqueue
<1>8. ClosedRow(given[w]) \in {"completed", "failed"}
  BY DEF ClosedRow
<1>9. Finished' = 1..N
  BY <1>2, <1>3, <1>5 DEF Finished
<1>10. OneActiveSession'
  <2>1. ASSUME NEW t \in Sessions PROVE row'[t] \notin OpenRows
    <3>1. CASE t = N
      BY <3>1, <1>3, <1>5, <1>8
    <3>2. CASE t # N
      <4>1. t \in Finished
        BY <3>2, <1>2
      <4>2. row[t] = ClosedRow(result[t])
        BY <4>1 DEF IInv, RowsInv, SuiteOrder
      <4>. QED
        BY <3>2, <4>2, <1>3, <1>5 DEF ClosedRow
    <3>. QED
      BY <3>1, <3>2
  <2>. QED
    BY <2>1, <1>5, <1>6 DEF OneActiveSession
<1>11. SuiteOrder'
  <2>1. ASSUME NEW t \in Sessions PROVE row'[t] = ClosedRow(result'[t])
    <3>1. CASE t = N
      BY <3>1, <1>3, <1>5
    <3>2. CASE t # N
      <4>1. t \in Finished
        BY <3>2, <1>2
      <4>2. row[t] = ClosedRow(result[t])
        BY <4>1 DEF IInv, RowsInv, SuiteOrder
      <4>. QED
        BY <3>2, <4>2, <1>3, <1>5
    <3>. QED
      BY <3>1, <3>2
  <2>. QED
    BY <2>1, <1>5, <1>6, <1>9 DEF SuiteOrder
<1>12. OneStory'
  BY <1>2, <1>5, <1>6, <1>7, <1>9 DEF OneStory
<1>13. RunningRows'
  BY <1>6 DEF RunningRows
<1>. QED
  BY <1>2, <1>5, <1>6, <1>7, <1>9, <1>10, <1>11, <1>12, <1>13 DEF RowsInv

(* Ending a running attempt without a result: timeout and cancellation     *)
(* close the open sessions and touch no result.                            *)
LEMMA ClosingKeepsRows ==
    ASSUME IInv, ~Terminal, NEW to \in {"expired", "cancelled"}, CloseOpenRows(to),
           status' = IF to = "expired" THEN "timeout" ELSE "cancelled",
           score' = IF to = "expired" THEN "error" ELSE "none",
           outbox' = IF to = "expired" THEN "timeout" ELSE "none",
           active' = None, completedIds' = completedIds, result' = result
    PROVE  RowsInv'
<1>1. /\ row \in [Sessions -> OpenRows \cup {"completed", "failed", "expired", "cancelled"}]
      /\ row' = [s \in Sessions |-> IF row[s] \in OpenRows THEN to ELSE row[s]]
  BY DEF IInv, TypeOK, CloseOpenRows
<1>2. RunningRows'
  BY DEF RunningRows
<1>3. OneActiveSession'
  BY <1>1 DEF OneActiveSession
<1>4. Finished' = Finished
  BY DEF Finished
<1>5. SuiteOrder'
  <2>1. \A t \in Sessions :
          IF t \in Finished' THEN row'[t] = ClosedRow(result'[t])
          ELSE row'[t] \notin {"completed", "failed"}
    <3>. TAKE t \in Sessions
    <3>1. IF t \in Finished THEN row[t] = ClosedRow(result[t])
          ELSE row[t] \notin {"completed", "failed"}
      BY DEF IInv, RowsInv, SuiteOrder
    <3>. QED
      BY <3>1, <1>1, <1>4 DEF ClosedRow
  <2>2. completedIds' = Finished' /\ \E k \in 0..N : Finished' = 1..k
    BY <1>4 DEF IInv, RowsInv, SuiteOrder
  <2>3. status' # "running"
    OBVIOUS
  <2>. QED
    BY <2>1, <2>2, <2>3 DEF SuiteOrder
<1>6. OneStory'
  BY DEF OneStory
<1>. QED
  BY <1>2, <1>3, <1>5, <1>6 DEF RowsInv

(* A timeout the routine accepts keeps the rows consistent. *)
LEMMA TimeoutKeepsRows ==
    ASSUME IInv, NEW w \in Workers, CommitTimeout(w), ~Terminal
    PROVE  /\ RowsInv'
           /\ status = "running" /\ status' = "timeout"
           /\ score' = "error" /\ outbox' = "timeout"
           /\ result' = result /\ active' = None
<1>1. status = "running" /\ score = "none" /\ outbox = "none"
  BY DEF IInv, TypeOK, RowsInv, OneStory
<1>2. /\ CloseOpenRows("expired") /\ status' = "timeout" /\ active' = None
      /\ score' = "error" /\ outbox' = "timeout"
      /\ completedIds' = completedIds /\ result' = result
  BY <1>1 DEF CommitTimeout, TimeoutHostedAttempt, Enqueue
<1>. QED
  BY <1>1, <1>2, ClosingKeepsRows

(* So does a cancellation. *)
LEMMA CancelKeepsRows ==
    ASSUME IInv, Cancel
    PROVE  /\ RowsInv'
           /\ status = "running" /\ status' = "cancelled"
           /\ score' = score /\ outbox' = outbox
           /\ result' = result /\ active' = None
<1>1. ~Terminal
  BY DEF Cancel
<1>2. status = "running" /\ score = "none" /\ outbox = "none"
  BY <1>1 DEF IInv, TypeOK, RowsInv, OneStory
<1>3. /\ CloseOpenRows("cancelled") /\ status' = "cancelled" /\ active' = None
      /\ score' = "none" /\ outbox' = "none"
      /\ completedIds' = completedIds /\ result' = result
  BY <1>2 DEF Cancel, Enqueue
<1>. QED
  BY <1>1, <1>2, <1>3, ClosingKeepsRows

-----------------------------------------------------------------------------
(* The invariant is inductive *)

(* A new attempt satisfies the invariant. *)
LEMMA InitInv == Init => IInv
<1>. SUFFICES ASSUME Init PROVE IInv
  OBVIOUS
<1>1. TypeOK
  BY DEF Init, TypeOK, Plans, NoPlan
<1>2. RowsInv
  <2>1. Finished = {} /\ Finished = 1..0 /\ 1 \in Sessions
    BY DEF Init, Finished
  <2>2. RunningRows
    BY DEF Init, RunningRows
  <2>3. OneActiveSession
    <3>1. status = "running" /\ active = 1 /\ deadline[1] = "ahead"
      BY <2>1 DEF Init
    <3>2. \A s \in Sessions : row[s] = "active" <=> s = active
      BY DEF Init
    <3>. QED
      BY <2>1, <3>1, <3>2 DEF OneActiveSession
  <2>4. SuiteOrder
    <3>1. completedIds = Finished /\ active - 1 = 0
      BY <2>1 DEF Init
    <3>2. \E k \in 0..N : Finished = 1..k
      BY <2>1
    <3>3. \A s \in Sessions : s \notin Finished /\ row[s] \notin {"completed", "failed"}
      BY <2>1 DEF Init
    <3>. QED
      BY <2>1, <3>1, <3>2, <3>3 DEF SuiteOrder
  <2>5. OneStory
    BY DEF Init, OneStory
  <2>. QED
    BY <2>2, <2>3, <2>4, <2>5 DEF RowsInv
<1>3. LocalState /\ NeverAhead /\ PlansAreCurrent /\ FirstWinnerAnswers
  BY DEF Init, LocalState, NeverAhead, PlansAreCurrent, FirstWinnerAnswers
<1>. QED
  BY <1>1, <1>2, <1>3 DEF IInv

(* Steps that read, or that only a worker's memory notices. *)
LEMMA ReadsKeepRows ==
    ASSUME RowsInv,
           UNCHANGED <<attemptVars, row, result>>, deadline' = deadline
    PROVE  RowsInv'
  BY DEF RowsInv, RunningRows, OneActiveSession, SuiteOrder, OneStory, Finished, attemptVars

(* A deadline that passes stays a deadline. *)
LEMMA DeadlineKeepsRows ==
    ASSUME IInv, NEW s \in Sessions, DeadlinePasses(s)
    PROVE  RowsInv'
<1>1. deadline' = [deadline EXCEPT ![s] = "past"] /\ deadline \in [Sessions -> {"none", "ahead", "past"}]
  BY DEF IInv, TypeOK, DeadlinePasses
<1>2. UNCHANGED <<status, active, completedIds, score, outbox, row, result>>
  BY DEF DeadlinePasses, attemptVars
<1>3. \A t \in Sessions : deadline[t] # "none" => deadline'[t] # "none"
  BY <1>1
<1>4. OneActiveSession'
  BY <1>2, <1>3 DEF IInv, RowsInv, OneActiveSession
<1>. QED
  BY <1>2, <1>4 DEF IInv, RowsInv, RunningRows, SuiteOrder, OneStory, Finished

(* TypeOK in its two halves: the rows, and the workers' memory. *)
RowTypes ==
    /\ status \in {"running"} \cup FinalStatuses
    /\ active \in 0..N
    /\ completedIds \subseteq Sessions
    /\ timedOut \in 0..N
    /\ score \in Outcomes \cup {"none"}
    /\ outbox \in {"none", "completed", "failed", "timeout"}
    /\ row \in [Sessions -> OpenRows \cup {"completed", "failed", "expired", "cancelled"}]
    /\ deadline \in [Sessions -> {"none", "ahead", "past"}]
    /\ result \in [Sessions -> Outcomes \cup {"none"}]

WorkerTypes ==
    /\ pc \in [Workers -> {"idle", "recall", "check", "read", "commit", "answer", "load", "expire"}]
    /\ on \in [Workers -> 0..N]
    /\ given \in [Workers -> Outcomes \cup {"none"}]
    /\ plan \in [Workers -> Plans]

(* The type invariant splits into the database's and the workers' half. *)
LEMMA TypeHalves == TypeOK <=> RowTypes /\ WorkerTypes
  BY DEF TypeOK, RowTypes, WorkerTypes

(* A step that leaves the database alone leaves its types alone. *)
LEMMA SameRowsTypes ==
    ASSUME RowTypes, UNCHANGED dbVars
    PROVE  RowTypes'
  BY DEF RowTypes, dbVars, attemptVars, sessionVars

(* A worker that is released, ... *)
LEMMA ReleaseTypes ==
    ASSUME WorkerTypes, NEW w \in Workers, Release(w)
    PROVE  WorkerTypes'
<1>1. NoPlan \in Plans
  BY DEF NoPlan, Plans
<1>. QED
  BY <1>1 DEF WorkerTypes, Release, Goto

(* ... that takes a command, ... *)
LEMMA TakeTypes ==
    ASSUME RowTypes, WorkerTypes, NEW w \in Workers, NEW s \in Sessions,
           NEW outcome \in Outcomes \cup {"none"},
           NEW label \in {"recall", "check", "load"}, Take(w, label, s, outcome)
    PROVE  RowTypes' /\ WorkerTypes'
<1>1. RowTypes'
  BY SameRowsTypes DEF Take
<1>2. WorkerTypes'
  BY DEF WorkerTypes, Take, Goto
<1>. QED
  BY <1>1, <1>2

(* ... or that stores a result keeps a well-typed memory. *)
LEMMA StoreResultTypes ==
    ASSUME WorkerTypes, NEW w \in Workers, StoreResult(w)
    PROVE  WorkerTypes'
<1>1. NoPlan \in Plans
  BY DEF NoPlan, Plans
<1>. QED
  BY <1>1 DEF WorkerTypes, StoreResult, Goto

(* Every step preserves the types. *)
LEMMA TypeStep ==
    ASSUME IInv, [Next]_vars
    PROVE  TypeOK'
<1>. SUFFICES RowTypes' /\ WorkerTypes'
  BY DEF TypeOK, RowTypes, WorkerTypes
<1>0. RowTypes /\ WorkerTypes
  BY TypeHalves DEF IInv
<1>1. CASE UNCHANGED vars
  BY <1>0, <1>1, SameRowsTypes DEF vars, workerVars, WorkerTypes
<1>2. ASSUME NEW w \in Workers, NEW s \in Sessions, NEW outcome \in Outcomes,
             TakeCompletion(w, s, outcome)
      PROVE  RowTypes' /\ WorkerTypes'
  BY <1>0, <1>2, TakeTypes DEF TakeCompletion
<1>3. ASSUME NEW w \in Workers, RecallResult(w) PROVE RowTypes' /\ WorkerTypes'
  <2>1. on[w] \in Sessions
    BY <1>3 DEF IInv, LocalState, RecallResult
  <2>2. result[on[w]] \in Outcomes \cup {"none"} /\ given[w] \in Outcomes \cup {"none"}
    BY <1>0, <2>1 DEF RowTypes, WorkerTypes
  <2>. QED
    BY <1>0, <1>3, <2>2, SameRowsTypes DEF RecallResult, Goto, WorkerTypes
<1>4. ASSUME NEW w \in Workers, CheckActive(w) PROVE RowTypes' /\ WorkerTypes'
  <2>1. CASE active \in {None, on[w]}
    BY <1>0, <1>4, <2>1, SameRowsTypes DEF CheckActive, Goto, WorkerTypes
  <2>2. CASE active \notin {None, on[w]}
    BY <1>0, <1>4, <2>2, SameRowsTypes, ReleaseTypes DEF CheckActive
  <2>. QED
    BY <2>1, <2>2
<1>5. ASSUME NEW w \in Workers, ReadResults(w) PROVE RowTypes' /\ WorkerTypes'
  <2>1. PICK evidence \in Outcomes :
          plan' = [plan EXCEPT ![w] = AttemptUpdate(result, on[w], given[w], evidence)]
    BY <1>5 DEF ReadResults
  <2>2. on[w] \in Sessions /\ given[w] \in Outcomes
    BY <1>5 DEF IInv, LocalState, ReadResults
  <2>3. PICK k \in 0..N : {t \in Sessions : result[t] # "none"} = 1..k
    BY DEF IInv, RowsInv, SuiteOrder, Finished
  <2>4. result \in [Sessions -> Outcomes \cup {"none"}]
    BY <1>0 DEF RowTypes
  <2>5. AttemptUpdate(result, on[w], given[w], evidence) \in Plans
    BY <2>2, <2>3, <2>4, AttemptUpdateType
  <2>. QED
    BY <1>0, <1>5, <2>1, <2>5, SameRowsTypes DEF ReadResults, Goto, WorkerTypes
<1>6. ASSUME NEW w \in Workers, CommitDuplicate(w) PROVE RowTypes' /\ WorkerTypes'
  <2>1. on[w] \in Sessions
    BY <1>6 DEF IInv, LocalState, CommitDuplicate
  <2>2. result[on[w]] \in Outcomes \cup {"none"} /\ NoPlan \in Plans
    BY <1>0, <2>1 DEF RowTypes, NoPlan, Plans
  <2>. QED
    BY <1>0, <1>6, <2>2, SameRowsTypes DEF CommitDuplicate, Goto, WorkerTypes
<1>7. ASSUME NEW w \in Workers, CommitConflict(w) PROVE RowTypes' /\ WorkerTypes'
  BY <1>0, <1>7, SameRowsTypes, ReleaseTypes DEF CommitConflict
<1>8. ASSUME NEW w \in Workers, CommitAdvance(w) PROVE RowTypes' /\ WorkerTypes'
  <2>1. /\ on[w] \in Sessions /\ given[w] \in Outcomes /\ plan[w] \in Plans
        /\ active' = active + 1 /\ active = on[w] /\ on[w] < N
    BY <1>0, <1>8, AdvanceKeepsRows DEF WorkerTypes
  <2>2. WorkerTypes'
    BY <1>0, <1>8, StoreResultTypes DEF CommitAdvance
  <2>3. completedIds' = plan[w].finished /\ plan[w].finished \subseteq Sessions
    BY <1>8, <2>1 DEF CommitAdvance, StoreResult, Plans
  <2>4. ClosedRow(given[w]) \in {"completed", "failed"}
    BY DEF ClosedRow
  <2>5. /\ row' = [row EXCEPT ![on[w]] = ClosedRow(given[w]), ![plan[w].next] = "active"]
        /\ deadline' = [deadline EXCEPT ![plan[w].next] = "ahead"]
        /\ result' = [result EXCEPT ![on[w]] = given[w]]
        /\ UNCHANGED <<status, score, outbox, timedOut>>
    BY <1>8 DEF CommitAdvance, StoreResult
  <2>6. active' \in 0..N
    BY <2>1
  <2>7. /\ row' \in [Sessions -> OpenRows \cup {"completed", "failed", "expired", "cancelled"}]
        /\ deadline' \in [Sessions -> {"none", "ahead", "past"}]
        /\ result' \in [Sessions -> Outcomes \cup {"none"}]
    BY <1>0, <2>1, <2>4, <2>5 DEF RowTypes
  <2>8. RowTypes'
    BY <1>0, <2>3, <2>5, <2>6, <2>7 DEF RowTypes
  <2>. QED
    BY <2>2, <2>8
<1>9. ASSUME NEW w \in Workers, CommitFinish(w) PROVE RowTypes' /\ WorkerTypes'
  <2>1. /\ on[w] = N /\ given[w] \in Outcomes /\ plan[w] \in Plans
        /\ score' \in Outcomes /\ status' = FinalStatus(score') /\ outbox' = status'
    BY <1>0, <1>9, FinishKeepsRows DEF WorkerTypes
  <2>2. WorkerTypes'
    BY <1>0, <1>9, StoreResultTypes DEF CommitFinish
  <2>3. completedIds' = plan[w].finished /\ plan[w].finished \subseteq Sessions
    BY <1>9, <2>1 DEF CommitFinish, StoreResult, Plans
  <2>4. ClosedRow(given[w]) \in {"completed", "failed"} /\ status' \in {"completed", "failed"}
    BY <2>1 DEF ClosedRow, FinalStatus
  <2>5. /\ row' = [row EXCEPT ![on[w]] = ClosedRow(given[w])]
        /\ result' = [result EXCEPT ![on[w]] = given[w]]
        /\ active' = None
        /\ UNCHANGED <<deadline, timedOut>>
    BY <1>9 DEF CommitFinish, StoreResult
  <2>6. RowTypes'
    BY <1>0, <2>1, <2>3, <2>4, <2>5 DEF RowTypes
  <2>. QED
    BY <2>2, <2>6
<1>10. ASSUME NEW w \in Workers, SweepExpired(w) PROVE RowTypes' /\ WorkerTypes'
  BY <1>0, <1>10, TakeTypes DEF SweepExpired
<1>11. ASSUME NEW w \in Workers, NEW s \in Sessions, ObserveExpired(w, s)
       PROVE  RowTypes' /\ WorkerTypes'
  BY <1>0, <1>11, TakeTypes DEF ObserveExpired
<1>12. ASSUME NEW w \in Workers, LoadForTimeout(w) PROVE RowTypes' /\ WorkerTypes'
  <2>1. CASE Terminal
    BY <1>0, <1>12, <2>1, SameRowsTypes, ReleaseTypes DEF LoadForTimeout
  <2>2. CASE ~Terminal
    BY <1>0, <1>12, <2>2, SameRowsTypes DEF LoadForTimeout, Goto, WorkerTypes
  <2>. QED
    BY <2>1, <2>2
<1>13. ASSUME NEW w \in Workers, CommitTimeout(w) PROVE RowTypes' /\ WorkerTypes'
  <2>1. WorkerTypes'
    BY <1>0, <1>13, ReleaseTypes DEF CommitTimeout, TimeoutHostedAttempt
  <2>2. CASE Terminal
    BY <1>0, <1>13, <2>1, <2>2, SameRowsTypes DEF CommitTimeout, TimeoutHostedAttempt
  <2>3. CASE ~Terminal
    <3>1. timedOut' = on[w] /\ on[w] \in 0..N
      BY <1>0, <1>13, <2>3 DEF CommitTimeout, TimeoutHostedAttempt, WorkerTypes
    <3>2. row' \in [Sessions -> OpenRows \cup {"completed", "failed", "expired", "cancelled"}]
      BY <1>0, <1>13, <2>3 DEF CommitTimeout, TimeoutHostedAttempt, CloseOpenRows, RowTypes
    <3>3. /\ status' = "timeout" /\ active' = None /\ score' \in Outcomes
          /\ outbox' \in {"none", "completed", "failed", "timeout"}
          /\ UNCHANGED <<completedIds, deadline, result>>
      BY <1>0, <1>13, <2>3 DEF CommitTimeout, TimeoutHostedAttempt, Enqueue, RowTypes
    <3>4. RowTypes'
      BY <1>0, <3>1, <3>2, <3>3 DEF RowTypes
    <3>. QED
      BY <2>1, <3>4
  <2>. QED
    BY <2>2, <2>3
<1>14. ASSUME NEW w \in Workers, Stop(w) PROVE RowTypes' /\ WorkerTypes'
  BY <1>0, <1>14, SameRowsTypes, ReleaseTypes DEF Stop
<1>15. ASSUME NEW s \in Sessions, DeadlinePasses(s) PROVE RowTypes' /\ WorkerTypes'
  BY <1>0, <1>15 DEF DeadlinePasses, attemptVars, workerVars, RowTypes, WorkerTypes
<1>16. ASSUME Cancel PROVE RowTypes' /\ WorkerTypes'
  BY <1>0, <1>16 DEF Cancel, CloseOpenRows, Enqueue, workerVars, RowTypes, WorkerTypes
<1>. QED
  BY <1>1, <1>2, <1>3, <1>4, <1>5, <1>6, <1>7, <1>8, <1>9, <1>10, <1>11, <1>12,
     <1>13, <1>14, <1>15, <1>16 DEF Next, WorkerStep

(* No step takes a result away, reopens an attempt that has ended, or      *)
(* moves the active session of a running one backwards.                    *)
Onward ==
    /\ \A s \in Sessions : result[s] # "none" => result'[s] = result[s]
    /\ Terminal => Terminal' /\ UNCHANGED <<status, score, outbox, timedOut, row, result>>
    /\ ~Terminal' => active <= active'

(* An attempt whose rows do not change does not go back. *)
LEMMA SameRowsOnward ==
    ASSUME TypeOK, UNCHANGED <<attemptVars, row, result>>
    PROVE  Onward
  BY DEF TypeOK, Onward, attemptVars

(* Only three steps of a worker write to the database. *)
LEMMA WritingSteps ==
    ASSUME NEW w \in Workers, WorkerStep(w)
    PROVE  \/ UNCHANGED dbVars
           \/ CommitAdvance(w)
           \/ CommitFinish(w)
           \/ CommitTimeout(w) /\ ~Terminal
<1>1. ASSUME NEW s \in Sessions, NEW outcome \in Outcomes, TakeCompletion(w, s, outcome)
      PROVE  UNCHANGED dbVars
  BY <1>1 DEF TakeCompletion, Take
<1>2. CASE RecallResult(w) \/ CheckActive(w) \/ ReadResults(w)
  BY <1>2 DEF RecallResult, CheckActive, ReadResults
<1>3. CASE CommitDuplicate(w) \/ CommitConflict(w) \/ Stop(w)
  BY <1>3 DEF CommitDuplicate, CommitConflict, Stop
<1>4. CASE SweepExpired(w)
  BY <1>4 DEF SweepExpired, Take
<1>5. ASSUME NEW s \in Sessions, ObserveExpired(w, s) PROVE UNCHANGED dbVars
  BY <1>5 DEF ObserveExpired, Take
<1>6. CASE LoadForTimeout(w)
  BY <1>6 DEF LoadForTimeout
<1>7. CASE CommitTimeout(w) /\ Terminal
  BY <1>7 DEF CommitTimeout, TimeoutHostedAttempt
<1>. QED
  BY <1>1, <1>2, <1>3, <1>4, <1>5, <1>6, <1>7 DEF WorkerStep

(* No step takes an attempt back to an earlier session, or reopens one. *)
LEMMA OnwardStep ==
    ASSUME IInv, [Next]_vars
    PROVE  Onward
<1>0. TypeOK
  BY DEF IInv
<1>1. CASE UNCHANGED dbVars
  BY <1>0, <1>1, SameRowsOnward DEF dbVars, sessionVars
<1>2. ASSUME NEW w \in Workers, WorkerStep(w) PROVE Onward
  <2>1. CASE CommitAdvance(w)
    <3>1. /\ status = "running" /\ status' = "running" /\ active' = active + 1
          /\ result' = [result EXCEPT ![on[w]] = given[w]] /\ result[on[w]] = "none"
          /\ active \in 0..N
      BY <1>0, <2>1, AdvanceKeepsRows DEF CommitAdvance, StoreResult, Completable, TypeOK
    <3>. QED
      BY <1>0, <3>1 DEF Onward, TypeOK
  <2>2. CASE CommitFinish(w)
    <3>1. /\ status = "running" /\ status' \in FinalStatuses
          /\ result' = [result EXCEPT ![on[w]] = given[w]] /\ result[on[w]] = "none"
      BY <2>2, FinishKeepsRows DEF CommitFinish, StoreResult, Completable
    <3>. QED
      BY <1>0, <3>1 DEF Onward, TypeOK
  <2>3. CASE CommitTimeout(w) /\ ~Terminal
    BY <2>3, TimeoutKeepsRows DEF Onward
  <2>. QED
    BY <1>1, <1>2, <2>1, <2>2, <2>3, WritingSteps
<1>3. ASSUME NEW s \in Sessions, DeadlinePasses(s) PROVE Onward
  BY <1>0, <1>3, SameRowsOnward DEF DeadlinePasses
<1>4. CASE Cancel
  BY <1>4, CancelKeepsRows DEF Onward
<1>. QED
  BY <1>1, <1>2, <1>3, <1>4 DEF Next, vars

(* Every step keeps the rows consistent. *)
LEMMA RowsStep ==
    ASSUME IInv, [Next]_vars
    PROVE  RowsInv'
<1>1. CASE UNCHANGED dbVars
  BY <1>1, ReadsKeepRows DEF IInv, dbVars, sessionVars
<1>2. ASSUME NEW w \in Workers, WorkerStep(w) PROVE RowsInv'
  BY <1>1, <1>2, WritingSteps, AdvanceKeepsRows, FinishKeepsRows, TimeoutKeepsRows
<1>3. ASSUME NEW s \in Sessions, DeadlinePasses(s) PROVE RowsInv'
  BY <1>3, DeadlineKeepsRows
<1>4. CASE Cancel
  BY <1>4, CancelKeepsRows
<1>. QED
  BY <1>1, <1>2, <1>3, <1>4 DEF Next, vars

-----------------------------------------------------------------------------
(* What the workers remember *)

(* A worker's memory is its own, and a stored result stays. *)
Untouched(w) == pc'[w] = pc[w] /\ on'[w] = on[w] /\ given'[w] = given[w] /\ plan'[w] = plan[w]

Forgot(w) == pc'[w] = "idle"

(* What a step leaves in a worker's memory: nothing new, or one of these.  *)
Remembers(w) ==
    \/ Untouched(w)
    \/ Forgot(w)
    \/ /\ pc'[w] \in {"check", "recall"} /\ on'[w] \in Sessions /\ given'[w] \in Outcomes
       /\ pc'[w] = "recall" => row[on'[w]] \in {"completed", "failed"}
    \/ pc'[w] = "load" /\ on'[w] \in Sessions
    \/ pc[w] = "load" /\ pc'[w] = "expire" /\ on'[w] = on[w]
    \/ /\ pc[w] = "check" /\ pc'[w] = "read" /\ on'[w] = on[w] /\ given'[w] = given[w]
       /\ active \in {None, on[w]} /\ UNCHANGED dbVars
    \/ /\ pc[w] = "read" /\ pc'[w] = "commit" /\ on'[w] = on[w] /\ given'[w] = given[w]
       /\ UNCHANGED dbVars
       /\ \E evidence \in Outcomes :
             plan'[w] = AttemptUpdate(result, on[w], given[w], evidence)
    \/ /\ pc[w] \in {"recall", "commit"} /\ pc'[w] = "answer" /\ on'[w] = on[w]
       /\ given'[w] = result'[on[w]] /\ given'[w] \in Outcomes

(* A released worker remembers nothing, the others what they did. *)
LEMMA ReleaseForgets ==
    ASSUME TypeOK, NEW w \in Workers, Release(w), NEW v \in Workers
    PROVE  Untouched(v) \/ Forgot(v)
  BY DEF TypeOK, Release, Goto, Untouched, Forgot

(* What a step may do to the memory of a worker that it does not serve,    *)
(* and to that of the one it serves.                                       *)
LEMMA MemoryStep ==
    ASSUME IInv, [Next]_vars, NEW v \in Workers
    PROVE  Remembers(v)
<1>. USE DEF IInv, Remembers
<1>1. CASE UNCHANGED workerVars
  BY <1>1 DEF workerVars, Untouched
<1>2. ASSUME NEW w \in Workers, NEW s \in Sessions, NEW outcome \in Outcomes,
             TakeCompletion(w, s, outcome)
      PROVE  Remembers(v)
  BY <1>2 DEF TakeCompletion, Take, Goto, TypeOK, Untouched
<1>3. ASSUME NEW w \in Workers, RecallResult(w) PROVE Remembers(v)
  <2>1. on[w] \in Sessions /\ result[on[w]] \in Outcomes
    BY <1>3 DEF RecallResult, LocalState, TypeOK
  <2>. QED
    BY <1>3, <2>1 DEF RecallResult, Goto, TypeOK, Untouched, dbVars, sessionVars
<1>4. ASSUME NEW w \in Workers, CheckActive(w) PROVE Remembers(v)
  BY <1>4, ReleaseForgets DEF CheckActive, Goto, TypeOK, Untouched
<1>5. ASSUME NEW w \in Workers, ReadResults(w) PROVE Remembers(v)
  BY <1>5 DEF ReadResults, Goto, TypeOK, Untouched
<1>6. ASSUME NEW w \in Workers, CommitDuplicate(w) PROVE Remembers(v)
  <2>1. on[w] \in Sessions /\ result[on[w]] \in Outcomes
    BY <1>6 DEF CommitDuplicate, LocalState, TypeOK
  <2>. QED
    BY <1>6, <2>1 DEF CommitDuplicate, Goto, TypeOK, Untouched, dbVars, sessionVars
<1>7. ASSUME NEW w \in Workers, CommitConflict(w) \/ CommitTimeout(w) \/ Stop(w)
      PROVE  Remembers(v)
  BY <1>7, ReleaseForgets DEF CommitConflict, CommitTimeout, TimeoutHostedAttempt, Stop
<1>8. ASSUME NEW w \in Workers, StoreResult(w) PROVE Remembers(v)
  <2>1. on[w] \in Sessions /\ given[w] \in Outcomes
    BY <1>8 DEF StoreResult, LocalState
  <2>. QED
    BY <1>8, <2>1 DEF StoreResult, Goto, TypeOK, Untouched
<1>9. ASSUME NEW w \in Workers, SweepExpired(w) PROVE Remembers(v)
  BY <1>9 DEF SweepExpired, Take, Goto, TypeOK, Untouched
<1>10. ASSUME NEW w \in Workers, NEW s \in Sessions, ObserveExpired(w, s) PROVE Remembers(v)
  BY <1>10 DEF ObserveExpired, Take, Goto, TypeOK, Untouched
<1>11. ASSUME NEW w \in Workers, LoadForTimeout(w) PROVE Remembers(v)
  BY <1>11, ReleaseForgets DEF LoadForTimeout, Goto, TypeOK, Untouched
<1>. QED
  BY <1>1, <1>2, <1>3, <1>4, <1>5, <1>6, <1>7, <1>8, <1>9, <1>10, <1>11
     DEF Next, WorkerStep, CommitAdvance, CommitFinish, DeadlinePasses, Cancel, vars

(* Every step keeps what workers remember about their commands true. *)
LEMMA LocalStateStep ==
    ASSUME IInv, [Next]_vars
    PROVE  LocalState'
<1>. SUFFICES ASSUME NEW v \in Workers
              PROVE  /\ pc'[v] # "idle" => on'[v] \in Sessions
                     /\ pc'[v] \in {"recall", "check", "read", "commit", "answer"} =>
                            given'[v] \in Outcomes
                     /\ pc'[v] = "recall" => result'[on'[v]] # "none"
  BY DEF LocalState
<1>1. Remembers(v) /\ Onward /\ LocalState /\ RowsInv' /\ TypeOK'
  BY MemoryStep, OnwardStep, RowsStep, TypeStep DEF IInv
<1>2. pc'[v] = "recall" => result'[on'[v]] # "none"
  <2>1. CASE Untouched(v)
    BY <1>1, <2>1 DEF Untouched, LocalState, Onward
  <2>2. CASE row[on'[v]] \in {"completed", "failed"} /\ on'[v] \in Sessions
    <3>1. result[on'[v]] # "none"
      BY <2>2 DEF IInv, RowsInv, SuiteOrder, Finished
    <3>. QED
      BY <1>1, <2>2, <3>1 DEF Onward
  <2>. QED
    BY <1>1, <2>1, <2>2 DEF Remembers, Forgot
<1>3. pc'[v] # "idle" => on'[v] \in Sessions
  BY <1>1 DEF Remembers, Untouched, Forgot, LocalState
<1>4. pc'[v] \in {"recall", "check", "read", "commit", "answer"} => given'[v] \in Outcomes
  BY <1>1 DEF Remembers, Untouched, Forgot, LocalState
<1>. QED
  BY <1>2, <1>3, <1>4

(* No step lets a worker that passed the check get ahead of the attempt. *)
LEMMA NeverAheadStep ==
    ASSUME IInv, [Next]_vars
    PROVE  NeverAhead'
<1>. SUFFICES ASSUME NEW v \in Workers, pc'[v] \in {"read", "commit"}, ~Terminal'
              PROVE  on'[v] <= active'
  BY DEF NeverAhead
<1>1. Remembers(v) /\ Onward /\ NeverAhead
  BY MemoryStep, OnwardStep DEF IInv
<1>2. ~Terminal /\ active <= active'
  BY <1>1 DEF Onward
<1>3. active \in Sessions /\ active \in Nat /\ active' \in Nat /\ on[v] \in Nat
  BY <1>2, TypeStep DEF IInv, TypeOK, RowsInv, OneActiveSession
<1>4. CASE Untouched(v) \/ (pc[v] = "read" /\ on'[v] = on[v])
  BY <1>1, <1>2, <1>3, <1>4 DEF Untouched, NeverAhead
<1>5. CASE on'[v] = on[v] /\ active \in {None, on[v]}
  BY <1>2, <1>3, <1>5
<1>. QED
  BY <1>1, <1>4, <1>5 DEF Remembers, Forgot

(* The heart of the argument: no transaction that a plan could have missed *)
(* leaves that plan acceptable.                                            *)
LEMMA PlansAreCurrentStep ==
    ASSUME IInv, [Next]_vars
    PROVE  PlansAreCurrent'
<1>. SUFFICES ASSUME NEW v \in Workers, pc'[v] = "commit", Completable(on[v])'
              PROVE  \E evidence \in Outcomes :
                        plan'[v] = AttemptUpdate(result', on'[v], given'[v], evidence)
  BY DEF PlansAreCurrent, Completable
<1>1. Remembers(v) /\ Onward /\ NeverAhead /\ PlansAreCurrent /\ TypeOK
  BY MemoryStep, OnwardStep DEF IInv
<1>2. ~Terminal' /\ active' = on'[v] /\ result'[on'[v]] = "none"
  BY DEF Completable
<1>3. CASE UNCHANGED dbVars /\ ~Untouched(v)
  BY <1>1, <1>3 DEF Remembers, Forgot, dbVars, sessionVars
<1>4. CASE Untouched(v)
  <2>1. pc[v] = "commit" /\ on'[v] = on[v] /\ given'[v] = given[v] /\ plan'[v] = plan[v]
    BY <1>4 DEF Untouched
  <2>2. CASE UNCHANGED <<attemptVars, row, result>>
    <3>1. Completable(on[v])
      BY <2>1, <2>2 DEF Completable, attemptVars
    <3>. QED
      BY <1>1, <2>1, <2>2, <3>1 DEF PlansAreCurrent
  <2>3. ASSUME NEW w \in Workers, CommitAdvance(w) PROVE FALSE
    <3>1. active' = active + 1 /\ active \in Nat /\ ~Terminal
      BY <1>1, <1>2, <2>3, AdvanceKeepsRows DEF TypeOK, Onward
    <3>2. on[v] <= active /\ on[v] \in Nat
      BY <1>1, <2>1, <3>1 DEF NeverAhead, TypeOK
    <3>. QED
      BY <1>2, <2>1, <3>1, <3>2
  <2>4. ASSUME NEW w \in Workers, CommitFinish(w) PROVE FALSE
    BY <1>2, <2>4, FinishKeepsRows
  <2>5. ASSUME NEW w \in Workers, CommitTimeout(w), ~Terminal PROVE FALSE
    BY <1>2, <2>5, TimeoutKeepsRows
  <2>6. CASE Cancel
    BY <1>2, <2>6, CancelKeepsRows
  <2>7. ASSUME NEW s \in Sessions, DeadlinePasses(s) PROVE UNCHANGED <<attemptVars, row, result>>
    BY <2>7 DEF DeadlinePasses
  <2>. QED
    BY <2>2, <2>3, <2>4, <2>5, <2>6, <2>7, WritingSteps DEF Next, vars, dbVars, sessionVars
<1>. QED
  BY <1>1, <1>3, <1>4 DEF Remembers, Forgot

(* Every step keeps the answers equal to the stored results. *)
LEMMA FirstWinnerStep ==
    ASSUME IInv, [Next]_vars
    PROVE  FirstWinnerAnswers'
<1>. SUFFICES ASSUME NEW v \in Workers, pc'[v] = "answer"
              PROVE  given'[v] = result'[on'[v]] /\ given'[v] # "none"
  BY DEF FirstWinnerAnswers
<1>1. Remembers(v) /\ Onward /\ FirstWinnerAnswers /\ LocalState
  BY MemoryStep, OnwardStep DEF IInv
<1>2. CASE Untouched(v)
  BY <1>1, <1>2 DEF Untouched, FirstWinnerAnswers, LocalState, Onward
<1>. QED
  BY <1>1, <1>2 DEF Remembers, Forgot

(* The invariant is inductive. *)
LEMMA NextInv == IInv /\ [Next]_vars => IInv'
  BY TypeStep, RowsStep, LocalStateStep, NeverAheadStep, PlansAreCurrentStep, FirstWinnerStep
     DEF IInv

(* The inductive invariant holds in every reachable state. *)
THEOREM Invariance == Safety => []IInv
  BY InitInv, NextInv, PTL DEF Safety

-----------------------------------------------------------------------------
(* What follows from it *)

(* Rows and workers' memory keep their types, whatever the interleaving.   *)
THEOREM TypeCorrect == Safety => []TypeOK
<1>1. IInv => TypeOK
  BY DEF IInv
<1>. QED
  BY <1>1, Invariance, PTL

(* While an attempt runs it has exactly one active session, with a         *)
(* deadline; when it has ended no session is open.                         *)
THEOREM ActiveSessionUnique == Safety => []OneActiveSession
<1>1. IInv => OneActiveSession
  BY DEF IInv, RowsInv
<1>. QED
  BY <1>1, Invariance, PTL

(* Sessions are finished in suite order, and result rows, session rows and *)
(* metadata agree about which are.                                         *)
THEOREM SuiteOrderKept == Safety => []SuiteOrder
<1>1. IInv => SuiteOrder
  BY DEF IInv, RowsInv
<1>. QED
  BY <1>1, Invariance, PTL

(* The final status, the score, the results and the outbox row agree.      *)
THEOREM OneStoryTold == Safety => []OneStory
<1>1. IInv => OneStory
  BY DEF IInv, RowsInv
<1>. QED
  BY <1>1, Invariance, PTL

(* A duplicate completion is answered with the first result stored.        *)
THEOREM DuplicatesGetFirstResult == Safety => []FirstWinnerAnswers
<1>1. IInv => FirstWinnerAnswers
  BY DEF IInv
<1>. QED
  BY <1>1, Invariance, PTL

(* The reads a completion makes before its transaction need no lock: the   *)
(* transaction accepts only plans that are still exact.                    *)
THEOREM UnlockedReadsAreSafe == Safety => []AcceptedPlansAreCurrent
<1>1. ASSUME IInv PROVE AcceptedPlansAreCurrent
  <2>. SUFFICES ASSUME NEW w \in Workers, pc[w] = "commit", Completable(on[w])
                PROVE  /\ \E evidence \in Outcomes :
                              plan[w] = AttemptUpdate(result, on[w], given[w], evidence)
                       /\ plan[w].verdict = "none" => row[plan[w].next] = "created"
    BY DEF AcceptedPlansAreCurrent
  <2>1. \E evidence \in Outcomes :
           plan[w] = AttemptUpdate(result, on[w], given[w], evidence)
    BY <1>1 DEF IInv, PlansAreCurrent
  <2>2. Accepted(w)
    BY <1>1, AcceptedCompletion
  <2>3. on[w] < N \/ on[w] = N
    BY <2>2 DEF Accepted
  <2>4. plan[w].verdict = "none" => row[plan[w].next] = "created"
    BY <2>2, <2>3 DEF Accepted
  <2>. QED
    BY <2>1, <2>4
<1>. QED
  BY <1>1, Invariance, PTL

(* The first final status wins and nothing about it changes afterwards; a  *)
(* stored result never changes.                                            *)
THEOREM FirstFinalStatusWins == Safety => Settled
<1>1. IInv /\ [Next]_vars =>
        [ /\ Terminal => UNCHANGED <<status, score, outbox, timedOut, row, result>>
          /\ \A s \in Sessions : result[s] # "none" => result'[s] = result[s] ]_vars
  BY OnwardStep DEF Onward
<1>. QED
  BY <1>1, Invariance, PTL DEF Safety, Settled

(* AttemptLifecycle implements the safety part of the contract: whatever   *)
(* the workers do, a reader of the rows sees only Advance, Finish, TimeOut *)
(* and Cancel steps.                                                       *)
THEOREM ContractKept == Safety => Contract!Safety
<1>1. ASSUME Init PROVE Contract!Init
  BY <1>1 DEF Init, Contract!Init, Finished
<1>2. ASSUME IInv, [Next]_vars PROVE [Contract!Next]_Contract!vars
  <2>1. CASE UNCHANGED <<attemptVars, row, result>>
    BY <2>1 DEF attemptVars, Contract!vars, Finished
  <2>2. ASSUME NEW w \in Workers, CommitAdvance(w) PROVE Contract!Advance
    <3>1. /\ status' = "running" /\ active = on[w] /\ active' = active + 1
          /\ on[w] \in Sessions /\ on[w] < N /\ RowsInv'
      BY <1>2, <2>2, AdvanceKeepsRows
    <3>2. UNCHANGED <<status, score, outbox>>
      BY <2>2 DEF CommitAdvance
    <3>3. Finished = 1..(active - 1)
      BY <1>2, <3>1, <3>2 DEF IInv, RowsInv, SuiteOrder
    <3>4. Finished' = 1..(active' - 1)
      BY <3>1 DEF RowsInv, SuiteOrder
    <3>5. on[w] \in 1..(N - 1) /\ active' - 1 = on[w]
      BY <3>1
    <3>. QED
      BY <3>1, <3>2, <3>3, <3>4, <3>5 DEF Contract!Advance
  <2>3. ASSUME NEW w \in Workers, CommitFinish(w) PROVE Contract!Finish
    BY <1>2, <2>3, FinishKeepsRows
       DEF Contract!Finish, Contract!FinalStatus, FinalStatus
  <2>4. ASSUME NEW w \in Workers, CommitTimeout(w), ~Terminal PROVE Contract!TimeOut
    BY <1>2, <2>4, TimeoutKeepsRows DEF Contract!TimeOut, Finished
  <2>5. ASSUME Cancel PROVE Contract!Cancel
    BY <1>2, <2>5, CancelKeepsRows DEF Contract!Cancel, Finished
  <2>6. ASSUME NEW s \in Sessions, DeadlinePasses(s) PROVE UNCHANGED <<attemptVars, row, result>>
    BY <2>6 DEF DeadlinePasses
  <2>. QED
    BY <1>2, <2>1, <2>2, <2>3, <2>4, <2>5, <2>6, WritingSteps
       DEF Next, vars, dbVars, sessionVars, Contract!Next
<1>. QED
  BY <1>1, <1>2, Invariance, PTL DEF Safety, Contract!Safety
=============================================================================
