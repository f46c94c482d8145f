-------------------------- MODULE AttemptLifecycle --------------------------
(***************************************************************************)
(* One hosted attempt, from the transaction that creates it to its final   *)
(* status, under any number of orchestrator workers that execute the       *)
(* commands attempt.complete-session, attempt.timeout, attempt.cancel and  *)
(* the expiry sweep.  Attempts share no rows, so one attempt is enough.    *)
(*                                                                         *)
(* The database routines lock the attempt row, so each is one atomic step. *)
(* What the TypeScript handlers read before they call a routine is not     *)
(* covered by that lock, so each read is a step of its own.  Redis orders  *)
(* the commands of one attempt only while partition leases hold; nothing   *)
(* here relies on it.                                                      *)
(*                                                                         *)
(* Sessions are named by their sequence index, counted from 1 here.        *)
(* Abstracted: titles, summaries, weights and numeric scores; what a       *)
(* consistency check or a capability matrix finds is an arbitrary outcome. *)
(* The statuses "created" and "scoring" of an attempt, and "scoring" of a  *)
(* session, are accepted by the routines but written by no code.           *)
(***************************************************************************)
EXTENDS Naturals

CONSTANTS
    N,          \* number of sessions of the suite
    Required,   \* the sessions whose status counts for the verdict
    Workers     \* orchestrator workers

ASSUME SuiteAssumption == N \in Nat \ {0} /\ Required \subseteq 1..N

Sessions == 1..N
None == 0                       \* SQL null, for a session id
Outcomes == {"passed", "failed", "error"}
FinalStatuses == {"completed", "failed", "cancelled", "timeout"}

VARIABLES
    \* benchmark_attempts, benchmark_attempt_scores, hosted_callback_outbox
    status,         \* benchmark_attempts.status
    active,         \* metadata.activeSessionId
    completedIds,   \* metadata.completedSessionIds
    timedOut,       \* metadata.timedOutSessionId
    score,          \* status of the score row, "none" while there is none
    outbox,         \* status in the outbox row's payload, "none" while there is none
    \* hosted_web_sessions, hosted_web_results
    row,            \* hosted_web_sessions.status
    deadline,       \* expires_at: "none" (null), "ahead" or "past"
    result,         \* status of the result row, "none" while there is none
    \* the workers
    pc,             \* what the worker does next
    on,             \* the session its command is about
    given,          \* the result it was given, then the one it answers with
    plan            \* the attempt update it computed before the transaction

attemptVars == <<status, active, completedIds, timedOut, score, outbox>>
sessionVars == <<row, deadline, result>>
dbVars == <<attemptVars, sessionVars>>
workerVars == <<pc, on, given, plan>>
vars == <<dbVars, workerVars>>

OpenRows == {"created", "active"}
Terminal == status \in FinalStatuses

Plans == [finished : SUBSET Sessions, next : 0..N, verdict : Outcomes \cup {"none"}]
NoPlan == [finished |-> {}, next |-> None, verdict |-> "none"]

-----------------------------------------------------------------------------
(* Scoring *)

(* aggregateSuiteScore.  `evidence' is what the required consistency       *)
(* checks, the capability matrix and the scenario graph come to.           *)
SuiteVerdict(outcome, evidence) ==
    IF evidence = "error" \/ \E s \in Required : outcome[s] = "error" THEN "error"
    ELSE IF evidence = "passed" /\ \A s \in Required : outcome[s] = "passed" THEN "passed"
    ELSE "failed"

FinalStatus(verdict) == IF verdict = "error" THEN "failed" ELSE "completed"

(* Seeded fault, defined before the definition it stands in for: an index  *)
(* counted from 0.                                                         *)
NextAfterPending(finished) ==
    1 + CHOOSE s \in Sessions \ finished : \A t \in Sessions \ finished : s <= t

(* The first session in suite order that is not in `finished'. *)
FirstPending(finished) ==
    CHOOSE s \in Sessions \ finished : \A t \in Sessions \ finished : s <= t

(* What completePersistedSession asks the transaction to do, given the     *)
(* result rows it saw and the outcome it brings.                           *)
AttemptUpdate(seen, s, outcome, evidence) ==
    LET known == [seen EXCEPT ![s] = outcome]
        finished == {t \in Sessions : known[t] # "none"}
    IN  IF finished = Sessions
        THEN [finished |-> finished, next |-> None, verdict |-> SuiteVerdict(known, evidence)]
        ELSE [finished |-> finished, next |-> FirstPending(finished), verdict |-> "none"]

-----------------------------------------------------------------------------
(* createAttemptWithSessions: the attempt and all its sessions are born in *)
(* one transaction; the first session is active and has its deadline.      *)
Init ==
    /\ status = "running"
    /\ active = 1
    /\ completedIds = {}
    /\ timedOut = None
    /\ score = "none"
    /\ outbox = "none"
    /\ row = [s \in Sessions |-> IF s = 1 THEN "active" ELSE "created"]
    /\ deadline = [s \in Sessions |-> IF s = 1 THEN "ahead" ELSE "none"]
    /\ result = [s \in Sessions |-> "none"]
    /\ pc = [w \in Workers |-> "idle"]
    /\ on = [w \in Workers |-> None]
    /\ given = [w \in Workers |-> "none"]
    /\ plan = [w \in Workers |-> NoPlan]

(* Time reaches a session's expires_at, whatever the session's status. *)
DeadlinePasses(s) ==
    /\ deadline[s] = "ahead"
    /\ deadline' = [deadline EXCEPT ![s] = "past"]
    /\ UNCHANGED <<attemptVars, row, result, workerVars>>

-----------------------------------------------------------------------------
(* Workers *)

Goto(w, label) == pc' = [pc EXCEPT ![w] = label]

Take(w, label, s, outcome) ==
    /\ Goto(w, label)
    /\ on' = [on EXCEPT ![w] = s]
    /\ given' = [given EXCEPT ![w] = outcome]
    /\ UNCHANGED <<dbVars, plan>>

Release(w) ==
    /\ Goto(w, "idle")
    /\ on' = [on EXCEPT ![w] = None]
    /\ given' = [given EXCEPT ![w] = "none"]
    /\ plan' = [plan EXCEPT ![w] = NoPlan]

(* The command's answer is published, or the worker crashes or throws at   *)
(* any point.  A retry is the same command taken again.                    *)
Stop(w) ==
    /\ pc[w] # "idle"
    /\ Release(w)
    /\ UNCHANGED dbVars

-----------------------------------------------------------------------------
(* attempt.complete-session *)

(* dispatchWriteCommand loads the session row by its token.  A row already *)
(* closed sends finalizeSession to the stored result.  The command may     *)
(* come for any session and with any outcome: hosted-sites decides from    *)
(* its own, possibly older, copy of the session.                           *)
TakeCompletion(w, s, outcome) ==
    /\ pc[w] = "idle"
    /\ Take(w, IF row[s] \in {"completed", "failed"} THEN "recall" ELSE "check", s, outcome)

(* finalizeSession of a closed session answers with the stored result. *)
RecallResult(w) ==
    /\ pc[w] = "recall"
    /\ Goto(w, "answer")
    /\ given' = [given EXCEPT ![w] = IF result[on[w]] = "none" THEN @ ELSE result[on[w]]]
    /\ UNCHANGED <<dbVars, on, plan>>

(* Seeded fault: finalizeSession leaves the check to the transaction. *)
CheckNothing(w) ==
    /\ pc[w] = "check"
    /\ Goto(w, "read")
    /\ UNCHANGED <<dbVars, on, given, plan>>

(* finalizeSession reads the attempt's metadata and throws when another    *)
(* session is the active one.                                              *)
CheckActive(w) ==
    /\ pc[w] = "check"
    /\ IF active \in {None, on[w]}
       THEN Goto(w, "read") /\ UNCHANGED <<on, given, plan>>
       ELSE Release(w)
    /\ UNCHANGED dbVars

(* completePersistedSession reads results and sessions, without a lock,    *)
(* and computes the attempt update from them.                              *)
ReadResults(w) ==
    /\ pc[w] = "read"
    /\ Goto(w, "commit")
    /\ \E evidence \in Outcomes :
          plan' = [plan EXCEPT ![w] = AttemptUpdate(result, on[w], given[w], evidence)]
    /\ UNCHANGED <<dbVars, on, given>>

(* Seeded fault: a duplicate is answered with what it brought. *)
CommitDuplicateAsGiven(w) ==
    /\ pc[w] = "commit"
    /\ result[on[w]] # "none"
    /\ Goto(w, "answer")
    /\ plan' = [plan EXCEPT ![w] = NoPlan]
    /\ UNCHANGED <<dbVars, on, given>>

(* complete_hosted_attempt_session, first winner already there: the stored *)
(* result is the answer.                                                   *)
CommitDuplicate(w) ==
    /\ pc[w] = "commit"
    /\ result[on[w]] # "none"
    /\ Goto(w, "answer")
    /\ given' = [given EXCEPT ![w] = result[on[w]]]
    /\ plan' = [plan EXCEPT ![w] = NoPlan]
    /\ UNCHANGED <<dbVars, on>>

Completable(s) ==
    /\ result[s] = "none"
    /\ ~Terminal
    /\ active = s
    /\ row[s] = "active"

(* attempt_terminal, session_not_active, session_not_completable, or the   *)
(* exception that rolls everything back when the next session cannot be    *)
(* promoted: the handler throws.                                           *)
CommitConflict(w) ==
    /\ pc[w] = "commit"
    /\ result[on[w]] = "none"
    /\ \/ ~Completable(on[w])
       \/ plan[w].verdict = "none" /\ row[plan[w].next] # "created"
    /\ Release(w)
    /\ UNCHANGED dbVars

ClosedRow(outcome) == IF outcome = "passed" THEN "completed" ELSE "failed"

(* Seeded fault: the list of finished sessions starts anew. *)
StoreResultAlone(w) ==
    /\ pc[w] = "commit"
    /\ Completable(on[w])
    /\ result' = [result EXCEPT ![on[w]] = given[w]]
    /\ completedIds' = {on[w]}
    /\ Goto(w, "answer")
    /\ plan' = [plan EXCEPT ![w] = NoPlan]
    /\ UNCHANGED <<timedOut, on, given>>

(* The result row, and the worker's answer. *)
StoreResult(w) ==
    /\ pc[w] = "commit"
    /\ Completable(on[w])
    /\ result' = [result EXCEPT ![on[w]] = given[w]]
    /\ completedIds' = plan[w].finished
    /\ Goto(w, "answer")
    /\ plan' = [plan EXCEPT ![w] = NoPlan]
    /\ UNCHANGED <<timedOut, on, given>>

(* The session is closed and the next one promoted, with a new deadline. *)
CommitAdvance(w) ==
    /\ StoreResult(w)
    /\ plan[w].verdict = "none"
    /\ row[plan[w].next] = "created"
    /\ row' = [row EXCEPT ![on[w]] = ClosedRow(given[w]), ![plan[w].next] = "active"]
    /\ deadline' = [deadline EXCEPT ![plan[w].next] = "ahead"]
    /\ active' = plan[w].next
    /\ UNCHANGED <<status, score, outbox>>

(* Seeded faults: the trigger fires on a cancellation, or not on a timeout. *)
EnqueueAnyEnd(final) == outbox' = IF ~Terminal /\ outbox = "none" THEN final ELSE outbox
EnqueueUnlessTimeout(final) ==
    outbox' = IF final \in {"completed", "failed"} /\ ~Terminal /\ outbox = "none"
              THEN final ELSE outbox

(* enqueue_hosted_attempt_completion, the trigger on the attempt's status. *)
Enqueue(final) ==
    outbox' = IF final \in {"completed", "failed", "timeout"} /\ ~Terminal /\ outbox = "none"
              THEN final ELSE outbox

(* The last session is closed, the suite scored and the attempt ended. *)
CommitFinish(w) ==
    /\ StoreResult(w)
    /\ plan[w].verdict # "none"
    /\ row' = [row EXCEPT ![on[w]] = ClosedRow(given[w])]
    /\ score' = plan[w].verdict
    /\ status' = FinalStatus(plan[w].verdict)
    /\ active' = None
    /\ Enqueue(status')
    /\ UNCHANGED deadline

-----------------------------------------------------------------------------
(* attempt.timeout and the expiry sweep *)

(* sweepExpiredSessions lists open sessions past their deadline;           *)
(* timeoutExpiredAttempts sends one timeout for the attempt, from the      *)
(* earliest of them.                                                       *)
Expired(s) == row[s] \in OpenRows /\ deadline[s] = "past"

SweepExpired(w) ==
    /\ pc[w] = "idle"
    /\ \E s \in Sessions :
          /\ Expired(s)
          /\ \A t \in Sessions : Expired(t) => s <= t
          /\ Take(w, "load", s, "none")

(* Hosted-sites' getSession, on any request that carries the session's     *)
(* token, asks for the timeout of the attempt when expires_at has passed   *)
(* or the session is marked expired.  It does not look whether the session *)
(* was completed before its deadline.                                      *)
ObserveExpired(w, s) ==
    /\ pc[w] = "idle"
    /\ row[s] # "cancelled"
    /\ deadline[s] = "past" \/ row[s] = "expired"
    /\ Take(w, "load", s, "none")

(* timeoutAttemptFromExpiredSession gives up on a finished attempt, and    *)
(* otherwise lists the sessions for the summary.                           *)
LoadForTimeout(w) ==
    /\ pc[w] = "load"
    /\ IF Terminal
       THEN Release(w)
       ELSE Goto(w, "expire") /\ UNCHANGED <<on, given, plan>>
    /\ UNCHANGED dbVars

(* Seeded fault: sessions that never started stay open. *)
CloseActiveRow(to) == row' = [s \in Sessions |-> IF row[s] = "active" THEN to ELSE row[s]]

CloseOpenRows(to) == row' = [s \in Sessions |-> IF row[s] \in OpenRows THEN to ELSE row[s]]

(* Seeded fault: the routine trusts the check made before the lock. *)
CommitTimeoutUnchecked(w) ==
    /\ pc[w] = "expire"
    /\ Release(w)
    /\ CloseOpenRows("expired")
    /\ status' = "timeout"
    /\ active' = None
    /\ timedOut' = on[w]
    /\ score' = IF score = "none" THEN "error" ELSE score
    /\ Enqueue("timeout")
    /\ UNCHANGED <<completedIds, deadline, result>>

(* timeout_hosted_attempt: a no-op on a finished attempt.  The score row   *)
(* is inserted `on conflict do nothing'.                                   *)
TimeoutHostedAttempt(session) ==
    IF Terminal
    THEN UNCHANGED dbVars
    ELSE /\ CloseOpenRows("expired")
         /\ status' = "timeout"
         /\ active' = None
         /\ timedOut' = session
         /\ score' = IF score = "none" THEN "error" ELSE score
         /\ Enqueue("timeout")
         /\ UNCHANGED <<completedIds, deadline, result>>

(* The command ends with the routine, whether it moved the attempt or not: *)
(* the completion it goes on to send is the one the routine put in the     *)
(* outbox.                                                                 *)
CommitTimeout(w) ==
    /\ pc[w] = "expire"
    /\ Release(w)
    /\ TimeoutHostedAttempt(on[w])

-----------------------------------------------------------------------------
(* attempt.cancel: cancel_hosted_attempt is all the handler does to the    *)
(* database.                                                               *)
Cancel ==
    /\ ~Terminal
    /\ CloseOpenRows("cancelled")
    /\ deadline' = [s \in Sessions |-> IF row[s] \in OpenRows THEN "none" ELSE deadline[s]]
    /\ status' = "cancelled"
    /\ active' = None
    /\ Enqueue("cancelled")
    /\ UNCHANGED <<completedIds, timedOut, score, result, workerVars>>

-----------------------------------------------------------------------------
WorkerStep(w) ==
    \/ \E s \in Sessions, outcome \in Outcomes : TakeCompletion(w, s, outcome)
    \/ RecallResult(w)
    \/ CheckActive(w)
    \/ ReadResults(w)
    \/ CommitDuplicate(w)
    \/ CommitConflict(w)
    \/ CommitAdvance(w)
    \/ CommitFinish(w)
    \/ SweepExpired(w)
    \/ \E s \in Sessions : ObserveExpired(w, s)
    \/ LoadForTimeout(w)
    \/ CommitTimeout(w)
    \/ Stop(w)

Next ==
    \/ \E w \in Workers : WorkerStep(w)
    \/ \E s \in Sessions : DeadlinePasses(s)
    \/ Cancel

(* Time passes.  The sweep is started every few minutes by a timer and,    *)
(* whatever else crashes or throws, is not interrupted every single time,  *)
(* hence strong fairness on the steps of a timeout.  Nothing is assumed of *)
(* agents: completions and cancellations may never come, and a worker that *)
(* holds a completion may stop at any point of it.                         *)
Fairness ==
    /\ \A s \in Sessions : WF_vars(DeadlinePasses(s))
    /\ \A w \in Workers :
          /\ WF_vars(Stop(w))
          /\ SF_vars(SweepExpired(w))
          /\ SF_vars(LoadForTimeout(w))
          /\ SF_vars(CommitTimeout(w))

Safety == Init /\ [][Next]_vars
Spec == Safety /\ Fairness

-----------------------------------------------------------------------------
(* Type correctness of the rows and of the workers' local state. *)
TypeOK ==
    /\ status \in {"running"} \cup FinalStatuses
    /\ active \in 0..N
    /\ completedIds \subseteq Sessions
    /\ timedOut \in 0..N
    /\ score \in Outcomes \cup {"none"}
    /\ outbox \in {"none", "completed", "failed", "timeout"}
    /\ row \in [Sessions -> OpenRows \cup {"completed", "failed", "expired", "cancelled"}]
    /\ deadline \in [Sessions -> {"none", "ahead", "past"}]
    /\ result \in [Sessions -> Outcomes \cup {"none"}]
    /\ pc \in [Workers -> {"idle", "recall", "check", "read", "commit", "answer", "load", "expire"}]
    /\ on \in [Workers -> 0..N]
    /\ given \in [Workers -> Outcomes \cup {"none"}]
    /\ plan \in [Workers -> Plans]

Finished == {s \in Sessions : result[s] # "none"}

(* An attempt that runs has exactly one open and active session, the one   *)
(* its metadata names, and that session has a deadline, so that the sweep  *)
(* can end an attempt whose agent went away.  An attempt that has ended    *)
(* has no open session and no active one.                                  *)
OneActiveSession ==
    IF status = "running"
    THEN /\ active \in Sessions
         /\ \A s \in Sessions : row[s] = "active" <=> s = active
         /\ deadline[active] # "none"
    ELSE active = None /\ \A s \in Sessions : row[s] \notin OpenRows

(* Sessions are finished in suite order, and the three records of what is  *)
(* finished agree: the result rows, the session rows and the list in the   *)
(* attempt's metadata.                                                     *)
SuiteOrder ==
    /\ completedIds = Finished
    /\ \E k \in 0..N : Finished = 1..k
    /\ \A s \in Sessions :
          IF s \in Finished THEN row[s] = ClosedRow(result[s])
          ELSE row[s] \notin {"completed", "failed"}
    /\ status = "running" => Finished = 1..(active - 1)

(* The score row, the final status, the result rows and the outbox row     *)
(* tell one story: an attempt is scored when it ends, unless cancelled; a  *)
(* scored suite has a result for every session and a verdict those results *)
(* allow; the outbox announces the status that was reached.                *)
OneStory ==
    /\ outbox = IF status \in {"completed", "failed", "timeout"} THEN status ELSE "none"
    /\ status = "timeout" => score = "error"
    /\ status \in {"running", "cancelled"} => score = "none"
    /\ status \in {"completed", "failed"} =>
          /\ Finished = Sessions
          /\ \E evidence \in Outcomes : score = SuiteVerdict(result, evidence)
          /\ status = FinalStatus(score)

(* The attempt update is computed from unlocked reads.  When the locked    *)
(* transaction accepts it, it is still what a read under the lock would    *)
(* give: no other result has appeared, and the session it promotes can be  *)
(* promoted.                                                               *)
AcceptedPlansAreCurrent ==
    \A w \in Workers :
        pc[w] = "commit" /\ Completable(on[w]) =>
            /\ \E evidence \in Outcomes :
                  plan[w] = AttemptUpdate(result, on[w], given[w], evidence)
            /\ plan[w].verdict = "none" => row[plan[w].next] = "created"

(* Whoever completes a session, and however often, is answered with the    *)
(* one result that was stored for it.                                      *)
FirstWinnerAnswers ==
    \A w \in Workers : pc[w] = "answer" => given[w] = result[on[w]] /\ given[w] # "none"

(* The first final status wins: after it no step changes the status, the   *)
(* score, the outbox row, a session's status or a result; and a stored     *)
(* result never changes at all.                                            *)
Settled ==
    [][ /\ Terminal => UNCHANGED <<status, score, outbox, timedOut, row, result>>
        /\ \A s \in Sessions : result[s] # "none" => result'[s] = result[s]
      ]_vars

(* The attempt's summary after a timeout says that the named session       *)
(* "expired before completion".                                            *)
TimesOutUnfinishedSession ==
    [][ status' = "timeout" /\ status = "running" => result[timedOut'] = "none" ]_vars

(* What an attempt promises, in terms of the rows: the sessions finished   *)
(* are those with a result, the verdict is the score row and the notice    *)
(* the outbox row.                                                         *)
Contract == INSTANCE AttemptContract WITH
    finished <- Finished, verdict <- score, notice <- outbox

ImplementsContract == Contract!Spec

(* No session is left open for ever. *)
EverySessionCloses == <>[](\A s \in Sessions : row[s] \notin OpenRows)
=============================================================================
