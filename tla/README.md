# Verification of the agent benchmark

TLA+ models of the parts of this repository whose correctness depends on the
order in which independent processes act, TLC configurations that check them on
small instances, and TLAPS proofs for every size. Paths are relative to the
repository root (`src/...`); a module's definitions carry the names of the code.

## 1. The system

A *run* is created in the Web application. A coding agent connects to it and
gets a *hosted attempt*: a suite of *sessions*, each one question asked about a
hosted web application (forum, inbox, shop, ...), worked on one at a time. The
orchestrator owns attempts and sessions in Postgres; hosted-sites serves the
applications and keeps copies of sessions in Redis; the Web application owns the
run and learns of its end from callbacks.

```
 agent --HTTP--> hosted-sites --HTTP--> orchestrator API --XADD--> Redis stream
   |                 |                        ^                        |
   |            session cache                 +------- BRPOP ------ worker --SQL--> Postgres
   v             (Redis)                                               |        (attempt, sessions,
 Web app <------------------ callbacks (HTTP) --- outbox worker <------+         results, outbox)
   |  runs, events (Postgres)
   +--HTTP--> orchestrator API (initialize, cancel)
```

### Inventory

**Attempt lifecycle** (`apps/hosted-orchestrator/src/attempt-lifecycle.ts`,
`attempt-handlers.ts`, the SQL routines `complete_hosted_attempt_session`,
`timeout_hosted_attempt`, `cancel_hosted_attempt` and the outbox trigger in
`packages/database/drizzle/migrations`).
State: the attempt row with its metadata (active session, completed sessions,
timed-out session), session rows with deadlines, result rows, the score row, the
outbox row. Operations: complete a session, time out, cancel, sweep expired
sessions. Hard: handlers read without a lock before they call a routine that
locks; commands are repeated, late and concurrent; a handler may die anywhere.
Correct when: there is one open active session while the attempt runs, sessions
finish in suite order, the first final status wins, and status, score, results
and callback agree.

**Command backbone** (`command-backbone.ts`). State: a Redis stream per
partition with a consumer group, a lease per partition, and per command a result
key, retry counter and response list; dead letters in Postgres. Operations:
enqueue, take and renew a lease, read, reclaim, execute, retry, dead-letter,
answer, acknowledge. Hard: a crash between any two Redis calls; redelivery;
duplicate ids; a worker that outlives its lease. Correct when: no command is
lost or left, none is given up before its attempts are used, duplicates get one
answer.

**Attempt initialization** (`server.ts:715-1327`, `idempotent-initializer.ts`,
`single-flight.ts`). State: the initialization lease in Redis, the run's attempt.
Operations: acquire the lease, find an existing attempt, recover an interrupted
one, create attempt and sessions in a transaction, forward the start to the Web
application. Hard: two initializations of a run, a crash between creating and
announcing, cancellation in between. Correct when: a run gets one attempt, and a
cancelled run keeps none that runs.

**Callback outbox** (`callback-outbox.ts`, `claim` and `reconcile` routines in
SQL). State: outbox rows with status, attempts, lease and due time. Operations:
claim, deliver, mark delivered or failed, reclaim a stale claim, reconcile.
Hard: delivered but not marked; claimed by a second worker; the eighth failure.
Correct when: every final status is delivered or visibly dead, and repeated
delivery changes nothing.

**Web run control** (`packages/database/src/web-control-plane/repository.ts`,
`apps/web/app/api/runs`). State: run rows and events. Operations: create,
append an event, complete, cancel, update metadata, stream. Hard: a completion
callback races the owner's cancellation; late events after the end. Correct
when: a run has one final status, which is the one its attempt reached unless
the owner cancelled it.

**Hosted-sites session store** (`apps/hosted-sites/src/runtime/session-store.ts`,
`session-cache.ts`). State: cached copies of sessions. Operations: load through
the cache, mutate and persist a snapshot, complete, cancel by ids, observe expiry.
Hard: reads and rewrites of a cached copy are separate calls. Correct when: a
closed session is not served as open and no accepted mutation disappears.

**Run-session projection cache** (`run-session-projection-cache.ts`). State: a
cached projection per run. Operations: read through, invalidate. Hard: a value
computed before an invalidation and stored after it. Correct when: staleness is
bounded by the cache's time to live.

**Dead-letter replay** (`command-dead-letter.ts`, `server.ts:2227-2302`). State:
dead-letter rows. Operations: upsert, list, replay, prune. Hard: two operators
replay one row; the row is marked after the execution.

**Scoring** (`packages/scoring`, `capability-aggregation.ts`, `action-cost.ts`).
Pure functions of the results of an attempt: the strict score of a session, the
weighted score and verdict of a suite, checks between sessions, capability
tracks and dimensions, the scenario graph, action cost. Hard: zero weights,
rounding, required things for which no evidence was gathered, what may cost
points and must not decide. Correct when: a pass means that everything required
was done, and doing better never costs.

**Deterministic faults** (`hosted-sites/src/runtime/deterministic-faults.ts`).
State: counters and applied, pending and recovered faults in the metadata of a
session. Operations: observe a request. Hard: a fault that falls due while
another waits for its recovery. Correct when: an agent that repeats what was
refused can recover every required fault.

**Hosted applications** (`apps/hosted-sites/src/apps`). Forum, inbox, calendar,
shop, repository, spreadsheet, wiki, notes: each a small state in the session's
envelope, requests that change it, an evaluator, a validation of recovered
snapshots. Hard: order of requests, duplicates, an actor's update in the middle,
what a recovery drops. Correct when: the verdict is the one the history of
requests deserves.

**Web frontend** (`apps/web/lib/playground-store.ts`, `hosted-viewer.ts`,
`hosted-scoring.ts`, `app/api/runs/[runId]/stream`). State: what a page shows of
its run, its stream, its timer, the fetches under way. Operations: start, resume,
turn away, stop; a snapshot arrives by stream or by poll. Hard: loads are several
statements; polls overlap; events are lost or late. Correct when: a page that
follows a run sees its end and the stored score, and the live page shows the
session the agent is at.

The rest: HTTP routing and authentication, question generation, observability,
admission and rate limits, the model catalogue and its synchronisation, case
publication triggers, the test-case data, shared schemas, deployment.
`PROJECT.json` lists every part with its status, and under `hazards` the
behaviours that are hard to test, each at its line.

## 2. The modules

| part of the system | modules | proofs |
| --- | --- | --- |
| attempt lifecycle | `AttemptContract`, `AttemptLifecycle` | `AttemptLifecycleProofs` |
| command backbone | `CommandBackbone` | `CommandBackboneProofs` |
| callback outbox, run control, their composition with an attempt | `CallbackOutbox`, `RunControl`, `RunOutcome`, `RunContract` | `RunOutcomeProofs` |
| initialization, its composition with connect and cancellation | `AttemptInitialization`, `RunStart` (with `RunControl`) | `RunStartProofs` |
| session store and cache of hosted-sites | `SessionStore` | `SessionStoreProofs` |
| hosted applications | `AppSession`, `ForumLite`, `InboxLite`, `CalendarLite`, `ShoppingLite`, `RepoLite`, `SheetsLite`, `WikiLite`, `NotesLite`, `HostedApps` | `HostedAppsProofs` |
| what a suite may be, scoring, faults | `Suites`, `Scoring`, `DeterministicFaults`, `RunScoring` | `RunScoringProofs` |
| stream, page and live page | `RunView`, `HostedViewer`, `LiveRun` | `LiveRunProofs` |

`MC*` modules and `.cfg` files are instances for TLC. How the modules meet:

```
 AttemptLifecycle --implements--> AttemptContract --instance in--> RunOutcome --implements--> RunContract
 CallbackOutbox, RunControl ---------------------- instances in --> RunOutcome
 AttemptInitialization, RunControl --------------- instances in --> RunStart
 AppSession <--extended by-- eight applications -- instances in --> HostedApps
 Suites <- Scoring, DeterministicFaults <- RunScoring <--+
 Scoring <- RunView <------------------------------------+-- LiveRun
 HostedViewer <------------------------------------------+
```

### AttemptContract: what an attempt promises

An abstract state machine over four things a reader of the outcome sees:
status, finished sessions, verdict, notice. Sessions finish in suite order; then
there is exactly one final status, with one verdict and, unless the owner
cancelled, one notice; nothing changes afterwards; an attempt ends.

### AttemptLifecycle: how it is kept

One attempt, `N` sessions, any number of workers. Attempts share no rows, so one
is enough. The variables are the columns that decide something; `result[s]`,
`score` and `outbox` are rows, "none" while absent. Time is one action,
`DeadlinePasses`.

| code | definitions |
| --- | --- |
| creation of attempt and sessions, one transaction | `Init` |
| `dispatchWriteCommand`, row read by token | `TakeCompletion` |
| `finalizeSession`, closed session | `RecallResult` |
| `finalizeSession`, "not the active session" | `CheckActive` |
| `completePersistedSession`, unlocked reads and the computed update | `ReadResults`, `AttemptUpdate` |
| `complete_hosted_attempt_session` | `CommitDuplicate`, `CommitConflict`, `CommitAdvance`, `CommitFinish` |
| trigger `enqueue_hosted_attempt_completion` | `Enqueue`, part of the actions that set the status |
| `sweepExpiredSessions`, `timeoutExpiredAttempts` | `SweepExpired` |
| `getSession` in hosted-sites | `ObserveExpired` |
| `timeoutAttemptFromExpiredSession`, `timeout_hosted_attempt` | `LoadForTimeout`, `TimeoutHostedAttempt`, `CommitTimeout` |
| `cancel_hosted_attempt` | `Cancel` |
| answer, crash or exception of a handler | `Stop` |

A routine that locks the attempt row is one step; every read outside the lock is
a step of its own, so that other workers act in between. The order in which
Redis delivers commands is not relied on: `docs/architecture.md:63` calls it "an
optimization rather than the lifecycle correctness boundary", and the model
checks exactly that. Commands may come for any session, with any outcome, any
number of times. What consistency checks, capability matrices and the scenario
graph find is an arbitrary outcome (`evidence`); `RunScoring` computes it.

### CommandBackbone: how a command reaches its handler

One partition with a given sequence of commands (`Stream`; an id may occur
twice, as `maintenance-cleanup-<bucket>` does when several API replicas enqueue
it). Each Redis or database call of `processMessage` is one action, in the
code's order: `Lookup`, `CheckBudget`, `HandlerReturns` or `HandlerThrows`,
`Clear`, `CountFailure`, `Bury`, `Forget`, `Store`, `Publish`, `Acknowledge`.
`Deliver` is XREADGROUP, `Reclaim` XAUTOCLAIM. `Abort` is an exception that ends
the batch, `ClearThrows` the one call whose exception is caught as a failure of
the handler, `Crash` the death of the process. `Start`, `LeaseExpires` and
`LoseLease` are the lease. `succeeded` and `failed` are history.

`LeaseOutlived` chooses between two assumptions: that a live worker always
renews its lease within its ten seconds, or that it may stall, lose the
partition to a successor and then run on beside it until it notices.

### RunOutcome: how a run ends

The attempt is its contract, with the suite as one session. `CallbackOutbox`
has the row and the workers: `Claim` (with its time limit), `Answered` or
`Refused`, `MarkDelivered`, `MarkFailed`, `MarkThrows`, `GiveUp`, `Abandon`. Both
marks ask for the status "delivering" only, whoever claimed, so a worker that
outlives its claim acts on its successor's; the model has that. `RunControl` has
the row of the run: metadata, status reports (`ReportStatus`, written whatever the
status was, as `repository.ts:118-138` does), `Complete` (compare-and-set), the
owner's cancellation in its three requests. `RunOutcome` joins them and states
who sends: its `ReportRunning` reports "running" to an open run and nothing else,
because nothing in the repository sends an event that changes the status later;
`EndStays` rests on that, an external runner could break it. In `RunOutcome`
`Deliver` is one step of the worker and of the Web application, `ResponseLost`
one that took effect and looks failed.

`RunContract` is the promise: an attempt ends once, its run ends once, as the
attempt did or cancelled; and it does end if the attempt ended by itself, unless
the callback is visibly dead. The refinement maps
`outcome <- status of a begun attempt, told <- final status of the run, givenUp <- row = "dead"`.

### RunStart: how a run gets its attempt

`AttemptInitialization` has the commands `attempt.init`, one flight per process
and revision that later commands join, the Redis lease, and the calls of a
flight: `Find`, `AcquireLease` (or `Contended`, `RedisDown`), the second look,
`Create` (one transaction, or `Create` and `CreateSessions` through the Supabase
client), `Recover`, `Announce`, `Release`, with `CallFails` and `Crash`.
`RunStart` adds the connect route (`ReadRun`, `RecoverConnection`, `PostInit`,
`InitAnswered`, and `GiveUpWaiting` for the backbone's 504), `Publish` of a new
revision between two connects, and the owner's cancellation.

### SessionStore: where a session's work is

The envelope in Redis, hot copies in the memory of each replica, the durable row.
A request is admitted through one of them (`ReadCache`, `Recover`,
`ReadHotCopy`, `ReadMemory`), changes its object (`Mutate`), saves (`Save`) and
sends a snapshot (`Snapshot`, `SnapshotUnanswered`, executed late by
`LateSnapshot`), or is judged and finishes (`Judge`, `Finish`,
`FinishUnanswered`, `Close`). The row is also ended by `Sweep` and `Cancel`;
`Invalidate` is the orchestrator's call to a replica, with its two loops
`CancelById` over Redis and `CancelSessions` over memory. `RedisLoses` and
`Crash` lose copies. The work is the set of edits made. `calm` records whether a
call has failed or two requests have overlapped: what is promised always is told
apart from what is promised to sequential requests.

### The hosted applications

`AppSession` is what they share: accepted requests, judgement with an answer, a
lost answer or none, and recovery from the snapshot. An application adds its
requests, its evaluator and its validation (`Hydrate`), over the values its
questions tell apart. Its `Deserved` reads the verdict off the history of
requests alone, in other terms than the evaluator, which reads it off the state.
`HostedApps` puts the eight side by side.

### Suites, Scoring, DeterministicFaults, RunScoring

`Suites` says which suites the schemas admit; `SuitesAssumption` makes TLC check
that each suite of an instance is one. `Scoring` has the functions of
`packages/scoring` and of the orchestrator's aggregation; scores are integers
in ten-thousandths, as `toFixed(4)` leaves them. `DeterministicFaults` is
`observeDeterministicFault`. `RunScoring` works an attempt through: `Request`
(counted, maybe struck by a fault), `Edit`, `FinishSession` with whatever the
evaluators may find; the last one computes the result of the suite.

### RunView, HostedViewer, LiveRun

`RunView` has the row and the events of a run, transactions that begin and
commit (`Begin`, `Commit`; `created_at` is the beginning), the stream
(`StreamReads`: two queries in any order; `Receive`, `StreamExpires`) and the
store of the page (`startRun`, `resumeRun`, `reset`, `stopRun`, `StreamLost`,
`Tick`, `PollReads`, `PollDone`, `PollFails`). A fetch is `late` once something
else was shown meanwhile. `HostedViewer` has the derivations of
the live page. `LiveRun` ties both to `RunScoring`: `Connect` announces the
sessions, `Score` posts what was found, `Forward` sends what the handler of a
finished session has yet to send, first the progress and then the score, each
inserted, lost or late.

### Seeded faults

Operators commented "Seeded fault" are wrong variants of the definition that
follows them: a check left out, an index off by one, a key not written. They
occur in no specification. Put in the place of their original, each makes the
property listed with it in `PROJECT.json` (`mutants`) fail, which shows that the
property depends on what the code does there.

## 3. What is model-checked

| run | instance | properties | states |
| --- | --- | --- | --- |
| `attempt_lifecycle` | 2 sessions, the second not required, 2 workers, with fairness | `TypeOK`, `OneActiveSession`, `SuiteOrder`, `OneStory`, `AcceptedPlansAreCurrent`, `FirstWinnerAnswers`, `Settled`, `ImplementsContract`, `EverySessionCloses` | 72,541 |
| `command_backbone` | 3 entries of 2 commands, 2 workers, 3 attempts, 2 faults, leases respected | `OneConsumer`, `OneAnswer` | 174,984 |
| `lease_outlived` | 2 entries of 1 command, 2 workers, 2 attempts, 2 faults, leases outlived, with fairness | `NothingLost`, `GivenUpAfterAttempts`, `EveryCommandSettles` | 257,660 |
| `run_outcome` | 2 outbox workers, 3 claims, 1 cancellation, 1 report, with fairness | `OneEnding`, `RunTellsAttempt`, `DeliveredIsKnown`, `AnswersAreTrue`, `EndStays`, `ImplementsRunContract`, `CallbackSettles` | 98,764 |
| `run_start` | 2 processes, 2 revisions, 2 connects, 1 cancellation | `AnnouncedOnce`, `LeaseHeld`, `ConnectedToAttempt`, `CancellationReaches` | 1,058,512 |
| `session_store` | 2 replicas, 2 edits, 1 finish request | `SequentialEditsKept`, `AnswersAgree`, `FrozenAtEnd`, `CancelledIsRefused` | 2,279,500 |
| `hosted_apps` | 8 applications, a question of every kind, 3 to 5 requests | `TypeOK`, `PassIsDeserved`, `FailIsDeserved` | 3,425,073 |
| `live_run` | 8 suites, 2 of them followed, with fairness | `PassIsWhole`, `BetterNeverHurts`, `FaultsInReach`, `StreamIsCurrent`, `ShownScoreIsTrue`, `ViewerFollows`, `OnlyOvertakenGoesBack`, `ConnectedSeesEnd` | 305,690 |
| `timeout_of_finished_session` | 2 sessions, 1 worker | `TimesOutUnfinishedSession` is violated |  |
| `exhausted_reexecuted` | 1 worker, 1 fault | `ExhaustedNotReexecuted` is violated |  |
| `success_given_up` | 1 worker, 1 fault | `GivenUpAfterFailures` is violated |  |
| `inbox_recovery` | as `hosted_apps` | `RecoveryKeepsWork` is violated |  |

What they say, and why it is not obvious:

* `AcceptedPlansAreCurrent`: the attempt update is computed from reads that no
  lock protects and then overwrites the metadata, yet whenever the transaction
  accepts it, it equals what a read under the lock would have given. This is why
  the code needs both the check in `finalizeSession` and the one in the routine.
* `EverySessionCloses`, `ImplementsContract`: whatever agents do, an attempt ends.
* `OneAnswer`, `NothingLost`, `GivenUpAfterAttempts`, `EveryCommandSettles`:
  through crashes, redelivery and duplicate ids; the last three also when two
  workers own the partition.
* `RunTellsAttempt`, `DeliveredIsKnown`, `AnswersAreTrue`: three databases' worth
  of knowledge about one end agree, though each answer may be lost; what the
  owner was told when cancelling stays true. `CallbackSettles` is the liveness
  of the outbox, `ImplementsRunContract` the composition's promise.
* `CancellationReaches`: an attempt runs on under a cancelled run only if the
  orchestrator had found none when the owner asked. That it can at all is the
  race of the connect route with the cancellation, which the code does not close.
* `SequentialEditsKept`, `AnswersAgree`, `FrozenAtEnd`, `CancelledIsRefused`: the
  first is `docs/consistency-and-failure.md:41`; the next two hold with any number of
  stale copies and failures; the last as long as no request was at work and no
  call failed.
* `PassIsDeserved`, `FailIsDeserved`: verdict from state = verdict from history,
  over copies, wrong turns, recoveries and lost answers.
* `PassIsWhole`: the verdict of a suite, computed through weights, tracks,
  dimensions, shares and the scenario graph, is the conjunction of what is
  required, stated from the facts. `BetterNeverHurts`: had one more evaluator
  passed, neither verdict nor score would be lower.
* `FaultsInReach`: an agent that repeats what a fault refused can recover every
  required fault, though a fault that falls due while another is pending is
  skipped. The one exception is a fault whose occurrence is the retry of
  another required fault; the schemas do not keep the two apart (see 4).
* `StreamIsCurrent`, `ConnectedSeesEnd`, `OnlyOvertakenGoesBack`,
  `ShownScoreIsTrue`: a stream never sleeps on news it has not sent; a page that
  follows a run sees its end; only a poll that was overtaken takes a page back.
* `ViewerFollows`: unless progress was lost or late, the live page shows the
  active session, whatever became of scores and announcements. The comment at
  `hosted-viewer.ts:129-130` claims no more than the code keeps while the attempt
  runs; at its end a lost score makes the page name a session that is over,
  which is why the property asks for every event there.

### Bounds

* `attempt_lifecycle`: two sessions are a first and a last one, the second not
  required, so that verdicts differ from the plain conjunction. Liveness is what
  keeps it at two: three sessions have 856,906 states, too many for a tableau.
  Two workers give every race of two routines. The safety properties are proved
  for any number of either. Workers stand for commands as
  well, since a command is taken anew after any `Stop`.
* Backbone: three entries let one command stand between the two copies of
  another. `MaxFaults` bounds crashes, thrown calls and early lease expiries, in
  the guards of `Fault`: two let a fault hit the recovery from a fault.
  `MaxAttempts` is the code's 3, and 2 where the lease is outlived and liveness
  is checked.
* `run_outcome`: two outbox workers, three claims in place of the code's eight
  (one that fails, one that is outlived, one that succeeds), one cancellation,
  one report of metadata.
* `run_start`: two processes, two revisions, two connects, one cancellation:
  flights of one key in two processes, and of two keys in one.
* `session_store`: two replicas, two edits, one request to finish, two requests
  at a time (`MaxBusy`), one snapshot command that comes late (`MaxLate`).
* `hosted_apps`: three accepted requests for the shop, five for inbox and
  calendar, four for the rest. This is the longest task of each application's
  questions in the instance; the published forum question of seven requests is
  represented by its parts, in questions of four. The theorems of
  `HostedAppsProofs` hold for every bound.
* `live_run`: eight suites. `Plain`: two sessions, one of weight 0 and optional,
  three checks. `Weighted`: two sessions and nothing else; `Weightless` is the
  same with no weight. `Capability`: a matrix, a graph with a revision, a
  distractor and three faults, and up to four recorded actions. `Entangled`: one
  session with two revisions between the same nodes, a dependency on a
  distractor, and optional faults that fall on the retries of others; in
  `Crowded` both such faults are required. `Paged`: one session, followed by a page with `MaxPolls` = 2
  fetches at a time. `Viewed`: two sessions and one recorded action, shown on
  the live page, one event late at a time. A page stays visible, a snapshot that
  is sent arrives before the stream's next pause is over, the announcements of a
  created attempt are inserted together or lost one by one, a cancellation of a
  run is one transaction, and an attempt that is followed does not time out.
* Symmetry is used in safety runs only, never where liveness is checked.
  Deadlock is checked for attempts; the other runs switch it off because a
  stream that is worked off, a run or a session that is over, needs nothing more.

### Fairness

* Attempts: time passes (`DeadlinePasses`); a worker does not stay in the middle
  of a command for ever (`Stop`). The steps of a sweep are strongly fair: the
  sweep starts again from a timer every few minutes, and is not assumed to be
  interrupted each and every time. Completions, requests from hosted-sites and
  cancellations carry no fairness: an agent may leave at any time, and the
  attempt must end all the same.
* Backbone: Redis expires leases (`LeaseExpires`), the container's restart policy
  starts some worker again (`Start`), the loop of a live worker goes on (`Work`),
  its renewal timer notices a lost lease (`LoseLease`). Commands need not come,
  and nothing is assumed of handlers, which may fail every time.
* Run outcome: attempts end (`AttemptEnds`, which `EverySessionCloses` justifies),
  time passes for rows that wait, and each step of a worker ends, well or badly:
  maintenance claims due callbacks for ever. Owners and agents need do nothing.
* Live run: queries end and timers fire; what the stream sends arrives; strongly
  fair is only that a poll does not fail for ever. Owners, agents and the
  network need do nothing.

## 4. What the checks found

1. **A finished session can time out its attempt.** `getSession`
   (`session-store.ts:415`) compares `expires_at` with the clock whatever the
   session's status, and completion leaves `expires_at` set. A request with the
   token of a session completed on time, made after its old deadline, ends the
   attempt while a later session is active, with the summary that this session
   "expired before completion". Run `timeout_of_finished_session`.
2. **A dead-lettered command can be executed again.** The retry counter is
   deleted (`command-backbone.ts:249`) before the result is stored (`:251`). A
   crash in between leaves neither, and the reclaimed entry starts from zero
   attempts. Run `exhausted_reexecuted`.
3. **A handler that succeeded can be counted as failed.** The deletion of the
   retry keys stands inside the `try` block (`command-backbone.ts:215`), so a
   Redis error there counts as a failure and the last one dead-letters a command
   whose effects were committed. Run `success_given_up`.
4. **A recovered inbox has no threads.** The validation of a snapshot
   (`inbox-lite/definition.ts:26-29`) asks every message for fields that only
   drafts have, so all threads are dropped and a new draft is refused. Run
   `inbox_recovery`.

The findings quote the statements they contradict in `PROJECT.json`.

Four more things are behaviours to know of and no findings: three were met while
the theorems were proved and are covered by the suites of `live_run`, one is in
the forum's evaluator:

* **Two required faults may exclude each other.** If two required faults strike
  one class of requests of a task at consecutive occurrences, the retry of the
  first is counted as the occurrence of the second and passes it by
  (`deterministic-faults.ts:99-113`). The schema refuses equal occurrences only
  (`capability-benchmark.ts:262-275`). Nobody can pass such a suite (`Crowded`).
  The same goes for a required fault on a distractor, or a revision of one.
* **Parallel revisions share a proof.** The outcome of a node lists the nodes it
  revised, not the edges (`capability-aggregation.ts:184-191`), so with two
  `revises` edges between two nodes the proof of one passes both
  (`Entangled`). `PassIsWhole` says it as the code has it.
* **A suite that weighs nothing** has the stored score 0, while the page derives
  no score at all from the same events (`hosted-scoring.ts`, `Weightless`).
  `ShownScoreIsTrue` says it as the code has it.
* **The forum's order is a subsequence.** A goal asks for "this exact moderation
  order" (`test-cases/src/apps/forum-lite/definition.ts:66`); the evaluator
  (`forum-lite/evaluate.ts:239-252`) looks for the order within what was done to
  the thread and its duplicate, so other and repeated actions between its steps
  are tolerated, and a step done to the duplicate counts. `InOrder` in `ForumLite`
  says it as the code has it.

## 5. What is proved

Everything below holds for every value of the constants. TLC evaluates the
assumptions in every run.

### AttemptLifecycleProofs

Assumption: `N` is a positive natural, `Required` a subset of the sessions;
`Workers` is any set, even an infinite one.

| theorem | statement |
| --- | --- |
| `TypeCorrect` | `Safety => []TypeOK` |
| `ActiveSessionUnique` | `Safety => []OneActiveSession` |
| `SuiteOrderKept` | `Safety => []SuiteOrder` |
| `OneStoryTold` | `Safety => []OneStory` |
| `DuplicatesGetFirstResult` | `Safety => []FirstWinnerAnswers` |
| `UnlockedReadsAreSafe` | `Safety => []AcceptedPlansAreCurrent` |
| `FirstFinalStatusWins` | `Safety => Settled` |
| `ContractKept` | `Safety => Contract!Safety` |

The inductive invariant is `IInv`: types, the relations between the rows
(`RowsInv`), what a worker remembers of its command (`LocalState`), and two
strengthenings. `NeverAhead` says that a worker past `CheckActive` holds a
command for a session not later than the active one: this is what
`CheckActive` establishes, and what makes the session that `FirstPending` finds
one that exists. `PlansAreCurrent` says that a plan for the session that is next
was computed from all the results there are. It is inductive because a
result can appear only for the active session: if another worker's transaction
adds one, the plan's session is no longer completable, so the plan will be
refused. From it and the suite order follows that the promoted session is still
"created". The proof has one lemma per action that writes rows, and lemmas on
`FirstPending` and `AttemptUpdate` over prefixes of the suite.

### CommandBackboneProofs

Assumption (`BackboneAssumption`): the stream is a finite sequence of commands,
there are finitely many workers, `Nobody` is none of them, `MaxAttempts` is
positive, and `MaxFaults` any natural number.

| theorem | statement | needs |
| --- | --- | --- |
| `TypeCorrect` | `Safety => []TypeOK` | |
| `NoCommandLost` | `Safety => []NothingLost` | |
| `LimitRespected` | `Safety => []GivenUpAfterAttempts` | |
| `LeasesExclude` | `Safety => []OneConsumer` | `~LeaseOutlived` |
| `CommandsAnsweredOnce` | `Safety => []OneAnswer` | `~LeaseOutlived` |

The first three hold even when several workers own the partition at once. Their
invariant `IInv` says that what a worker has in hand is true of the keys
(`Memory`: past `Store` the result is there, past `Publish` the answer, "dead"
only with the dead letter) and that this truth is never taken back, since the
keys it speaks of only grow. `LimitRespected` adds `CountedOnce`: the retry
counter plus the number of workers that have executed the command and not yet
counted it is at most the number of executions. The counter may run behind,
after a crash or a deletion, but never ahead, however many workers increment
it. The last two theorems rest on `Leased` (whoever runs holds the lease), hence
one worker at a time has entries in hand, hence no result appears between its
`Lookup` and its `Store`.

### RunOutcomeProofs

Assumption: `MaxAttempts` is positive; workers, submitters and cancellers are
any sets.

| theorem | statement |
| --- | --- |
| `TypeCorrect` | `Spec => []TypeOK` |
| `EndsOnce` | `Spec => []OneEnding` |
| `RunEndsAsAttempt` | `Spec => []RunTellsAttempt` |
| `DeliveryIsReal` | `Spec => []DeliveredIsKnown` |
| `OwnersAreToldTheTruth` | `Spec => []AnswersAreTrue` |
| `DeadIsExhausted` | `Spec => []Outbox!DeadAfterAllAttempts` |
| `FinalForGood` | `Spec => EndStays` |
| `RunContractKept` | `Spec => Contract!Safety` |

`IInv` adds to the properties `NoticeIsStatus` (the notice and the row are born
with the final status and repeat it) and `WorkersKnow`: a worker past a claim has
a row to mark, one that saw the callback accepted knows that the run has ended,
and no worker's claim is newer than the row's count. The last is what keeps a
callback from being given up early although a worker may mark a claim that is
not its own.

### RunStartProofs

Assumption: `Nobody` is neither a flight nor a revision; processes, revisions,
connects and cancellers are any sets.

| theorem | statement |
| --- | --- |
| `TypeCorrect` | `Spec => []TypeOK` |
| `AnnouncedAtMostOnce` | `Spec => []AnnouncedOnce` |
| `LeaseIsExclusive` | `Spec => []LeaseHeld` |
| `ConnectedIsComplete` | `Spec => []ConnectedToAttempt` |
| `CancellationIsHeard` | `Spec => []CancellationReaches` |

`IInv` is `Types /\ OneCreator /\ SuccessIsComplete /\ LeaseHeld /\ AskedIsSeen`.
`OneCreator`: the uniqueness of the row, and nothing else, makes one flight the
creator for good; leases are not used, which is why the theorem survives their
expiry and a Redis that is down. `SuccessIsComplete` follows a success from the
flight through the command to the connect. `AskedIsSeen` says that from the
orchestrator's answer on, an attempt is cancelled or was not there to be seen.

### SessionStoreProofs

Assumption: edits and finish requests are different things, and `None` is
neither a request nor a set of edits; replicas and requests are any sets, and
`MaxBusy` and `MaxLate` anything.

| theorem | statement |
| --- | --- |
| `TypeCorrect` | `Spec => []TypeOK` |
| `OneResult` | `Spec => []AnswersAgree` |
| `NoEditLost` | `Spec => []SequentialEditsKept` |
| `FinalRowFrozen` | `Spec => FrozenAtEnd` |
| `CancelledStaysOut` | `Spec => CancelledIsRefused` |

`Types` adds to the type invariant that a request at work has a replica and an
object. `Truth` holds always: whatever says that the session is completed or
failed is later than the stored result. `Sequential` holds while no call has
failed and no two requests overlapped (`calm`): one request is at work at most,
it has every edit that was answered before it (`Follows`), and once there is a
result the envelope says so as soon as its request is done (`InTurn`). Every
step that breaks `calm` leaves `Sequential` for good, so the proof shows for each
action that it keeps `Sequential` or breaks `calm`.

### RunScoringProofs, LiveRunProofs

Assumptions: every suite is one that `ValidSuite` admits (`SuitesAssumption`),
and `MaxPolls` is positive. The suites, their sessions, evaluators, weights,
checks, capabilities, graphs and faults are otherwise any. That tasks are
distinct within a suite is part of `ValidSuite`, although no schema asks for it.

| theorem | statement |
| --- | --- |
| `PassMeansWhole` | `Spec => []PassIsWhole` |
| `RetriesReachFaults` | `Spec => []FaultsInReach` |
| `ScoresAreInRange` | `Spec => []ScoreInRange` |
| `BetterNeverCosts` | `Spec => []BetterNeverHurts` |
| `ScoresAreShownTrue` | `Spec => []ShownScoreIsTrue` |
| `StreamMissesNothing` | `Spec => []StreamIsCurrent` |
| `OnlyLatePollsGoBack` | `Spec => OnlyOvertakenGoesBack` |
| `ViewersFollow` | `Spec => []ViewerFollows` |

`RunScoringProofs` has the lemmas about an attempt alone, `LiveRunProofs` the
theorems. Each rests on an inductive invariant of its own:

* `FaultInv`: the schedule's counters, strikes and recoveries are of one story,
  and in a session that was not strayed from, a required fault that is due has
  struck unless it was the retry of another (`Retried`). The other half, that
  what struck and is not pending was recovered, is what the retry gives.
* `EvidenceInv`: the finished sessions are the first ones of the suite, one for
  each task, and the outcome is what `aggregateSuiteScore` says of them. With it
  `PassIsWhole` is a fact about the pipeline: the components of the capabilities
  and `Facts`, the reference, agree kind by kind (`Agree`), and so do the
  verdicts of all the groups that are made of them.
* `ScoresInv`: a finished session has all or nothing, and so have its evaluators.
  Sums of weighted parts then lie between 0 and the total weight, and rounding
  keeps a quotient in range.
* `JudgedInv`: a finished session has the status and the score that
  `aggregateStrictScore` gives its evaluators, and each of these the score of its
  own status. `BetterNeverHurts` then is a fact about the pipeline, shown from the
  bottom up for any two lists of sessions of which one fares no worse (`Faring`).
  With one more evaluator passed a session fares no worse: its evaluators are a
  set, so the better one may become equal to another, and the mean is then taken
  of one value less (`RoundedOfFewer`). No node, edge or fault of the graph fares
  worse either (`NodesFare`, `EdgesFare`, `FaultsFare`); the components of the five
  dimensions correspond one by one, with their weights kept (`Paired`,
  `ComponentsFare`), and so do those of each track and dimension; a weighted
  score of parts that correspond does not fall (`WeightedGrows`).
* `ViewInv`: what stream, polls and page have read was the database of an earlier
  moment (`SeenBefore`), a stream that sleeps has sent what its fingerprint
  saw, and a page at the end of its run has no stream, no timer and
  only overtaken polls. This last part is inductive only because a page that
  sees a final status drops both in the same step.
* `EndsInv`, `ShownInv`: a final row has its score, a page in a final phase shows
  the row of a final run; both need that a run that has ended never changes.
* `FollowInv`: events tell only of sessions that were begun or done
  (`EventsInv`); unless progress was missed or is yet to be sent, the newest
  progress is that of now (`ProgressInv`); what was finished is scored and what
  there is was announced, unless that was missed (`KnownInv`).

Sums are the library's folds, whose recursion the provers do not unfold under an
induction rule. They are reasoned about through smallest counterexamples
instead: of the finite sets on which a claim fails there is a minimal one
(`SmallestSet`, from the well-foundedness of the strict subset ordering), and
one step of the sum leads to a smaller one.

### HostedAppsProofs

Assumption: each application has some bound on the accepted requests of a
session (`RequestsAssumption`), which may be any number. The questions are the
kinds that `Questions` of each module lists, one request asks for two units of a
product at most (`MaxQuantity`), and a request is one step.

| theorem | statement |
| --- | --- |
| `AppsTypeOK` | `Spec => []TypeOK` |
| `PassesAreDeserved` | `Spec => PassIsDeserved` |
| `FailuresAreDeserved` | `Spec => FailIsDeserved` |

The evaluator reads the state, `Deserved` the history of requests, so neither
property is inductive: for each application an invariant says what every part of
its state tells of the log, and `AppsInv` is the eight together. The proof of an
application has the same parts each time: its session starts in the invariant
(`NotesStarts`, ...), an accepted request keeps it (`NotesRequested`, ...), so does a
step of the envelope (`NotesSame`, ...), and under it the evaluator passes exactly
what is deserved (`NotesJudged`, ...). The theorems then only put the eight
side by side.

* Notes, wiki, repository, sheet: what there is of a note, an answer, a file or a
  row is what the latest request for it left (`NotesWritten`, `WikiAnswered`,
  `RepoEdited`, `SheetsCell`); a merge request and a validation have what the files
  and rows were then.
* Calendar: the evaluator compares an event's revision with the baseline of the
  rechecks. `CalendarTracked` says what that comparison tells of the history:
  when the first recheck came, the tentative entry was the latest one; no write
  lies between the rechecks; and the revision is above the baseline exactly if
  one came after them.
* Shop: the latest order holds the items, shipping and coupon of the latest
  checkout, with amounts the evaluator computes again to the same sums. The sums
  are folds in an order the definition leaves open; `TallyIs` shows that no order
  matters.
* Inbox: drafts and sent letters are numbered by their saves, each letter is as
  its latest write left it, and sending removes the draft (`RemovedAt`), so that
  "no draft is left" says that nothing but the sent letter was ever saved.
  A recovery loses the threads (finding 4): the invariant does not depend on them.
* Forum: the first action of a kind in the list is the first such request in the
  log, a value is as the latest request left it, and the evaluator's walk along
  the order is a fold whose value after one more action is `ForumNext` of the value
  before (`ForumFoldGrows`): it has come to place n of the order exactly if the log
  contains its first n kinds in that order (`ForumFar`). For the three kinds with
  a lock between them this needs that a thread is locked before it is pinned and
  after it is reported (`ForumLocks`), because the evaluator looks at the first
  of each kind as well.

### Only model-checked

* Liveness under fairness, which is out of the prover's reach:
  `EverySessionCloses`, `EveryCommandSettles`, `CallbackSettles`,
  `ConnectedSeesEnd`, and the liveness halves of `ImplementsContract` and
  `ImplementsRunContract`.
* The four violations are counterexamples, not theorems.

The type invariants of backbone, run outcome, run start and session store are
stated by theorems only.

## 6. What is left out, and why

* Attempt: titles and summaries; the sweep's limit of 500 rows; the statuses
  "created" and "scoring" of an attempt, which no code writes.
* Backbone: `MAXLEN` trimming of the stream at 100,000 entries, the expiry of
  results after 24 hours and of answers after 60 seconds, the shared connection
  of the callers' `BRPOP` (a slow command delays others' answers, at worst to
  the 504 that `RunStart` and `SessionStore` allow at any time), batches of more
  than 16 entries, entries without an id or type, back-off. Partitions share no
  keys apart from their callers.
* Outbox: the order of a batch and the length of back-off. Reconciliation has no
  action: the row is inserted in the transaction that ends the attempt.
* Session store: the expiry of cached envelopes by age is `RedisLoses`.
* Applications: pages, wording, the repository's simulated CI, amounts in cents.
  A request is one step, although a route may check before it reads the form
  (`CalendarLite`'s `Create`, `calendar-lite/routes.ts:49-54`): two overlapping
  requests could both pass such a check. What overlapping requests do to a
  session's work is asked of `SessionStore`, over edits of any kind. Replies to the
  forum's duplicate thread, its title and category are kept by the code and asked
  for by no question.
* Scoring: the hash of a digest (an injective mark), decimals of weights beyond
  hundredths. `calibration.ts` is not modelled.
* Page: a hidden tab, the quota, artifacts, the URL within a session, the
  forwarding of progress by a timeout.
* Dead-letter replay: a second execution of any command, at any time, is what the
  handlers' properties allow already; the row's status is a record for operators.
  Scrubbing and pruning change nothing else.
* Projection cache: a read-through value of ten seconds' life that only a display
  reads; a stale value is allowed, so nothing can be violated.
* Rate limits and admission: counters in front of routes; a refused request is no
  step of a run. The daily quota is counted before the insert without a lock,
  so two requests may both take the last place: by inspection, a limit of the
  design (`hazards`).
* Publication triggers, catalogue synchronisation, identity, observability,
  leaderboard, most schemas, deployment: one writer, libraries, displays, data.

## 7. Plan

What would add most from here:

1. Publication of a case (`0000_portable_baseline.sql` triggers) with two
   publishers, and the revision a run binds to.
2. `CommandBackbone` composed with one handler, to replace the argument that
   every handler tolerates repetition by a refinement.
3. The quota as a module of its own, with the fix it would need.
4. The forum's seven-request question and three sessions in `Viewed`, in
   instances of their own.
5. Proofs about `RunScoring` and `HostedApps` together: the verdict of a session is
   an input of the first and the result of the second.
