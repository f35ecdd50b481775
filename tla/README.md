# Freeside: a verification project

Freeside runs coding agents on a developer's machine. A Go daemon (`freesided`)
keeps everything it knows in one SQLite database, drives each task through
specification, production, review and publication, launches agents in
containers, talks to GitHub, and asks its operator for decisions through a
signed command channel that a Swift app reads and answers. These TLA+ modules
model the parts of daemon and app whose correctness depends on the order of events:
what a crash, a late answer, a second process, a restored database or an
operator's click may do between two of their steps.

## 1. Inventory

All paths are under `src/daemon/internal/` unless they say otherwise.
`PROJECT.json` lists every component with its sources and status.

| Component | State it keeps | Operations | Talks to | What is hard |
|---|---|---|---|---|
| Durable scheduler (`scheduler`, `store/schedule.go`, handlers in `cmd/freesided`) | tables `schedules`, `schedule_timers`, `schedule_occurrences`; in memory the scan of a pass and the in-flight marks | arm, re-arm, conclude; pass, redeliver, coalesce, fire; consume | handlers, items, the onboarding CLI (a second process on the same database) | handlers outlive the generation they were started for; two schedulers share one clock; crash between fire and consumption |
| Follow-up filing (`publish/follow_up_filer.go`, `store/follow_up_filing_ledger.go`) | intents, attempts, filed issues, notices; failure counts in memory | discover, open, list, dispatch, settle, adopt, refuse | GitHub, the App registry, task closure | a create is not idempotent: its answer may be lost and it may execute late |
| Publication (`publish/publisher.go`, `recover.go`) | publication intents, branch and PR identity | push, open PR, label, comment, recover | GitHub, engine | crash between an external effect and its record |
| Engine stages (`engine`) | runs, attempts, stage records, review rounds | launch, collect, adjudicate, remediate, re-enter | exec, ward, publish, signet items | long external steps, idempotent effects, recovery at each stage |
| Task cancellation (`store/task_cancellation.go`, `task_workflow_closure.go`, `engine/task_cancellation.go`, `task_execution.go`, the stop calls of the providers) | lifecycle log, closures, stop requests with their acknowledgements; ownership records of each provider; in memory the registered workers and the coordinator's attempts | start, complete, abandon, close, stop; register, claim, launch; stop, join, confirm, retry | every component that starts effects; the operator | a fence raced by work already under way; work that outlives its daemon; a proof of an inventory that has changed |
| Launch reservations and usage pools (`store/launch_reservation.go`) | reservations, pools | admit, release, recover | engine | counting under concurrency |
| Store kernel (`store/kernel.go`, `outbox.go`) | revision, epoch, outbox | transactions, change feed | everyone; the client | a revision must order everything a client may see |
| Signet (`signet`) | items, commands and receipts, devices, deliveries | submit, decide, pair, revoke, notify | the app, ntfy, engine | repeated, stale and late commands; owed notifications |
| Client synchronisation and decisions (`src/app/Sources/FreesideModel`: `SyncCoordinator`, `InboxStore`, `DecisionModel`) | cursors (epoch, full revision, observed revision), rows, certified cards, one pending command per item; a cache file of most of it | heartbeat, bootstrap, evict, validate, submit, resend, relaunch | signet | epochs that change under a request; answers out of order; a lost answer to a command that may have been recorded |
| Ward and exec (`ward`, `exec`) | container journal, credential leases | create, run, stop, recover; refresh | container runtime, providers | crash recovery, one shared rotating credential |
| Backup, restore, migrations (`store`) | archives, generations | back up, restore, migrate | files | which database a restored process believes it is |
| Daemon lock, keystore, janitor, supervision (`daemonlock`, `publish/keystore.go`, `cmd/freesided`) | lock files, held keys | acquire, hold, revoke, supervise | operating system, GitHub | two daemons; keys that outlive a crash |
| Import, verification, export, images, inference, observation, API contract | none of their own across steps | pure checks, file and network I/O | engine | data, not order: left to tests |

What makes each component correct, in one line:

- *Scheduler*: no fire is lost or delivered twice to effect; nothing stale
  changes the live generation; every one-shot ends.
- *Filing, publication, review replies*: an external effect happens at most
  once and its record never contradicts it; what was begun ends.
- *Engine*: a stage's effect is taken up once, from the attempt that produced it.
- *Cancellation*: after a workflow is closed nothing new starts for it, and it
  does close.
- *Signet and client*: a command takes effect once, against the version its
  operator saw; a client at revision r has seen exactly the first r changes.
- *Ward*: every container is accounted for after a crash; one refresh at a time.

## 2. The project

Modules in order, with the abstract specification each implements.

| Module | Abstract specification | Properties, runs | Proofs |
|---|---|---|---|
| `Scheduler` (daemon and CLI on one database) | `ScheduleContract` | `SchedulerProperties`, `MCScheduler` | `SchedulerProofs`, `SchedulerOrderProofs`, `SchedulerFiresProofs`, `ScheduleContractProofs` |
| `FollowUpFiling` (filer, ledger, GitHub) | `FilingContract` | `FollowUpFilingProperties`, `MCFollowUpFiling` | `FollowUpFilingProofs`, `FilingContractProofs` |
| `TaskStop` (store, workers, providers, stop coordinator) | `StopContract` | `TaskStopProperties`, `MCTaskStop` | `TaskStopProofs` |
| `DecisionSync` (daemon, client, the requests between them) | none; its properties relate the two sides directly | `DecisionSyncProperties`, `MCDecisionSync` | `DecisionSyncProofs` |

Each module composes the parties whose steps interleave: two processes on one
database, a filer and GitHub, the coordinator with workers and providers, a client
and a daemon. Between the four modules the code shares only tables each writes
alone, and the closure fence, which is `TaskStop`'s state and a one-way flag
(`closed`) of `FollowUpFiling`. The modules are written to be proved about:
parameters and their named assumptions, one action per transaction, exchange or
handler, no recursive operators. What is not modelled, and why, is in section 9.

## 3. Durable scheduler

`Scheduler` models one database and two kinds of process: the daemon, which
drives every schedule, and onboarding CLIs, which drive installation polls
without holding the daemon's lock. `ScheduleIDs` has three kinds with the three
behaviours of the code: `Deadlines` (one-shot, bound to an attention item and
re-armed as it is rewritten), `Jobs` (permanent recurring) and `Polls`
(recurring, with an expiring envelope).

| State | Code |
|---|---|
| `sched`, `timer`, `occ` | `domain.Schedule`, the recurring clock, the occurrence ledger with its gaps |
| `subject` | the item or authority document the schedule watches |
| `pc`, `boot`, `scan`, `cur`, `hand`, `err` | one process: its loop, what it still arms, the snapshot of a pass, the fire being validated, handler goroutines with their in-flight mark, the error channel |
| `firstFire`, `now`, `faults`, `sessions` | history for `NoFireLost`, the clock, counters for bounds |

A pass is cut where the code cuts its transactions: `StartPass` (the scan),
`Redeliver` and `TakeDue` (choosing from the snapshot), `FireExpired` or
`CheckSubject`, `FireDead`, `ReadClock`, `ConvergeOccurrence`. Handlers decide
(`HandleDeadline`, `HandleJob`, `HandlePoll`), then `Consume` in a transaction of
their own that re-reads the live generation, then `ClearInFlight`. Between any
two of these, another handler, the other process, the operator or a crash may
act. Conclusions and re-arms settle all pending rows and the clock with them.

Left out: run and policy bindings and operating modes (static in the code's use
of schedules), the wording of resolutions, and clock steps backwards. Rows are
never deleted, so the "not found" branches cannot be taken. The proof of
`RedeliverStep` shows that the stale-generation branch of redelivery cannot be
taken either.

| Run | Instance | Question | States |
|---|---|---|---|
| `sched_deadline` | one deadline, 3 item versions, 2 faults, 3 instants | may a rewritten or concluded item be found elapsed, postponed or forgotten? | 23 thousand |
| `sched_jobs` | one job, two intervals, 1 fault, 4 instants | is every missed fire accounted for, exactly? | 100 thousand |
| `sched_polls` | one poll, daemon and CLI, 2 sessions, 1 fault | do two schedulers on one clock stay consistent, and does an abandoned poll end? | 283 thousand |
| `sched_redelivery` | one job | finding 1 | - |
| `sched_clock_error` | one poll, daemon and CLI | finding 2 | - |

Schedules of different identities share no state but the processes' passes, so
one schedule of each kind meets every interleaving on a schedule; several
schedules in one pass differ only in order, and the proof covers any number.
Two intervals are the fewest that tell a reconfigured clock from a kept one;
four instants leave room for a gap, its folding into another and a fire after
it; two faults allow a crash in the recovery from a crash. Two handlers that fail
together, of whose errors the channel keeps one, take two schedules in one process and
are beyond these bounds: `NothingLost` proves of any number of schedules that the second
fire is not lost; that it settles is checked of one schedule only.

Fairness: weak fairness of the clock, of each process's steps and of each
handler, and of restarting the daemon. The Go runtime schedules every goroutine,
the ticker keeps firing and the service manager restarts a stopped daemon.
Sessions, item changes, failures and crashes are never forced.

### Findings

1. `convergeOccurrence` says that it does not deliver an identity already
   consumed. A redelivered occurrence comes straight from the pass's snapshot, so
   a handler that consumes it between the scan and the in-flight check makes the
   pass run a second handler for it. The second consumption changes nothing; the
   handler's own work is repeated. (`sched_redelivery`, `DeliversPendingOnly`)
2. `latestNominal` treats a clock that another process moved as "stale, not
   due", but a clock that another process deleted as an error, which stops the
   scheduler. (`sched_clock_error`, `NoClockError`)

## 4. Follow-up filing

An operator approves a proposal; the filer must create its GitHub issue exactly
once or say why not. GitHub's create is not idempotent, so the filer writes a
ledger: an intent, the set of issues the App already had (with the identity that
listed them), a marker before each create, its classified answer, and one
terminal outcome.

| State | Code |
|---|---|
| `intent` | `FollowUpFilingIntent` with its attempts and issue row. All attempts but the last were rejected transiently (`StartAttempt` requires it), so their number and the last answer are enough |
| `at`, `todo`, `fails`, `failing`, `holding` | the pass: which filing is at which step with what it has read; `listingFailures`, `failingSince`, `holding` |
| `issues`, `wire` | GitHub: the issues it holds, and every request sent with what became of it |
| `registered`, `approved`, `closed` | App registrations, approvals, the closure fence |
| `elapsed`, `outside` | which waits are over; which issues precede an intent's candidate window |
| `notices` | the health items raised |

Each ledger transaction and each exchange with GitHub is one action: `OpenIntent`,
`Precheck` (preconditions, caps and the live target), `ListBefore`,
`RecordPreDispatch`, `BuildRequest` (the token is minted here), `ConfirmIdentity`,
`StartAttempt`, `Send`, `Answer`, `Refuse`; then `Settle`, `ResolveTarget`,
`ListCandidates`, `Adopt` for a create whose answer proves nothing. A filing
that `StartDrive` finds behind a closed workflow goes through `RetireClosed`.
`Commit` and `Reject` are GitHub's: a request still "sent" may be executed at any
later moment, also after the filing has ended. `Answer` sees only what the client
could (`Observable`): nothing about a request GitHub has not decided, and perhaps
nothing about one it has.

Abstractions:

- Rows are always readable. The branches that report an unreadable row lead out
  of the ledger's own transitions.
- The depth cap, a malformed cap and a target that is gone are a precondition
  refusal that may happen at any `Precheck`. The settling of an ambiguous create also
  returns an error when the run's policy carries a malformed cap
  (`follow_up_filer.go:890`). That branch is left out: the cap had to parse before the
  create was dispatched, and the policy is the one recorded for the run. The two codes
  for a refused filing (refused, capped) are one.
- Times are flags: `elapsed` tells whether the backoff or settle interval, and
  the day of the rate window, are over; `outside` is any prefix of the issues that
  exist when the intent opens, and an issue created with a daemon clock too far
  ahead may fall outside as well.
- A listing is one exchange. It shows all the App's issues of the window and any
  older ones (GitHub filters by last update).
- Only the filer creates issues as the App. This is the assumption the code's
  comments make of candidate adoption, and the properties depend on it.
- Shutdown is a crash. Closures are permanent, as in the code.
- `Legacy` instances start with an intent recorded before identities were
  (migration 0093), with or without an attempt, one per repository.

| Run | Instance | Question | States |
|---|---|---|---|
| `filing_retry` | one filing, two Apps, two attempts, two listing tries, 3 faults | is one filing exactly-once through every failure, and does it end? | 230 thousand |
| `filing_pair` | two filings of one run in one repository, two Apps, 1 fault | may they take each other's issues, exceed the run's cap or act for a closed run? | 2.2 million |
| `filing_queue` | two runs, the first filing a legacy one, one App | does a filing behind another always end, and adopt nothing after an ambiguity? | 517 thousand |

Three faults let a registration change, change back and a crash fall in one
filing: the shortest way to mix two identities unnoticed. Two filings are enough
for properties of a pair, as all filings contend for one repository and are
driven in order. Two attempts and two listing tries reach both bounds. In
`filing_queue` both caps are 1 and no faults occur, since every exchange's failure
modes are already in `filing_retry`; what the run adds is waiting. `filing_pair`
uses symmetry in the Apps, has no temporal property, and no operator distinguishes
an App.

`ImplementsContract` says that the filer with GitHub implements `FilingContract`:
outcomes are decided once; a filing recorded as filed has an issue; after a
refusal none comes into being; only an ambiguous one may get one later. It cannot
tell one issue from two, so `AtMostOneIssue` is separate.

Fairness: the filer's goroutine runs, its requests time out, a stopped daemon is
restarted, and time passes. GitHub owes nothing: a create may stay undecided
forever and `FilingEnds` still holds. Faults are bounded, so an exchange does not
fail forever; with an unbounded outage the code retries forever by design, under
a stall notice.

## 5. Stopping a task

An operator's Stop fences a task in one transaction, and the engine must then
prove that nothing of the task still runs before it says so. Work that was being
launched when the fence fell may still come up, work may have been left running by
a daemon that died, and the set of runs to stop may change while they are being
stopped. `TaskStop` has the lifecycle log and the fence, the workers that launch
work, the five kinds of provider that run it, and the coordinator that joins them.

| State | Code |
|---|---|
| `runs`, `facts`, `closures` | `task_runs`, `task_lifecycle_facts` (an ordinal is a place in the sequence), `task_workflow_closures` with the runs captured |
| `req`, `epoch` | `task_cancellations` with their acknowledgements; `server_state.sync_epoch`, counted |
| `rec` | stage attempts and review requests recorded in the store |
| `own`, `stopped` | each provider's ownership record (the seeder's journal, task journals, launch records, publication records); runs whose verification rooms are fenced |
| `proc`, `pc` | the work itself, and the worker launching it (`taskExecution`) |
| `seen`, `job` | a pass of `ReconcileTaskCancellations`, and per task its `taskStopRetry` with the running `taskStopAttempt` |

The log's transactions are `PutRun`, `StartRun`, `Restart`, `Complete`, `Abandon`,
`CloseTaskWorkflow` and `StopTask`, each with every check the store makes
(`MembershipKept` is `validateClosedWorkflowMembership`). A worker goes through
`Record`, `Begin` (register), `Claim` (`claimRunDispatch`), `Enter` and `Return`; a
provider's work through `Handoff`, `End`, `Land`, `EndEffect`, and after a crash
`EndOrphan`, `Recover`, `RefuseResume`. An attempt reads the inventory
(`StartAttempt`), asks each provider (`StopOne`, `StopFails`), waits for the
workers (`JoinWork`), asks the providers again (`EndPhase`), and is collected by a
pass (`PollAttempt`, `FinishAttempt`, `LoseAttempt`) which acknowledges (`Ack`), is
refused (`Refused`) or defers (`Deferred`, `BackoffElapses`, `DeadlinePasses`).

Abstractions:

- The cap on work in progress is left out of admissions: it is one more refusal of
  an action that may always not happen. What counts against it is kept (`WIP`).
- A repeated command is answered from its receipt and changes nothing, so it is a
  stutter. A completion is recorded once for a run.
- Cancelling the context of a worker or a call only hastens what may happen anyway.
- The remaining calls of an attempt that was superseded are dropped with it: their
  answers reach nobody, and each only ends work.
- A provider's answer is a predicate of its record (`StopStage`, `StopReview`,
  `StopOther`); how it kills a container is not modelled.
- Of the publisher's effects, the pull request stands for all.
- A seed that ends without a handoff may be left to be rerun (`End` keeps it "open"), as
  when its journal spec cannot be rebuilt yet; the rerun is `Begin` and `Enter` again.
- `Recover` is one step. The code registers the recovery, observes ward's journal and
  commits over several (`task_execution.go:39-65`, `pipeline.go:2112-2137`), and a stop
  that asks meanwhile is told that recovery is still active (`driver.go:1038`): an answer
  without proof, as `StopFails` gives at any time.
- `Episode` leaves out campaigns migrated from before starts were recorded
  (`task_workflow_closure.go:78-86`), whose earlier runs belong to the first start.

| Run | Instance | Question | States |
|---|---|---|---|
| `stop_work` | one run with a stage, a verification room and a pull request; one Stop, one restore, one fault | can a confirmation be written while anything runs, or can fenced work begin? | 1.6 million |
| `stop_history` | one task of two runs with one judgment; three facts, two Stops, one fault | do slot, closures and retries survive a task's later history? | 347 thousand |

`stop_work` has every way for work to be under way at once: seeded and handed off,
fenced room, effect that lands; each is at any step when the Stop, the crash or the
restore comes. One fault is either the crash or the failed call; that both together
do not break the safety properties is proved. `stop_history` needs three facts for
a start, its end and a new start, two requests for one that replaces another, and
one piece of work to hold the slot: a judgment, whose worker may return and whose daemon
may die while its driver runs on. `SlotHeldUntilProven` is what fails there if an attempt
takes either for its end. Reviews are in no run; of them, and of judgments beside other
work, `Quiescence` and `SlotHeld` are proved.
The runs end (`CHECK_DEADLOCK FALSE`) when the bounds on facts, requests and faults
are used up and nothing runs.

`ImplementsStopContract` says that all of it implements `StopContract`: from the
fence on a task's work only ends, and a confirmation finds none.

Fairness: the coordinator's passes, the timers of backoff and deadline, and the
goroutines of an attempt go on. No worker need return and no work need end, so `StopIsAnswered` holds of a stop that can only fail, and
`RetriedUntilProven` says that once the work is provably over the stop is confirmed.

## 6. Deciding from a client

The app shows attention items it has mirrored, and its operator decides on what it
shows. `DecisionSync` has one item, the daemon that owns it, and one client: its
heartbeat and bootstrap rounds, the validation of the card, and the submission of
decisions with their resends. The daemon may be stopped and restored to a
checkpoint; its revisions and item versions then repeat under a new epoch, and
commands it had recorded are gone, while the client still holds what it saw.

| State | Code |
|---|---|
| `srv`, `saved` | epoch, revision, item and recorded commands of the database; the checkpoint a restore brings back |
| `cl` | `InboxStore`: cursors, the row, its validated mark, freshness, the pending command slot; `DecisionModel`'s phase |
| `disk` | the cache file |
| `round` | the heartbeat or bootstrap of `SyncCoordinator.refresh` |
| `val` | `DecisionModel.validate`: who started it, its try, whether its cache generation still stands, the answer |
| `flow` | each `submit` or `retryLostResponse` under way, at its await |
| `late` | requests the client gave up on that may still reach the daemon |
| `sent`, `verdict` | what a command bound when it was sent; what the operator was told of it |
| `missed`, `faults` | commands that lost an eviction to their report (bookkeeping of the finding below); a bound |

The client runs on the main actor: everything between two awaits is one action.
`StartRound`, `Heartbeat` (`FirstSync`, `NewEpoch`, `SameEpoch`), `Bootstrap`
(`Refetch`, `Adopt`) and `FailRound` are the sync rounds; `ViewValidates`,
`Validate` (`CertifyRow`, `ReadAgain`, `NotFound`) the card; `Decide`, `Submitted`
(`Accepted`, `Conflicted`, `Refused`, `Unanswered`), `Drained`, `Refetched` a
submission; `AutoReplay`, `Retry`, `Replayed` (`Recovered`, `Rebutted`,
`Rejected`, `Stray`), `ReplayDrained` the resends; `Relaunch` the start from the
cache file. The daemon's transaction is `Submit` with its `AnswerTo`, or
`Refuses` it; `Arrive` is the same transaction for a request nobody waits for.

Abstractions:

- A round starts and the daemon reads its revision in one step, as nothing of the
  client depends on the moment between. There is one round at a time: the code
  coalesces refreshes.
- Flows differ only by place; a new one takes the first free place.
- `valid` is true of a certified card only; "pending" and "failed" are both its
  absence. A phase "superseded" is "idle": the same buttons are offered.
- Every accepted command has a report to drain; a handler that persists twice
  succeeds or fails as a whole. A failed registration leaves everything as it was,
  so it is no action.
- Any other write of the item, by a stage or another device, is `Advance`.
- Why a new command for a present item is refused (an inactive device, an unsupported
  action, its content or route, a snoozed proposal, a complete publication, stale
  evidence) is one choice, `Refuses`, made anew for each copy of a request: some of these
  grounds pass. A known command id is answered from its record before any of them.
- An outcome counts as told when its slot is released. A resend shows the recorded
  decision before it drains its report (`DecisionModel.swift:1524`), with the slot still
  held.
- Left out: snooze and discussion, which keep ledgers of their own; navigation to a
  pull request; proposal facts; the second card of an item; run lists and timelines,
  whose partial reads only advance the observed revision as a validation does; a first
  launch without a cache.

| Run | Instance | Question | States |
|---|---|---|---|
| `decide_sync` | one command, one flow, one restore, one fault | is what the operator sees and is told true of the daemon, is nothing sent forgotten, does the client catch up? | 407 thousand |
| `decide_settled` | one command, one flow, one restore | finding 3 | - |

`MaxRev` bounds revision plus epoch, so that the client's bootstrap is followed by
a write in the first epoch and by as many in the restored one as bring its revision
level with what the client last saw: the case in which revisions alone cannot tell
the histories apart. One flow is a submission with everything that becomes of
it, one after the other; a resend that overlaps a retry, or a second command sent beside
the first, takes two, and for them `AnswersTrue` and `SentRemembered` (section 7) stand
alone, which hold of any number. One fault is one lost answer, refused credential, failed
save, failed round or relaunch. The runs stop when writes and faults are used up.

What `AnswersAreTrue` promises is bound to the epoch a command was sent in. Without
that bound it would be false of any client: a command answered 404 after a restore
may be committed by a late copy once an identical item exists again.

Fairness: the refresh loop keeps calling, the daemon answers or the request times
out (a fault), and continuations run. Restores and faults are bounded, so
`CatchesUp` says that after the last of them the client shows the daemon's state and
every submission ends, or offers its retry.

### Finding

3. `submit` reads the cache generation for its refetch only after it has awaited
   the drain of the command's report (`DecisionModel.swift:981`). An eviction for a new
   epoch that lands in that await goes unnoticed: the refetch of the restored daemon
   passes, the operator is told "applied", the slot and its retry are dropped, and the
   daemon has no such command. The comment above the line promises that exactly this
   is "handled as ambiguous". The accepted revision of the dead epoch is then
   observed under the new cursors; if the restored daemon is behind it, every
   bootstrap is "overtaken" and fetched again until it catches up. `AnswersAreTrue` and
   `CatchesUp` therefore leave out commands in `missed`. (`decide_settled`,
   `AppliedIsRecorded`)

Three further observations, with no run of their own:

- A resend that is refused is taken to prove that "the original command never
  committed" (`DecisionModel.swift:1487-1488`), and the operator
  is told that it was not recorded. But some refusals pass (`signet/http.go`,
  `isCommandAuthorityRejection`, says so), and the first copy, given up on, may still
  arrive or be accepted when they have. `AnswersAreTrue` therefore claims nothing of this
  report ("unrecorded"); it does claim that a command refused at its first and only
  submission is never recorded later.

- While the cursors are empty, `adopt` installs an epoch without bumping
  `cacheGeneration`. With a second restore between an eviction and the next bootstrap,
  a request sent in the gap keeps its generation and its answer of the earlier
  epoch may be applied under the later one. This is why `MaxEpoch` is 2 and `Init` is a
  bootstrapped client: `FreshIsCurrent` and `AnswersAreTrue` are claimed of one restore
  at a time. Of more restores, each after a bootstrap, the theorems of section 7 speak.
- `store/tx.go:15-16` calls the revision "monotonic across epochs (never reset)".
  `Restore` (`store/restore.go:167-173`) brings back the archive's revision under a new
  epoch, and the client's epoch check is what makes that safe.

## 7. Proofs

`SchedulerProofs` proves `Spec => []IInv` for any sets of schedules and CLIs and
any durations and bounds, from the named assumptions `KindsDisjoint`,
`DaemonIsNotCli` and `Durations`. `PendingIsCurrent`, `ClockFollowsSchedule` and
`NeverRejected` are not inductive: whether a transaction may touch a row depends
on what its process read transactions ago. `IInv` adds how each remembered copy
relates to the current row. `Copy(sc, row, s)` says that a snapshot was of an
armed generation and is either still equal to the row, or the row has moved to a
later generation or ended. `ScanShape`, `FireShape` and `HandlerShape` state it of
passes, fires and handlers, and `DueDeadlineIsFresh` that a deadline found due
without an occurrence is left alone until it fires.

The argument has two halves. `CopySurvives`, `ScanKept`, `FireKept`,
`HandlerKept` and `FreshKept` show, once, that memory stays related to any store
that moves forward. Each action then has a lemma that it moves the store forward
and keeps the tables' own invariants; `NextIInv` collects them. The theorems
`TypeCorrect`, `PendingCurrent`, `ClockFollows` and `NoRejection` follow.

`SchedulerOrderProofs` proves five more of the scheduler's properties, for the same
constants. They depend on when a pass read the clock and on what it found pending,
which `IInv` does not keep, so `OrderInv` adds it. `PassInThePast`: a pass works at a
reading of the past and writes nothing that lies after it (`NothingEarly`).
`DaemonSeesPending`: what the daemon's pass found due has nothing pending, and what it
redelivers is all that is pending; polls are excepted because a CLI process may write
one meanwhile (`OneOutstanding`). `ElapsedIsRechecked`: a handler that would record a
deadline as elapsed rechecks its item when it commits (`ElapsedOnOpenItem`).
`FireGapIsExact`: the gap a fire is about to write is exact unless the fire is stale
(`GapsExact`); `LatestIsExact` is the arithmetic. `RowMoves` and `KeepsInstant` say
what a step may do to a schedule's row (`NeverPostponed`). Most steps start nothing:
`RowsSettle` and `PassesGoOn` say so once, `NextQuiet` shows it of every action but the
five in `Working`, and each of those has a lemma.

`SchedulerFiresProofs` proves `NoFireLost` (`NothingLost`). `FireInv` adds `ClockLeads`:
the clock stands at a nominal instant, and every occurrence of the live generation is
one it has left behind. So when a fire's write finds its clock still due, the
instant it computed is at or after the clock (`ClockReached`, for two nominal instants
are an interval apart: `NominalApart`), its occurrence is new, and
the clock moves past exactly the instants it stands for. `FireFolds` says of
a fire between its read and its write that its gap reaches back to the clock and over
everything it is about to fold away, and stays true while other processes move the
clock on. What the fire redelivers is the one row its identity could repeat
(`OneRedelivered`), and nothing but a fire folds a row (`HandlersNeverFold`).

The same module proves the scheduler's refinement of `ScheduleContract`
(`SchedulerImplements`), last because it needs all of this. `ArmsIt`, `EndsIt`,
`SettlesIt` and `OwesIt` say what a change of one schedule's row and debt must be to be
the contract's step; `Replaced`, `OneSettled` and `OneOwed` say the same of rows of the
ledger; a lemma per writing action shows that it is one of those changes. Two
need more than `IInv`. A new watch starts a generation that owes nothing because no row is
pending without an armed schedule. A fire's write is a new debt, never a second one for an
identity already settled, because the clock leads every occurrence of its generation.

Three results there follow from the same invariants and say what the first two
findings do not break. `OutcomesFinal`: an outcome is never changed or deleted, so a
second delivery repeats a handler's work and never its record. `ClockErrorsRace`: the
missing-clock error is reported of a poll alone, and of one concluded or replaced since
the pass read it, so it never means a clock was lost. It needs `JobsNeverEnd`, which
also gives `JobsStayArmed`: nothing ever concludes a permanent job.

`FollowUpFilingProofs` proves `Spec => []IInv` and `Spec => ImplementsContract` for
any sets of instances, repositories, runs and Apps, any finite set of legacy intents
with at most one per repository, and any bounds. The safety properties are not
inductive: they depend on which request can still be executed and on what the
pass has read. `IInv` adds five things. `RequestShape`: a request before the last
attempt, or the last one when its rejection is recorded, was rejected by GitHub;
so only the last attempt can be executed, which gives `AtMostOneIssue` and
`RefusedCreatedNothing`. `IssueShape`: each issue comes of one committed request.
`Numbering`: an issue made now has a number no candidate has. `SeenShape`: the
App's older issues are in the pre-dispatch set or precede the window. `PassShape`:
what the step under way relies on is still true, above all that an App's identity
was held between listing and dispatch. The key lemma is `CandidateIsOwn`: were the
single candidate made by another filing, that filing would still hold the
repository, be ambiguous, have the issue in the ledger, or have been refused, and
each is excluded. A lemma per action shows that the ledger's parts are kept,
another that the pass's are; `DriveEffect` and `CommitMakes` then give the action
properties and the step simulation. The theorems assume of GitHub only what
`Commit`, `Reject` and `Observable` say, and that nobody else creates issues as the
App.

Two more invariants rest on `IInv`. `EndInv` gives `EndsAreExplained`: `Explains` says
that no step of a filing withdraws a notice or gives an outcome without one, and that
the one silent refusal, `RetireClosed`, is entered only behind a closed workflow; the
sweep of `EndPass` withdraws transient notices alone. `CapInv` gives `CapsAreKept`. A
cap is read in one transaction and used in a later one, so `CapsHold` says nothing of
the filing in between. `CapInv` does: an outstanding filing is under the day's cap
still, although it was read when the intent opened, perhaps days and retries ago,
because nobody else of its repository can have claimed since (`OneOutstanding`); and in
the steps from `list` to `mark` the run is under its cap still, because it was read in
this very turn and one turn runs at a time. `Counts` then splits the steps of a filing:
one claims a create, under both caps (`LaunchFits`), every other adds nothing to any
count (`CountsFall`). Legacy intents never claim again, which is why a run may exceed
its cap by them and by nothing else.

`ScheduleContractProofs` and `FilingContractProofs` prove what the two contracts
entail for any set of identities: in the first, that only a live armed generation
owes (`OwedIsLive`) and that nothing settled is owed again (`SettledForGood`); in
the second, that an outcome agrees with GitHub from the moment it is recorded
(`Truthful`) and is final (`Permanent`). Both carry over to the programs by the
proved refinements.

`TaskStopProofs` proves `Spec => []IInv` and `Spec => ImplementsStopContract` for any
tasks, runs, campaigns and invocations of any kinds and any bounds, from
`Ownership` and `StopBounds`. Quiescence is not inductive: it depends on what an
attempt learnt before it was entitled to confirm. `WorkInv` says what an ownership
record implies of the work it stands for: nothing runs without a record, a closed
record means that nothing runs but a landing effect, a worker that has not entered
has launched nothing. `AttemptInv` says what a running attempt has established, as
long as it has met no error: its inventory holds every recorded invocation of its
runs, after the join no worker is left, and in the second pass every invocation
already asked about is over. With the fence (nothing registers any more) each
survives every other actor's steps. `SlotInv` says that the log of a confirmed task has
released its slot by itself, so that no later request can take it again, and
`ClosuresStayReadable` is inductive with the store's membership check. `SlotHeld` is
about steps: any of them adds at most one run and one fact to a task (`LogSteps`), a
fact either of the task's own lifecycle or with a confirmation, which finds the work
over. Without a fact the slot is held unless the step moved a completion into the
current episode, and an added run cannot, since completions are of the task's own
runs (`CompletedInv`).

Two more results of that module hold across any number of restarts. `LogsGrow`: runs,
facts and requests are only added to, and an answer only improves (`RequestSteps` says
what a step may do to a request). `ConfirmedProvable`: where the ownership journals do
not reach, no stop with runs to account for is confirmed. An attempt there starts with
an error, which the invariant `AttemptsProvable` keeps to its end, and a restore in the
middle loses the attempt with the process.

`DecisionSyncProofs` proves `TypeCorrect` and `SentRemembered` for any commands, flows,
bodies and bounds, hence for any number of restores, crashes and failed saves, from
`CommandsAssumption` and `SyncBounds`. `IInv` is the two together. `Held` types what
the client holds, and a lemma for each of its updates shows that it preserves
`Held` and what it does to the slot. `Settling` is the argument: a handler either leaves
the slot and every verdict, or tells the operator about one command and releases the
slot if it was that command's; `Handled` shows that such a step forgets nothing,
whether its save reached the file or not. Only `Decide` (which needs an empty slot, so
everything earlier has its verdict, and saves before it sends) and `Relaunch` (which
takes the slot from the file) are arguments of their own.

What the client shows and tells it of the daemon's history needs two more invariants.
`MirrorInv` compares everything the client holds and every answer on its way with the
daemon's own item: what is of the present epoch is the item or an earlier version of
it, and what is scoped to a revision is the item as of that revision (`FreshCurrent`).
`AnswersInv` says what an answer proves and for how long: a command answered as accepted
is recorded while the epoch lasts; one answered with a conflict is not and is `Spent`, it
can never be accepted again, so a copy of its request still under way does nothing; and
a first send is the only trace of its command until it is answered, so a refusal told
then stays true, while a refusal of a resend proves nothing (`AnswersTrue`). Most steps
only move a submission along; `Quiet` names what such a step leaves alone, and one lemma
serves them all.

Both invariants fail when a second restore falls between an eviction and the bootstrap
after it (section 6). The theorems therefore come in two forms: with one restore
(`MaxEpoch <= 2`, a bound on what is claimed and not one the code enforces), and for
any number of restores each of which finds the client with cursors (`RestoresSeen`),
which excludes that gap and nothing else.

Model-checked only: the eight liveness properties, which need fairness and ENABLED,
which the prover does not handle. Every safety property, action property and
refinement that a passing run checks is also a theorem. Proved and in no run are the
types of `FollowUpFiling` and `DecisionSync`, `OutcomesAreFinal`, `JobsArmedForGood`,
`ClockErrorsAreRaces`, `LogsOnlyGrow` and `ConfirmedIsProvable`.

## 8. Every property can fail

Each module keeps, beside the operators of the code, variants marked `fault`: a
guard dropped, a reset forgotten, an order swapped, as a plausible change to that
code would. `PROJECT.json` pairs every checked property with a variant that
breaks it in the run where it is checked.

## 9. Not modelled

- *The engine's stages, review loop, re-entry and rebuild.* They are sequential
  over some forty kinds of stage record, each derived from artifacts of the last; a
  module faithful to them would be their transcription. What other actors race with,
  a fence against work under way, is in `TaskStop`.
- *Publication and review replies.* Their create-once protocol is the filer's, over
  git objects and remote refs. The pull request as an effect under way is in
  `TaskStop`.
- *Ward, exec drivers, Codex credentials.* Container operations whose outcomes an
  external runtime defines. What they prove to a stop is in `TaskStop`.
- *Devices and pairing, launch reservations.* Single transactions over rows of their
  own, which no interleaving splits. *Deliveries, discussion and dispatch*: sequential
  workers.
- *Tokens, keys and the janitor; backup, schema migrations.* File, keychain and
  cryptography input and output; a restore's effect on a client is in `DecisionSync`.
- *Imports and verification of agent output, exports, image builds, inference
  clients, observation, text utilities, the user interface, the API contract.*
  Sequential transformations of data, input and output, or presentation.

SQLite's atomicity, one daemon per database (the lock) and the correctness of the
container runtime are assumed.

Hazards known and covered by no property: an unreadable ledger row fails every
count in its repository until repaired (`follow_up_filer.go:549`); the number of
failed listings is kept in memory, so a daemon that restarts faster than it fails never
reaches the limit (`follow_up_filer.go:908`); and a seeding stage that outlives its
daemon is proved over by the record of the seeder that took it over, whatever
became of the orphaned process.
