# AutoForge in TLA+

AutoForge runs batches of test cases on a fleet of execution machines. A *batch*
holds *runs* (one case each), a run is tried by *attempts*, an attempt is
*assigned* to a machine, whose *agent* claims it under a *lease*, renews the
lease, and reports a result. Failed runs are tried again, at once or round by
round; between two rounds Jenkins jobs may restore the environment. The program
comes in two editions: **Lite**, one process on SQLite with a queue in a table,
and **Full**, several processes on PostgreSQL and NATS JetStream.

This directory holds TLA+ models of the parts in which several actors meet: the
execution of a batch in the databases of both editions, the two job queues, the
scheduling passes, the recovery between rounds, and the agent that runs an attempt;
the model-checking runs for them, and proofs. All names are those of the code where TLA+ allows it.
Paths are relative to the repository.

## 1. The system

### Components

| Component | Code | State | Operations |
|---|---|---|---|
| Execution control | `packages/db/src/sqlite-execution-control.ts`, `sqlite-run-batch.ts`, `packages/domain/src/execution.ts`, `attempt-result.ts` | rows of runs, attempts, assignments, leases, receipts, batches | create, reserve, claim, renew, declare artifacts, complete, cancel, pause, resume, terminate, recover expired |
| Round recovery | `packages/application/src/run-round-recovery.ts`, `packages/db/src/sqlite-round-recovery.ts` | one leased row per Jenkins step of a batch | claim due, trigger, poll, wait, release the round, retry, fail |
| Job queue and workers | `packages/queue/src/sqlite-job-queue.ts`, `packages/application/src/run-job-worker.ts`, `transient-recovery.ts` | one leased row per job; handlers in flight | publish, claim, renew, acknowledge, reject, recover, redrive; restart of the loop |
| Scheduling | `packages/application/src/schedule-run-batches.ts`, `coalesced-operation.ts`, `packages/domain/src/scheduler.ts` | passes in flight per batch, dynamic concurrency of a round | schedule a batch, schedule for a runner |
| Claim and completion services | `packages/application/src/control-executions.ts` | one recovery in flight, one scheduling in flight per runner | claim = recover, schedule, claim |
| Execution control, Full | `packages/db/src/postgres-execution-control.ts`, `postgres-run-batch.ts`, `postgres-round-recovery.ts` | as Lite | as Lite, in transactions that overlap: row locks, and a settlement of the batch after the commit of a report |
| Queue, Full | `packages/queue/src/jetstream.ts`, `postgres-outbox-relay.ts` | outbox rows, stream, deliveries | relay, claim, acknowledge, reject, dead-letter, redrive |
| Attempt logs | `packages/db/src/attempt-log-store.ts` | chunks and watermarks per stream | append, acknowledge, read |
| Runner agent | `apps/runner-agent/internal/control` (Go) | attempt files, log and artifact spools | claim, run, upload, report, reconcile after a restart |
| Worker pool | `apps/web/server/worker-pool.ts` | lanes with pending requests | dispatch, time out, restart a lane |
| Webhooks, AI analysis, DDT and JAR import, version copy | `packages/application/src` | rows and background jobs | one job handler each |
| Administration: identity, catalogue, suites, projects, operations | `packages/application/src` | rows with versions | create, update, delete |
| Pages, Jenkins plugins, TestNG discovery, adapters, deployment | `apps/web/src`, `integrations`, `packages/testng-discovery`, `adapters`, `deploy` | none of their own | presentation and parsing |

### Interactions

* Agents call the HTTP routes of the control plane: a claim first runs the
  recovery scan (at most once per interval), then schedules, then claims
  (`control-executions.ts`). They renew, send logs, declare artifacts and report.
* The scheduler reads a snapshot, decides, and reserves in a transaction that
  checks everything again (`reserveAssignments`).
* The end of an attempt aggregates the batch (`updateBatchStatus`), which may
  close it, advance the round, or hand over to the round recovery by making its
  rows `pending`.
* The web process runs three loops beside the requests: the round recovery every
  5 s, the scan of terminating batches every 5 s (`services.ts:1050-1064`), and
  one job worker per class of work (`services.ts:895-950`).
* Creating a batch, importing, copying and analysing insert rows of the queue in
  their own transactions (e.g. `sqlite-run-batch.ts:458`); the workers handle them.
* A step that has waited long enough releases the round, in the same tables the
  execution control writes, and then calls the scheduler.

### What is hard

Every request is a transaction, and any number of them interleave: the agent's
report, the user's cancellation or termination, the recovery scan, the scheduler.
Leases separate what may still speak for a run from what may not, and a lease can
run out between any two requests. The recovery worker and the job worker go on
with what they once read while the row moves on, and identify themselves by a
name only. Processes end between a call to the outside and the write that
records it. Batches must close, although agents, workers and processes disappear.
`PROJECT.json` lists these hazards one by one with the line where each bites and
the properties that cover it.

What makes each component correct:

* execution control: one attempt speaks for a run; final states stay; budgets
  and concurrency are kept; rounds do not overlap; a cancellation or termination
  that was accepted wins; the batch closes exactly when its runs are over;
* round recovery: a round opens once, after all of its steps; failing or
  terminating ends the steps; Jenkins is not asked twice without need; a held
  batch goes on or ends;
* job queue: at least once, at most `maximum_deliveries` times, nothing lost,
  nothing completed that no handler completed, one handler at a time while
  nothing goes wrong;
* scheduling: no lost request; the concurrency moves forward through the rules, one change
  per round, whatever snapshots are stale;
* Full settlement: the last of several concurrent completions closes the batch, and
  never over work that is not finished;
* Full queue: the same promise as the Lite queue, whatever is published or delivered twice;
* logs: the watermark never passes a chunk that is not stored, and the agent keeps what
  is not;
* agent: one verdict per attempt, with its logs, whatever restarts come in between; no
  process left behind; it claims again.

## 2. Modules

| Module | Role |
|---|---|
| `ExecutionControl` | the tables of one batch and every transaction on them |
| `MCExecutionControl` | its constants for TLC |
| `ExecutionControlProofs` | its inductive invariant, the analysis of its steps, and nine theorems |
| `ControlStepProofs` | its action properties and the properties that count, proved |
| `RoundRecovery` | extends `ExecutionControl` by the recovery workers and Jenkins |
| `MCRoundRecovery` | its constants for TLC |
| `RoundRecoveryProofs` | the rounds under the recovery workers, the gate, the endings and the rebuilds, proved |
| `JobDelivery` | the abstract promise of a queue |
| `JobQueue` | the SQLite queue and its workers, shown to implement `JobDelivery` |
| `MCJobQueue` | its constants for TLC |
| `JobQueueProofs` | the refinement, the one-handler property and the count of restarts, proved |
| `PostgresControl` | extends `ExecutionControl`: the same decisions in the overlapping transactions of PostgreSQL |
| `MCPostgresControl` | its constants for TLC |
| `PostgresControlProofs` | its two inductive invariants, its safety properties, and the properties of states and of steps that it keeps from `ExecutionControl`, proved |
| `Scheduling` | the scheduling passes of one batch: merging of requests, concurrency rules of the rounds |
| `MCScheduling` | its constants for TLC |
| `SchedulingProofs` | its inductive invariants and its two safety properties, proved |
| `JetStreamQueue` | the outbox, its relays, the stream and the workers, shown to implement `JobDelivery` |
| `JetStreamQueueProofs` | its inductive invariants, the refinement and its safety property, proved |
| `RunnerAgent` | one attempt on one agent: disk, process, logs, report, restarts |
| `RunnerAgentProofs` | its inductive invariant and its four safety properties, proved |

Inside a module, an operator whose name describes a mistake (`DueDespiteLease`,
`TrimmedOneMore`) and which stands right before the definition it resembles is a
faulty variant of it; no specification uses these, the properties have been tried
against them.

### ExecutionControl

The one variable `db` is the committed state of the database, and an action is a
transaction: `retrySqliteWriteTransaction` runs each repository method under
`BEGIN IMMEDIATE`, alone. Functions from a database to a database
(`TerminateWaitingRuns`, `AdvanceRoundIfIdle`, `UpdateBatchStatus`, `Conclude`) are
the private methods that several transactions call, composed in the order of the
code.

* `db.attempt[<<r, n>>]` joins the rows of `run_attempts`, `assignments`,
  `assignment_leases` and `attempt_completion_receipts` of attempt n of run r: an
  attempt has one assignment and an assignment at most one lease.
* A timestamp that is only compared with the present is a flag: `queueDue`, and
  the set `due` of the attempt's deadlines that have passed. `ReachDeadline` and
  `ReachQueueDeadline` are time. Renewing a lease that holds keeps `lease` out of
  `due`, and time may still put it there: that is the agent that stops renewing,
  and also `deregisterRunner`, which sets `expires_at` of valid leases to now.
* Result codes are the four classes that the retry decision and the verdict tell
  apart; `CodeClasses` says which.
* Machines, tokens and versions are left out. A caller with a wrong token or
  version changes nothing; a reservation picks any set of runs the transaction
  would accept, which covers every decision of the scheduler and every capacity.
* `recoverExpired` handles up to 100 findings in one transaction. In the model each
  finding is a step of its own. The code aggregates the batch after each finding
  too, so the intermediate states are those of a scan with limit one; other
  requests may come in between, which only adds behaviours.
* A repeated report, and a repeated claim with its request id, change nothing and
  are not actions.

### RoundRecovery

Workers are the loops of web processes (`services.ts:1050`); during a restart, or on
a shared database, two of them exist, and their lease-owner names are
made of process ids, which repeat in containers, so `Name` may give two
workers one name. `task[w][p]` is where worker w is with step p since it claimed it;
each place where the service awaits Jenkins or the database is a separate step.
Every write is the conditional UPDATE of the repository: it succeeds if the row has
the worker's name and one of the statuses that call expects (`Expected`), and never
looks at the expiry of the lease or at the batch. `Throws` is a database error before
the commit, `Recorded` an error of the event that is written after it, `Crash` the
end of the process; all three are counted by `disturbances`. `ErrorPath` follows the
catch blocks. `ControlStep` is any transaction of `ExecutionControl`, with what it
does to the leases.

What the code does here and a reader may not expect:

* `completeWaitingStep` does not look at the batch: if all runs were cancelled one by
  one while the last step waits, it still advances `current_round` of the closed batch.
* The steps of a batch closed by single cancellations stay in their active status for
  ever; they are never claimed again, since `dueRows` asks for an open batch.
* `pollFailureCount < 10` is checked before counting, so the eleventh consecutive
  failure ends the step.
* An error of the event after a successful update leads to the catch block, whose
  write then finds the step given back; only with shared names could it hit.

### PostgresControl

The tables, and the functions from a database to a database, are those of
`ExecutionControl`. New is what a transaction has written and not committed:
`writing[r]` the rows of run r in the hands of an open report (`"report"`), `"expiry"` or
`"cancel"`lation, `settling` the transaction that holds the lock of
the batch row, from `LockBatch` over `AggregateBatch` to `CommitSettlement`, which read
a snapshot each (`View` is what it sees: what is committed and what it wrote itself).
`answer[a]` follows the report of an attempt beyond its first commit:

    OpenReport  CommitReport  LookForWorkInFlight  SettleAfterReport  Aggregate  Commit
    rows        rows visible  no lock; may end here  batch lock ...

`FailRows`, `FailAfterCommit` and `FailScan` lose a connection or a process at any
point; after a report has committed only the agent's repetition (`RepeatReport`) looks
at the batch again. `overlapped` remembers whether a report ever found in flight only
runs that the transaction holding the batch has already decided about.

The code locks the rows of one run one by one, and not all transactions the same ones. Two
on one run mostly wait for each other or deadlock (PostgreSQL ends one: `BreakDeadlock`,
`Fail*`); in the model they wait for all rows of the run (`RowsFree`). Two pairs neither
wait nor deadlock in the code, and do not wait here:

* An expiry of an active lease holds that lease alone (`:991`) and reads the run's flag
  without a lock (`:1759`, `:2030-2044`); the leased path of `cancelRun` (`:1876-1885`) writes
  the run and the assignment and never the lease. `AskToCancel` therefore runs behind an
  open expiry, and the expiry, which sets other columns, keeps the flag (`WithRowsOf`).
* `cancelRun` (`:1887-1896`) and `terminateWaitingRuns` (`:1935-1953`) judge a lease in one
  statement and revoke it in a later one by its status. A renewal whose clock was read before
  the lease ran out commits in between (`RenewInTime`).

Each breaks a property that holds on SQLite (section 6). A cancellation of leased work that
commits between a fence and its commit, after such a renewal, is left out: it sets the flag of a run that the fence has
cancelled already.

Simplifications: a termination is one step, although its statements have a snapshot each (a
report that commits in between is one more case of the overlap that
`finding_lost_settlement` shows); claim, renewal otherwise, reservation, pause, resume and a
queue timeout lock what they change before they read it and are one step as well; each
expiry of a scan is a transaction of its own; the several statements of
`advanceRoundIfIdle` read one snapshot. `RecoverySteps` is empty in the runs.

### RunnerAgent

`disk` is the state file of the attempt, `spool` the chunks on disk, `process` the
process group, `agent.pc` where the agent is, `server` and `logs` what the control plane
tells of the attempt, the lease, the receipt and the stored chunks. The order of the
actions is that of `executeAttempt`, `runTestNG` and `reconcilePage`, each write to the
disk a step. `RenewLease` and `LoseLease` are the renewal beside it, `PersistChunk` the
asynchronous sink, `UploadLogs` the streaming beside the process and both flushes. `mail`
holds every report ever sent: `HandleReport` may take each of them late and again.
`Crash` ends the agent between any two steps, `SaveFails` and `PersistFails` are writes the
disk refuses. A process waits at a gate until its id is saved (`ReleaseProcess`):
`Orphaned` is what becomes of it when the agent ends before.

Simplifications: one attempt, one slot, one stream of log; an upload is handled in one
step, its answer may be lost; a network that is dead during reconciliation is a `Crash`
(the start fails and is repeated); chunks the operating system had not written yet,
drain and shutdown, and workspaces are left out. The decisions are those of the SQLite
repository, the log store's those of `attempt-log-store.ts`.

### Scheduling

A scheduler is a process or a lane of the worker pool with a map of merged operations of
its own (`schedulingInFlight`). `entry[s]` is what its map holds for the batch: nothing, a
running operation and whether a further pass was asked for (`requestAnotherPass`), or an
operation that is over and not removed yet. `pass[s]` is what the pass has read and where
it is: `ReadSnapshot`, then `ActivateRetryConcurrency` if the decision was a transition, then
`RecordRoundConcurrency`, each its own read or transaction, with passes of the other
schedulers and new rounds in between. A call that waits for a pass is answered with the
last pass of its operation (`PassEnds`), or rejected with any that fails (`PassFails`).
`seen` and `late` are history. A rule is its place in the list; which rules match depends on
rates and counts of runs, so any may, in their round (`matching`).

Simplifications: the batch of `ExecutionControl` is its round alone (`AdvanceRound`), and a
reservation is not seen; a change is something committed once before its maker asks for a
pass; the failure of an operation's process is its failure.

### JobQueue, JetStreamQueue and JobDelivery

`row[j]` is the row of the job with deduplication key j, `inFlight` the set of running
handlers of all workers, `loop[w]` where the loop of worker w is, `failed[w]` its
`inFlightFailure`, `failures[w]` the consecutive failures that
`runWithTransientRecovery` counts. The row knows the name of the worker, not the
delivery: `Owned` is all that `acknowledge` and `reject` ask, so a handler that lost
its lease may settle the delivery of its successor. `LeaseLapses` under a running
handler is a stall and counts as a disturbance, as do `ClaimFails`,
`AcknowledgeFails`, `RejectFails`, `ShutDown` and `Crash`.

`JobDelivery` says what a queue owes its users: a job is delivered at most
`MaximumDeliveries` times until somebody redrives it, done only after a handler
succeeded with it, dead only after its last delivery, and done for good. It has one
variable and knows nothing of leases, workers or rows. The refinement mapping is
`Promised`. One claim moves several jobs, so a step of `JobDelivery` lets
each job make one move.

Simplifications: handlers end some day (the worker has no timeout for them); the
claims of the background class, which pause while foreground work has priority,
are not paused; settled rows are not deleted after their retention (after that their
key may be used again); recovery takes all expired leases rather than the first 1,000;
a new process has the name of the old one, the worst case.
`recoverExpired` of the port is called by nobody but tests; recovery happens in claims.

`JetStreamQueue` is the same service in the Full edition. `outbox[j]` is the row the
creating transaction wrote, `relay[k]` the rows relay k has claimed and not left,
`stream[i]` the message with stream sequence i, `window` the message ids stored so far,
`inFlight` the deliveries in workers' hands. The stream is external and does what the code
relies on: a known message id is not stored again, an unsettled message comes again after
the acknowledgement wait or the pause of a nak, until `MaximumDeliveries`. A relay whose
batch outlives its lease goes on publishing it. A redriven job is stored with an
Available-At after its creation, and a worker that fetches it stores it again without
(`Move`) before it settles it; a last rejection stores the dead letter first and settles
then (`Reject`, `Acknowledge`). `Promised` reads the abstract state of a job off its latest
message. Left out: a repetition after the 24 h of the duplicate window, stalls of a worker
that runs (it renews in time), limits of concurrency, and the move of background jobs
that an old version left in the mixed queue, which has the shape of `Move`.

The promise is kept, but not all of the Lite queue's: a worker that ends during the last
delivery leaves a message that is neither delivered again nor a dead letter, as
`recoverExpired` does nothing here (`UsedUp`).

## 3. Runs

| Run | Instance | What it shows |
|---|---|---|
| `control_rounds` | 2 runs, 3 attempts, rounds, 1 retry | one attempt speaks for a run, receipts, closing, termination, cancellation, round barrier, final states, pause, valid leases |
| `control_budget` | 1 run, 5 attempts, immediate retry, every class of result, budgets 1 and 2 | both budgets, and the verdict of the batch |
| `control_closes` | 2 runs, 1 slot, silent agents, `FairSpec` | a batch not left paused closes; a terminated batch closes even without runners; the slot is given once |
| `recovery_gate` | 2 workers with one name, 2 steps, leases outlived | the gate between rounds; what ends a batch ends its steps for good |
| `recovery_settles` | 2 workers with names of their own, 1 disturbance, `FairRecovery` | one rebuild per step and disturbance, none after success, and a held batch goes on or closes |
| `queue_delivery` | 2 jobs, 2 workers of one class, 1 disturbance, 1 redrive, `FairSpec` | the rows implement `JobDelivery`; one handler unless disturbed, restarts; every job is completed or a dead letter |
| `pg_settles` | 2 runs, 1 attempt each, rounds, 1 failure, `FairPgSpec` | the batch closes over finished work only; a report that finds nothing in flight leaves it settled, also if the settlement fails; an end that is committed stands; a terminated batch closes (279,003 states) |
| `stream_delivery` | 1 job, 2 relays, 1 worker, 2 deliveries, 2 disturbances, 1 redrive, `FairSpec` | one message per job, the promise of `JobDelivery`, no row left behind |
| `agent_attempt` | 3 chunks, 2 faults, other runners, `FairSpec` | logs are kept, results come with their logs, one verdict, no stray process, the agent claims again |
| `scheduling_passes` | 2 schedulers, 1 change, 3 rules, 2 rounds, 2 failures, `FairSpec` | an answered change was read, every change is in the end, the concurrency moves forward and is recorded |
| `finding_lost_settlement`, `finding_stuck_agent` | small instances | two disagreements, section 6 |

A type invariant is the first conjunct of a module's first invariant (`TypeOK`,
`ReleaseGate`, `ClosedOnlyWhenSettled`, `OneMessagePerJob`, `LogsAreKept`); `JobQueue`'s is
part of the proved `QueueInv`.

### Bounds and why they are enough

* *Two runs.* The rules relate a run to its own attempts, and to the batch through
  "some run is ..." and "all runs are ...". Two runs give each of these both
  answers: one running while the other waits, is held, or is over.
* *Attempts 1 to 3, or 5.* They cover retry, retry after a machine failure, and the
  exhaustion of both budgets: `1 + RetryLimit + MaxRunnerReschedules` attempts are
  all a run can have (`RetryBudget`), so the room is never what stops a run in
  `control_budget`, which has 5 numbers for 4 attempts. The proofs cover any number.
* *Both retry modes.* `control_rounds` and `control_closes` retry by rounds,
  `control_budget` at once; the proofs leave the mode open.
* *Two steps and two workers.* Races at the barrier and at a row need two.
* *One or two disturbances.* A fault of the sort modelled meets each state once; two
  (`stream_delivery`, `agent_attempt`) let a second one hit the recovery from the first: a
  crash during reconciliation, a relay that fails on a row another has taken. The proofs
  have no such bound.
* *One job* in `stream_delivery`: messages of different jobs meet only in a relay's batch.
* *One attempt number* in `pg_settles`, where a run that is to be retried stays queued, or
  held for the next round: what settling does with it is the question. A second attempt
  runs through the same steps; `finding_lost_settlement` has two. Leases, claims and queue
  deadlines lapse there, the execution window does not, so that a cancellation behind an open expiry is
  left to `finding_cancelled_retried.cfg` and to the proofs.
* *`AttemptNumbers = {1}`* in `recovery_settles`: its question ends when the next round
  opens; `recovery_gate` goes on into it.
* *Three rules*, two of them for the second round, in `scheduling_passes`: a choice within a
  round, also a different one by each scheduler, and a succession over two rounds. One change
  is enough, as changes do not touch each other; runners' claims are the other requests.
* *Three chunks* let the spool hold stored chunks, chunks whose answer was lost, and
  chunks not sent, at once.
* *`MaximumDeliveries = 2`, `MaxFailures = 2`* in place of 8 and 60: first, last, and the
  difference between them.
* *`MaxPollFailures = 0` or 1* in place of 10; *`MaxRebuilds = 3`* counts further than the
  property allows, and *0* does not count where it is not asked.
* `RunSymmetry` and `Interchangeable` are used in safety runs only; the elements they
  exchange appear nowhere in the configurations. `control_rounds`
  checks action properties under symmetry, which is sound for formulas of single steps
  that treat all runs alike.
* Deadlock is not checked for batches, which end; the queue never stops.

### Fairness

* `FairSpec` of `ExecutionControl` asks for one thing that does not depend on any
  runner: the web process scans the terminating batches every 5 s (`services.ts:1059`).
  What else a property needs it names itself, as an antecedent:
  * `BatchCloses` assumes `RunnersPoll`: every window (queue, claim, execution, upload)
    runs out, and the recovery scan comes again. Any claim of any agent triggers the scan
    (`control-executions.ts:87`), so this is that some agent of the fleet still polls.
    Nothing is assumed of the agent of the attempt, and not that leases lapse: an agent
    that renews for ever is stopped by the execution window. `control_closes` leaves out
    reports altogether (`Results = {}`), the worst case.
  * `TerminationCompletes` assumes `LeasesLapse` only, that no agent renews any more; no
    runner need poll. Without a termination such a batch does stay open, which is why
    the property is about terminated batches.
* `FairRecovery`: loops run, leases and waits run out, tasks end (requests have a
  timeout of 10 s), and a Jenkins build that is looked at again and again is some time
  found decided (strong fairness, as each look that finds it undecided gives the step
  back). `Stalls` is off: a worker that outlives every lease may keep two workers
  taking the step from each other.
* `FairPgSpec`: open transactions end, locks are granted in turn (strong fairness of who
  waits for the batch), an agent without an answer repeats its report, and the scan of
  terminating batches comes every 5 s.
* `FairSpec` of `JetStreamQueue`: relays and workers run, pauses and leases of relays that
  ended run out, the stream offers what is due. Crashes are not fair.
* `FairSpec` of `RunnerAgent`: the agent takes its next step, a process ends at its time
  limit, uploads get through while they are authorized, systemd starts the agent again
  (`Start`), a lease nobody renews lapses, and a lapsed attempt is recovered as long as
  some runner claims: `OtherRunners`, or this agent once it claims. Nothing is assumed of
  renewals that go on, of users, or of answers to reports.
* `FairSpec` of `Scheduling`: a pass that has begun goes on, an operation that is over leaves
  the map, and some runner claims time and again, which asks for a pass each time
  (`control-executions.ts:89`). Makers of changes need not ask, passes may fail.
* `FairSpec` of `JobQueue`: time passes, loops go on, handlers end, a process that has to
  end is started again. A loop that failed 60 times in a row gives up, in the code and in
  the property.

## 4. Proofs

`ExecutionControlProofs` proves, for any set of runs, attempt numbers, results, budgets,
concurrency and recovery steps that `ControlAssumption` allows:

| Theorem | Property |
|---|---|
| `AlwaysInv` | the inductive invariant `Inv(db)` |
| `TypeCorrect` | `TypeOK` |
| `LeasesSafe` | `LeaseCoversRunningRun` |
| `RunsAndAttemptsAgree` | `RunMatchesAttempts` |
| `ReceiptsTrue` | `ReceiptMatchesAttempt` |
| `ClosesWhenSettled` | `ClosedIffSettled` |
| `TerminationSafe` | `TerminationLeavesClaimedWork` |
| `CancellationSafe` | `CancellationDecides` |
| `RoundsInOrder` | `RoundBarrier` |

None of the properties is inductive alone. That a lease belongs to a running run, for
instance, needs that a run in flight has its attempt in flight and no other, which
needs that the columns of an attempt fit together (`RowShape`), which needs the round
columns where a transaction ends in the aggregation of the batch.
`Consistent` collects what holds *inside* a transaction as well, after each shared
step; `Inv` adds what only holds between transactions: the batch is closed exactly
when all runs are over, and a terminating batch has nothing but claimed work. So the
proof follows the code: a lemma for each shared function says what it preserves
(`TerminateWaitingRunsConsistent`, `ReleaseRoundConsistent`, ...),
`UpdateBatchStatusInv` says that aggregating turns `Consistent` into `Inv`,
`ConcludeInv` covers all ways an attempt ends, and one lemma per action puts them
together. `CancellationDecides` is no part of `Consistent`, which also holds in the Full
edition, where it is false: `CancellationSafe` goes by the moves of a run below
(`RunStep`, which keep a run `Honoured`), as long as transactions are serial.

`ControlStepProofs` goes on from there, under the same assumptions:

| Theorem | Property |
|---|---|
| `VerdictTrue` | `VerdictMatchesRuns` |
| `FirstWriteStands` | `FinalStaysFinal` |
| `PauseIsRespected` | `PausedIsQuiet` |
| `ValidLeasesKept` | `ValidLeaseIsKept` |
| `ConcurrencySafe` | `ConcurrencyRespected` |
| `BudgetsHold` | `RetryBudget` |

An invariant about one state says little of what a step may do. Along with `Inv`,
`NextInv` therefore proves that every transaction either moves each attempt, each run and
the batch by one of the moves of `AttemptStep`, `RunStep` and `BatchStep` (`Moves`), or
reserves runs (`Reserves`), however many shared functions it went through. The
properties of this module are about those moves. `Numbered` says that a run has exactly the
attempts up to its current number, so that the attempt a reservation makes is a new one.
`ConcurrencySafe` compares cardinalities: moves only free slots, a reservation takes as many
as it has checked. It speaks of one concurrency, that of the batch's policy, whatever its
value. The code asks for `retryConcurrencyState?.concurrency ?? policy?.concurrency`
(`sqlite-run-batch.ts:1628`): a batch whose rules raise or lower that figure while attempts
are under way, and one without any, are not covered. A budget is a property of all
attempts a run ever had: `BudgetOf` counts the attempts that failed and the one in flight
against what `RetryAllowed` last looked at, since a run that is queued again, reserved and failed passes through three transactions.

`RoundRecoveryProofs` proves, for any finite set of workers, with names of their own or
shared, for any steps, limits and disturbances that `ControlAssumption` and
`RecoveryAssumption` allow:

| Theorem | Property |
|---|---|
| `AlwaysRecoveryInv` | the inductive invariant `RecoveryInv` |
| `RoundsGated` | `ReleaseGate` |
| `EndingsFinal` | `EndingsStand` |
| `ControlStands` | `TypeOK`, `ClosedIffSettled`, `RoundBarrier`, `TerminationLeavesClaimedWork`, of `RecoverySpec` |
| `RebuiltOnce` | `KeepsItsLease => RebuildOnce` |
| `LeftAloneAfterSuccess` | `KeepsItsLease => NoRebuildAfterSuccess` |

Two programs write to the same tables, so the argument has a side for each. What a
transaction of `ExecutionControl` does to rounds and steps is one of four moves
(`RoundMove`, proved by `NextRounds`): nothing, the end of a round whose steps become
pending, the release of the next round when all steps behind the last one have succeeded,
or a termination, which cancels the steps that are not over. The workers' writes are
conditional, and `RoundsSound` says why a condition on one row is enough: a step that is
awaited belongs to the current round, and then every open run is held for a later one
(`StepsAwaited`). Hence nothing is in flight that could end a round or be reserved while a
worker releases it, `completeWaitingStep` opens the round right after its own, and a failed
step leaves no run behind. Neither leases nor names occur in that invariant: the gate and
the endings do not depend on them.

`TasksSound` carries the bound on the failures of a row. A worker compares the count it read
at its claim, not the count in the row, so each of the workers still below the limit may add
one more: row and workers together stay below `MaxPollFailures + Cardinality(Workers)`, for
which `Workers` has to be finite.

Rebuilds do depend on leases: two workers that both hold a pending step may each ask Jenkins.
`KeepsItsLease` (`~Stalls`, and no two workers of one name) excludes just that; it is how
`recovery_settles` is configured, and `MaxRebuilds` is any number. `Counted` relates for each
step its status, its lease, where every worker is with it, the rebuilds and the disturbances:
only the owner of a pending step, or of one that was cancelled under its hands, is about to
ask Jenkins, and only when every earlier rebuild was lost to a disturbance; a pending step
whose rebuild was not lost is in the hands of the worker that is about to record it.

`JobQueueProofs` proves, for any sets of jobs and workers and any bounds that
`QueueAssumption` allows:

| Theorem | Property |
|---|---|
| `QueueSound` | the inductive invariant `QueueInv` |
| `QueueDelivers` | `Spec => DeliversAsPromised`, the refinement |
| `OneHandler` | `OneHandlerUnlessDisturbed` |
| `RestartsCaused` | `RestartsHaveCauses` |

The refinement needs to know of a stale handler only that its job was delivered and
that it acknowledges after a success (`HandlersSound`), and of a row that its
deliveries fit its status (`RowsSound`): whatever row a stale handler hits is then
settled as `JobDelivery` allows. `Kept` says of a step that it preserves the invariant
and moves each job by at most one move; a claim, which recovers and delivers in one
transaction, is the case where that is not obvious. `OneHandler` adds `Holders`: while
nothing was disturbed, each handler holds a valid lease on its own row, so recovery
takes nothing from it and no claim sees its row.

`RestartsCaused` is an argument by counting (`CausesInv`). A handler may cost its loop a
restart later, when it finds the row taken; what keeps that from happening to a handler that
works as it should is the valid lease of its own job (`Covered`). So the invariant balances
restarts and handlers against disturbances and covered jobs. A claim adds as many of the
latter as of handlers, since it takes no row whose lease is valid; a settled delivery takes
one of each away, and so does a lapsed lease of one and a disturbance; a handler that finds
nothing turns into the restart it costs; a crash takes along more handlers than jobs they
covered. As no handler covers two jobs, the restarts are left with the disturbances.

`JetStreamQueueProofs` proves, for any sets of jobs, relays and workers and any bounds that
`StreamAssumption` allows:

| Theorem | Property |
|---|---|
| `StreamSound` | the inductive invariant `StreamInv` |
| `StreamDelivers` | `Spec => DeliversAsPromised`, the refinement |
| `OneMessage` | `OneMessagePerJob` |

The messages of a job form a chain: the published one and, after each redrive of its dead
letter, a deferred one and the one stored in its place. `Chain` says that each message of
the chain but the last is spent, that is, the msgID of what came of it is in the duplicate
window, and that a dead letter nobody has redriven has only spent messages beside it.
`Letters` says what the remembered msgIDs tell of the messages they name, `Hands` what each
place of a worker's work tells of the message it holds, and that it holds it alone; with
these every publication adds a message only when all others are spent (`ChainGrows`). The
last message is the job that `JobDelivery` speaks of, and `Kept` says of each step that
every job makes at most one move. The hard cases are an acknowledgement the stream took and
the worker did not learn of, after which a dead letter may still follow (`Undecided`), and a
crash that ends several handlers at once. `OutboxSound` bounds the claims of a row by the
disturbances, through leases that lapse while their relay goes on.

`RunnerAgentProofs` proves, for any number of chunks and of faults that `AgentAssumption`
allows, and with or without other runners:

| Theorem | Property |
|---|---|
| `AgentSound` | the inductive invariant `AgentInv` |
| `LogsSafe` | `LogsAreKept` |
| `ResultsHaveLogs` | `ResultHasItsLogs` |
| `VerdictIsOne` | `OneVerdict` |
| `ProcessesSafe` | `NoStrayProcess` |

`AgentInv` ties what lies on the disk to where the agent is. One verdict needs that no
report exists before the conclusion, and that from the first report on the state file has
its verdict until it is removed (`VerdictStands`, `StatePlaced`). Kept logs need that
everybody who holds a watermark, also a report still on its way, got it over stored
chunks (`WatermarksTrue`), and that the spool is cleaned only when no report can be
accepted any more (`Over`, `SpoolKept`). A result with its logs needs in addition at which
places of the work a verdict already has them (`VerdictsHaveLogs`). `TypesKept` says that
each variable keeps its type, `StepKeeps` has a case per action; the watermark of an
upload exists because natural numbers are well-founded (`WatermarkAdvances`).

`SchedulingProofs` proves, for any number of schedulers, changes, rules, rounds and
failures:

| Theorem | Property |
|---|---|
| `SchedulingSound` | the inductive invariant `SchedulingInv` |
| `RoundsKeepTheirConcurrency` | `RoundConcurrency` |
| `AnswersAreTrue` | `AnsweredChangesAreSeen` |

The argument is about figures: rule i is a figure of round r when it is recorded for r or
some pass is about to record it. A figure is born only with the round and the rule of the
batch at that moment (`FiguresGrow`), and both only grow (`BatchAdvances`); hence figures
of earlier rounds are never ahead of those of later ones (`FiguresSound`). An activated
pass holds the last word about its round (`ActivationsStand`), so overwriting a record
moves it forward. `Steps` reduces the actions to four shapes of change and the quiet ones,
and the invariants are proved over the shapes. `CallsSound` says what a waiting call is
promised: its change is known, or its scheduler has a pass to begin.

`PostgresControlProofs` proves, under `ControlAssumption` and `PgAssumption`, for any number
of runs, attempts, recovery steps and failures:

| Theorem | Property |
|---|---|
| `PgAlwaysInv` | the inductive invariant `PgInv` |
| `PgClosesWhenSettled` | `ClosedOnlyWhenSettled` |
| `PgRoundsInOrder` | `RoundBarrier` |
| `PgSettled` | `SettledUnlessOverlapped` |
| `PgRowsAgree` | `LeaseCoversRunningRun`, `RunMatchesAttempts`, `ReceiptMatchesAttempt`, of `PgSpec` |
| `PgVerdictTrue` | `VerdictMatchesRuns` |
| `PgFirstWriteStands` | `FinalStaysFinal` |
| `PgPauseIsRespected` | `PausedIsQuiet` |

There is no theorem that a cancellation decides or that a valid lease is kept: both are
false of the Full edition (section 6).

`Inv` does not hold here: between the commit of a report and its settlement all runs may be
over and the batch open. What is left of it is `Consistent` and that a closed batch has no
open run (`ClosedSettled`). Both are claimed of two databases at once, of what is committed
and of what the transaction that holds the batch sees (`Seen`), since the second becomes the
first when it commits. Reports, claims, renewals and deadlines go on meanwhile, so
consistency is taken apart into the rows of each run (`FineAt`, `FineEverywhere`): a run is
fenced, and then its rows in the transaction stay as they are and nobody else has written
them, or it is not, and then both databases change alike (`FenceSound`). What an open
transaction has written (`WriteSound`) was decided on a state of its own run that the row
locks preserve but for a flag or a renewed lease (`Lapsed`, `Flagged`), which its commit
merges (`Merged`), and on a state of the batch that may be gone; therefore it must not matter
to consistency whether a termination came in between, and it does not: the fence of a later
settlement takes the retry back. `ClosedOnlyWhenSettled` follows although verdicts are
aggregated on older snapshots, because a run that has ended stays ended and a report needs a
run in flight, which the aggregating transaction sees too.

`SettledUnlessOverlapped` is a promise about the future stated on one state (`Promised`):
while the batch is not settled some report is still to look at it; a transaction that holds
the batch settles it when it commits (`WillSettle`), or some other report than its own is
still to look; and it does settle it as long as no report has committed since its fence
(`stale`). A report that finds work in flight may stop: the work itself settles the batch,
unless a stale transaction has fenced all of it, which is what `overlapped` records and what
`finding_lost_settlement` shows to happen (section 6).

The last three theorems are about steps, and rest on a second invariant, `PgKept`. A commit
changes rows by what was decided steps ago, when others had not yet committed, so the
invariant says that what is decided still *carries* what is committed: an attempt in the
hands of an open transaction, or of the one that holds the batch, is one that may still
become what it will be (`WriteKeeps`, `FenceKeeps`, `Carries`), and the verdict it will
commit is true of the runs it will leave. Who decides establishes that (`FencedCarries`),
a commit uses it (`CarriesKept`), and the burden is what goes on in between (`FenceStays`,
`WriteStays`): of rows that are written or fenced only deadlines, leases and flags change (`LapsedStep`), which no end depends on, and of
the rows a settlement has not fenced it says nothing. An attempt may end here whatever its
lease is, so its moves are `AttemptKept`, `AttemptStep` without what that says of leases. Of
these three, `pg_settles` checks `FinalStaysFinal`; the other two, and `RoundBarrier`, are checked
by TLC where a call is one step (`control_rounds`, `control_budget`) and proved for both.

Every invariant and every action property that a passing run checks is proved here for the
module of that run, the two
of `recovery_settles` for workers set up as in that run. Only model-checked is liveness,
which the proof system does not do.

## 5. Not modelled, and why

The scheduler's placement of runs on machines, which can only choose among what the
reservation accepts, and the grouping of its passes for a runner; the round recovery of
the Full edition, whose conditional writes are those of the Lite one; several attempts on
one agent, its drain, workspaces and caches; the worker pool, which serves pages and log
files; and administration, parsing and presentation, which have no interleavings beyond a
version check. `PROJECT.json` names the reason for each component.

## 6. Findings

The first two are runs of their own with a counterexample; TLC gives the other two with
`finding_cancelled_retried.cfg` and `finding_renewed_revoked.cfg` on `MCPostgresControl`, which
are kept beside the runs of the table.

* `finding_lost_settlement` (code, Full): a report commits and looks whether work is in
  flight. A run it sees may be one whose expiry or cancellation has already aggregated
  the batch, without this report, and is about to commit. The report leaves the batch to
  the other transaction, which has decided before: a batch whose runs are all over stays
  open, or a round that is over has no successor. The comment at
  `postgres-execution-control.ts:411` says this cannot happen. `SettledUnlessOverlapped`
  shows that this overlap is the only way, within the instance: whatever else is
  concurrent or fails, the last report settles the batch.
* `finding_stuck_agent` (code): an agent restarted after its lease lapsed, with a chunk of
  log not sent, is told to cancel, uploads before it reports, and is refused; its start
  fails and systemd repeats it. Expired attempts are recovered only while some claim is
  served, and it claims only after a start. If no other runner claims, neither ends.
  `agent_attempt` shows that with one other runner both do.
* `finding_cancelled_retried` (code, Full): the execution window of an attempt has overrun and
  its agent still renews. `recoverExpired` reads that nobody has cancelled the run, a user's
  cancellation is accepted and commits, and the expiry commits what it had decided: the run
  is queued again, or failed, with its flag set, where
  `docs/adr/0004-execution-state-machine.md:35` says that what is cancelled is not retried.
  Nothing deadlocks, as the two lock different rows. `control_rounds` shows, and
  `CancellationSafe` proves, that it cannot happen on SQLite.
* `finding_renewed_revoked` (code, Full): a cancellation or the fence of a termination finds a
  lease lapsed; a renewal that was in time commits; the lease is revoked although the agent
  has just been answered a later expiry. ADR 0004:36 and
  `docs/architecture/batch-termination-recovery.md:5` let an attempt with a valid lease end by
  itself. `ValidLeasesKept` is the theorem for SQLite.

The comment of `coalesced-operation.ts:2` has one gap: a request made after the last check
of an operation and before its removal from the map, a few microtasks later, is answered
with a pass that did not see its change (`late`). `AnsweredChangesAreSeen` shows there is no
other, `EveryChangeIsSeen` that the claims of runners make up for it.

More places where code and documents differ, visible in the models without a run. A pass
that activates a rule and fails before it corrects the record of the round
(`sqlite-run-batch.ts:1507`) leaves the record wrong for good: later passes find the rule
active, see no transition and keep what is recorded, so the page shows the base concurrency
for a round that runs with the rule's, and the change is never logged, where `README.md:287`
says both are kept; hence `failures = 0` in `RecordMatchesRule`. An attempt that times out
after a requested cancellation leaves a cancelled run whose outcome is `timed_out`
(`expireAttempt`), against `assertExecutionRunInvariant` of
`packages/domain/src/execution.ts:100`, which nothing calls.
ADR 0004 has a batch `running` while any run is, a reservation writes `scheduled` or
`dispatching` all the same (`SchedulingStatus`); the ADR counts attempts against the retry
limit, the code counts the failures of each kind against budgets of their own
(`RetryAllowed`); the ADR has every adapter obey the transition table, while the queue
timeout takes a run from `queued` to `failed` (`QueueTimeout`); and
`docs/architecture/run-scheduling.md:100` promises the contract of the SQLite queue of
JetStream, which does not bury the last delivery of a worker that ended (`UsedUp`).

## 7. What could follow

* Modules: the round recovery over `PostgresControl`; several attempts on one agent.
