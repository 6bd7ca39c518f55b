---------------------------- MODULE ExecutionControl ----------------------------
(***************************************************************************)
(* The control plane of one run batch: the tables execution_runs,          *)
(* run_attempts, assignments, assignment_leases, attempt_completion_       *)
(* receipts, run_batches and run_batch_round_recoveries, and the methods   *)
(* of the SQLite repositories that change them.  Every method is one       *)
(* BEGIN IMMEDIATE transaction, so every action below takes the database   *)
(* db from one committed state to the next.                                *)
(*                                                                         *)
(* Abstractions.  An attempt has exactly one assignment and an assignment  *)
(* at most one lease, so the rows that belong to one attempt are one       *)
(* record.  Identities of execution machines, lease tokens and versions    *)
(* are left out: whoever calls with an attempt holds its token.  A         *)
(* timestamp that is only ever compared with "now" is a flag that says it  *)
(* has been reached; the Reach* actions are the passing of time.  Result   *)
(* codes are kept as the four classes the code tells apart.                *)
(***************************************************************************)
EXTENDS Integers, FiniteSets

CONSTANTS
  Runs,                  \* the execution runs of the batch
  AttemptNumbers,        \* attempt numbers the model has room for (a bound)
  Results,               \* completion results agents may report
  RetryMode,             \* run_batches.retry_mode
  RetryLimit,            \* run_batches.retry_limit
  MaxRunnerReschedules,  \* MAX_RUNNER_FAILURE_RESCHEDULES, 2 in the code
  BatchConcurrency,      \* policy.concurrency
  RecoverySteps,         \* rules of the Jenkins round recovery of the batch
  AfterRound             \* the round after which each of them runs

VARIABLE db

RunInFlight     == {"assigned", "running"}
RunTerminal     == {"succeeded", "failed", "cancelled"}
AttemptTerminal == {"succeeded", "failed", "timed_out", "cancelled"}
BatchOpen       == {"queued", "dispatching", "scheduled", "running"}
BatchTerminal   == {"succeeded", "failed", "cancelled"}
AssignmentOpen  == {"pending", "claimed", "running"}
RecoveryActive  == {"pending", "polling", "waiting", "releasing"}

\* passed and assertion: the adapter ended normally; runner: a retryable
\* failure of the machine or the transport; abnormal: any other failure.
CodeClasses == {"passed", "assertion", "runner", "abnormal", "cancelled"}

AllResults ==
  {[status |-> "succeeded", code |-> "passed"], [status |-> "cancelled", code |-> "cancelled"]}
    \cup [status : {"failed", "timed_out"}, code : {"assertion", "runner", "abnormal"}]

ASSUME ControlAssumption ==
  /\ Runs # {} /\ IsFiniteSet(Runs)
  /\ AttemptNumbers \subseteq Nat \ {0}
  /\ Results \subseteq AllResults
  /\ RetryMode \in {"immediate", "round"}
  /\ RetryLimit \in Nat /\ MaxRunnerReschedules \in Nat /\ BatchConcurrency \in Nat \ {0}
  /\ AfterRound \in [RecoverySteps -> Nat \ {0}]

Attempts == Runs \X AttemptNumbers

Deadlines == {"claim", "lease", "execution", "upload"}

RunRow ==
  [status : {"queued"} \cup RunInFlight \cup RunTerminal,
   outcome : {"none"} \cup AttemptTerminal,
   reason : {"none"} \cup CodeClasses,
   round : Nat \ {0}, held : Nat, attempts : Nat,
   cancel : BOOLEAN, queueDue : BOOLEAN]

AttemptRow ==
  [status : {"absent"} \cup RunInFlight \cup AttemptTerminal,
   code : {"none"} \cup CodeClasses,
   assignment : {"none", "completed", "cancelled", "expired"} \cup AssignmentOpen,
   lease : {"none", "active", "released", "expired", "revoked"},
   cancel : BOOLEAN, uploading : BOOLEAN, due : SUBSET Deadlines,
   receipt : {"none", "accepted", "late"}]

Database ==
  [run : [Runs -> RunRow],
   attempt : [Attempts -> AttemptRow],
   batch : [status : BatchOpen \cup BatchTerminal, terminating : BOOLEAN,
            paused : BOOLEAN, round : Nat \ {0}],
   recovery : [RecoverySteps ->
                 {"idle", "succeeded", "failed", "cancelled"} \cup RecoveryActive]]

NoAttempt ==
  [status |-> "absent", code |-> "none", assignment |-> "none", lease |-> "none",
   cancel |-> FALSE, uploading |-> FALSE, due |-> {}, receipt |-> "none"]

CreatedRun ==
  [status |-> "queued", outcome |-> "none", reason |-> "none", round |-> 1, held |-> 0,
   attempts |-> 0, cancel |-> FALSE, queueDue |-> FALSE]

Init ==
  db = [run |-> [r \in Runs |-> CreatedRun],
        attempt |-> [a \in Attempts |-> NoAttempt],
        batch |-> [status |-> "queued", terminating |-> FALSE, paused |-> FALSE, round |-> 1],
        recovery |-> [p \in RecoverySteps |-> "idle"]]

-----------------------------------------------------------------------------
(* Reading the tables.  s is a database inside a transaction.              *)

Latest(s, r) == <<r, s.run[r].attempts>>

IsLatest(s, a) == a[2] = s.run[a[1]].attempts

\* assignment_leases.status = 'active' AND expires_at > now
Leased(row) == row.lease = "active" /\ "lease" \notin row.due

\* Faulty forms of a definition, named for the mistake, stand right before it;
\* the properties are tried against them.

ProtectedOnceRenewed(row) == row.assignment = "running" /\ Leased(row)

ProtectedByAnyLease(row) == row.assignment \in {"claimed", "running"} /\ row.lease = "active"

\* Work that a termination lets finish: claimed under a valid lease.
Protected(row) == row.assignment \in {"claimed", "running"} /\ Leased(row)

RunsIn(s, statuses) == {r \in Runs : s.run[r].status \in statuses}

Schedulable(s, r) == s.run[r].status = "queued" /\ s.run[r].held = 0

HeldRuns(s) == {r \in Runs : s.run[r].status = "queued" /\ s.run[r].held > 0}

\* Attempts that take a slot of the batch's concurrency.
ActiveAttempts(s) ==
  {a \in Attempts : s.attempt[a].status \in RunInFlight /\ s.run[a[1]].status \in RunInFlight}

FailedAttempts(s, r, codes) ==
  {n \in AttemptNumbers : /\ s.attempt[<<r, n>>].status \in {"failed", "timed_out"}
                          /\ s.attempt[<<r, n>>].code \in codes}

\* A failed run whose reason is no regular outcome of the adapter.
Blocked(reason) == reason \notin {"passed", "assertion"}

-----------------------------------------------------------------------------
(* Steps that several transactions share.                                  *)

\* An attempt that is over keeps what later requests still read.
Ended(row, status, code, assignment, lease) ==
  [row EXCEPT !.status = status, !.code = code, !.assignment = assignment,
              !.lease = lease, !.uploading = FALSE, !.due = {}]

RunEndedAsItsOutcome(row, status, outcome, reason) ==
  [row EXCEPT !.status = outcome, !.outcome = outcome, !.reason = reason, !.queueDue = FALSE]

RunEnded(row, status, outcome, reason) ==
  [row EXCEPT !.status = status, !.outcome = outcome, !.reason = reason, !.queueDue = FALSE]

WaitingClosedKeepingLease(row) ==
  IF row.status \in RunInFlight /\ ~Protected(row)
  THEN Ended(row, "cancelled", "cancelled", "cancelled", row.lease) ELSE row

WaitingClosedInAnyStatus(row) ==
  IF row.status # "absent" /\ ~Protected(row)
  THEN Ended(row, "cancelled", "cancelled", row.assignment, row.lease) ELSE row

\* terminateWaitingRuns: a valid lease is the only thing that keeps work open.
WaitingClosed(row) ==
  LET assignment == IF row.assignment \in AssignmentOpen /\ ~Protected(row)
                    THEN "cancelled" ELSE row.assignment
      lease      == IF row.lease = "active" /\ assignment = "cancelled"
                    THEN "revoked" ELSE row.lease
  IN  IF row.status \in RunInFlight /\ ~Protected(row)
      THEN Ended(row, "cancelled", "cancelled", assignment, lease)
      ELSE [row EXCEPT !.assignment = assignment, !.lease = lease]

HasProtectedAttempt(s, r) ==
  \E n \in AttemptNumbers :
    s.attempt[<<r, n>>].status \in RunInFlight /\ Protected(s.attempt[<<r, n>>])

TerminateWaitingRunsOnly(s) ==
  [s EXCEPT !.run = [r \in Runs |->
     IF s.run[r].status \in RunTerminal \/ HasProtectedAttempt(s, r) THEN s.run[r]
     ELSE RunEnded(s.run[r], "cancelled", "cancelled", "cancelled")]]

TerminateQueuedRunsOnly(s) ==
  [s EXCEPT !.run = [r \in Runs |->
     IF s.run[r].status = "queued"
     THEN RunEnded(s.run[r], "cancelled", "cancelled", "cancelled") ELSE s.run[r]]]

TerminateWaitingRuns(s) ==
  [s EXCEPT
     !.attempt = [a \in Attempts |-> WaitingClosed(s.attempt[a])],
     !.run = [r \in Runs |->
                IF s.run[r].status \in RunTerminal \/ HasProtectedAttempt(s, r)
                THEN s.run[r]
                ELSE [RunEnded(s.run[r], "cancelled", "cancelled", "cancelled")
                        EXCEPT !.cancel = TRUE]]]

StepsAfter(k) == {p \in RecoverySteps : AfterRound[p] = k}

NextHeldRound(s) ==
  CHOOSE k \in {s.run[r].held : r \in HeldRuns(s)} : \A r \in HeldRuns(s) : k <= s.run[r].held

\* Every waiting run whose round has come becomes schedulable.
ReleaseRound(s, k) ==
  [s EXCEPT
     !.run = [r \in Runs |->
                IF s.run[r].status = "queued" /\ s.run[r].held <= k
                THEN [s.run[r] EXCEPT !.held = 0, !.queueDue = FALSE]
                ELSE s.run[r]],
     !.batch.round = k]

RoundIdleDespiteWorkInFlight(s) == (\A r \in Runs : ~Schedulable(s, r)) /\ HeldRuns(s) # {}

\* The whole round is over: nothing in flight, nothing left to schedule.
RoundIdle(s) ==
  /\ RunsIn(s, RunInFlight) = {}
  /\ \A r \in Runs : ~Schedulable(s, r)
  /\ HeldRuns(s) # {}

AdvanceRoundIfIdle(s) ==
  IF RetryMode # "round" \/ ~RoundIdle(s) THEN s
  ELSE LET k     == NextHeldRound(s)
           steps == StepsAfter(k - 1)
       IN  IF \E p \in steps : s.recovery[p] = "idle"
           THEN [s EXCEPT !.recovery =
                   [p \in RecoverySteps |->
                      IF p \in steps /\ s.recovery[p] = "idle" THEN "pending"
                      ELSE s.recovery[p]]]
           ELSE IF \E p \in steps : s.recovery[p] # "succeeded" THEN s
           ELSE ReleaseRound(s, k)

WaitingIfSchedulable(s) == {r \in Runs : Schedulable(s, r)}

WaitingRuns(s) == RunsIn(s, {"queued"})

BrokenByRunner(s) == {r \in RunsIn(s, {"failed"}) : s.run[r].reason = "runner"}

AbnormalRuns(s) == {r \in RunsIn(s, {"failed"}) : Blocked(s.run[r].reason)}

AggregateStatus(s) ==
  IF RunsIn(s, {"running"}) # {} THEN "running"
  ELSE IF RunsIn(s, {"assigned"}) # {}
       THEN IF WaitingRuns(s) # {} THEN "dispatching" ELSE "scheduled"
  ELSE IF WaitingRuns(s) # {} THEN "queued"
  ELSE IF s.batch.terminating \/ RunsIn(s, {"cancelled"}) # {} THEN "cancelled"
  ELSE IF AbnormalRuns(s) # {} THEN "failed"
  ELSE "succeeded"

UpdateBatchStatusDespitePause(s) ==
  IF s.batch.status \in BatchTerminal THEN s
  ELSE LET s1 == IF s.batch.terminating THEN TerminateWaitingRuns(s) ELSE AdvanceRoundIfIdle(s)
       IN  [s1 EXCEPT !.batch.status = AggregateStatus(s1)]

UpdateBatchStatus(s) ==
  IF s.batch.status \in BatchTerminal THEN s
  ELSE LET s1 == IF s.batch.terminating THEN TerminateWaitingRuns(s)
                 ELSE IF s.batch.paused THEN s
                 ELSE AdvanceRoundIfIdle(s)
       IN  [s1 EXCEPT !.batch.status = AggregateStatus(s1)]

-----------------------------------------------------------------------------
(* What the end of an attempt means for its run.                           *)

RetryAllowedOnceMore(s, r, code) ==
  IF code = "runner"
  THEN Cardinality(FailedAttempts(s, r, {"runner"})) <= MaxRunnerReschedules
  ELSE Cardinality(FailedAttempts(s, r, CodeClasses \ {"runner"})) <= RetryLimit

\* Runner failures and other failures have budgets of their own.
RetryAllowed(s, r, code) ==
  IF code = "runner"
  THEN Cardinality(FailedAttempts(s, r, {"runner"})) < MaxRunnerReschedules
  ELSE Cardinality(FailedAttempts(s, r, CodeClasses \ {"runner"})) < RetryLimit

OutcomeAfterCompletion(s, r, outcome, code) ==
  IF outcome = "succeeded" THEN "succeeded"
  ELSE IF outcome = "cancelled" \/ s.run[r].cancel THEN "cancelled"
  ELSE IF s.batch.terminating \/ ~RetryAllowed(s, r, code) THEN "failed"
  ELSE "queued"

\* retryQueueTiming of a run that goes back to the queue.
Requeued(row, code) ==
  LET sameRound == RetryMode = "round" /\ code = "runner"
      k         == IF sameRound THEN row.round ELSE row.round + 1
  IN  [row EXCEPT !.status = "queued", !.outcome = "none", !.reason = "none",
                  !.round = k, !.queueDue = FALSE,
                  !.held = IF RetryMode = "round" /\ ~sameRound THEN k ELSE 0]

RunAfter(s, r, outcome, code) ==
  LET next == OutcomeAfterCompletion(s, r, outcome, code)
  IN  IF next = "queued" THEN Requeued(s.run[r], code)
      ELSE [RunEnded(s.run[r], next, outcome, code) EXCEPT !.held = 0]

\* The end of attempt a: its rows, its run, then the batch.
Conclude(s, a, row, outcome, code) ==
  UpdateBatchStatus([s EXCEPT !.attempt[a] = row,
                              !.run[a[1]] = RunAfter(s, a[1], outcome, code)])

-----------------------------------------------------------------------------
(* Scheduling: reserveAssignments for the decisions whose runs are D.      *)

FreeSlotsAmongRunning(s) == BatchConcurrency - Cardinality(RunsIn(s, {"running"}))

FreeSlots(s) == BatchConcurrency - Cardinality(ActiveAttempts(s))

Reservable(s, r) == Schedulable(s, r) /\ ~s.run[r].queueDue

Reserve(s, D) ==
  [s EXCEPT
     !.run = [r \in Runs |->
                IF r \in D THEN [s.run[r] EXCEPT !.status = "assigned", !.attempts = @ + 1]
                ELSE s.run[r]],
     !.attempt = [a \in Attempts |->
                    IF a[1] \in D /\ a[2] = s.run[a[1]].attempts + 1
                    THEN [NoAttempt EXCEPT !.status = "assigned", !.assignment = "pending"]
                    ELSE s.attempt[a]]]

\* updateBatchSchedulingStatus
SchedulingStatus(s) ==
  IF RunsIn(s, {"queued"}) = {} THEN "scheduled"
  ELSE IF RunsIn(s, RunInFlight) # {} THEN "dispatching" ELSE "queued"

ReserveAssignments(D) ==
  /\ db.batch.status \in BatchOpen
  /\ ~db.batch.terminating /\ ~db.batch.paused
  /\ \A r \in D : Reservable(db, r) /\ db.run[r].attempts + 1 \in AttemptNumbers
  /\ D # {} => Cardinality(D) <= FreeSlots(db)
  /\ LET s == Reserve(db, D)
     IN  db' = [s EXCEPT !.batch.status = SchedulingStatus(s)]

-----------------------------------------------------------------------------
(* Requests of the execution machines.                                     *)

\* One claim may take several assignments; the batch is aggregated once.
Claim(S) ==
  /\ S # {} /\ ~db.batch.terminating
  /\ \A a \in S : db.attempt[a].assignment = "pending" /\ "claim" \notin db.attempt[a].due
  /\ db' = UpdateBatchStatus(
       [db EXCEPT
          !.attempt = [a \in Attempts |->
             IF a \notin S THEN db.attempt[a]
             ELSE [db.attempt[a] EXCEPT !.assignment = "claimed", !.lease = "active",
                     !.status = IF @ = "assigned" THEN "running" ELSE @]],
          !.run = [r \in Runs |->
             IF db.run[r].status = "assigned" /\ \E a \in S : a[1] = r
             THEN [db.run[r] EXCEPT !.status = "running"] ELSE db.run[r]]])

\* Renewing moves expires_at ahead of now: a lease that still holds keeps holding.
RenewLease(a) ==
  /\ Leased(db.attempt[a])
  /\ db.attempt[a].assignment \in {"claimed", "running"}
  /\ db' = [db EXCEPT !.attempt[a].assignment = "running"]

\* declareArtifacts starts the upload window once.
DeclareArtifacts(a) ==
  /\ Leased(db.attempt[a]) /\ db.attempt[a].status = "running"
  /\ db' = [db EXCEPT !.attempt[a].uploading = TRUE]

IsLate(s, a) ==
  \/ ~Leased(s.attempt[a])
  \/ ~IsLatest(s, a)
  \/ s.run[a[1]].status \in RunTerminal

ReportedResult(s, a, result) == result

\* cancellationResult: a cancellation the control plane accepted first wins.
EffectiveResult(s, a, result) ==
  IF s.run[a[1]].cancel THEN [status |-> "cancelled", code |-> "cancelled"] ELSE result

\* The first report of an attempt leaves a receipt; repeats only read it.
CompleteAccepted(a, result) ==
  LET row == db.attempt[a]
      res == EffectiveResult(db, a, result)
  IN  /\ row.lease # "none" /\ row.receipt = "none" /\ ~IsLate(db, a)
      /\ row.status \in RunInFlight /\ row.assignment \in {"claimed", "running"}
      /\ db.run[a[1]].status \in RunInFlight
      /\ db' = Conclude(db, a,
                  [Ended(row, res.status, res.code, "completed", "released")
                     EXCEPT !.receipt = "accepted"],
                  res.status, res.code)

CompleteLateAsAccepted(a) ==
  /\ db.attempt[a].lease # "none" /\ db.attempt[a].receipt = "none" /\ IsLate(db, a)
  /\ db' = [db EXCEPT !.attempt[a].receipt = "accepted"]

CompleteLate(a) ==
  /\ db.attempt[a].lease # "none" /\ db.attempt[a].receipt = "none" /\ IsLate(db, a)
  /\ db' = [db EXCEPT !.attempt[a].receipt = "late"]

-----------------------------------------------------------------------------
(* recoverExpired.  The code's scan handles its findings one after the     *)
(* other in one transaction; here each is a step, as in a scan whose limit *)
(* is one, so other requests may also come in between.                     *)

QueueTimeout(r) ==
  /\ Schedulable(db, r) /\ db.run[r].queueDue
  /\ ~db.batch.paused /\ db.batch.status \in BatchOpen
  /\ db' = UpdateBatchStatus(
             [db EXCEPT !.run[r] = RunEnded(@, "failed", "timed_out", "abnormal")])

\* The upload window replaces the execution window; either beats the lease.
ExpirationCode(row) ==
  IF ~row.uploading /\ "execution" \in row.due THEN "abnormal" ELSE "runner"

ExpireAttempt(a, lease, code) ==
  Conclude(db, a, Ended(db.attempt[a], "timed_out", code, "expired", lease), "timed_out", code)

LeasedWorkOverdue(row) ==
  \/ "lease" \in row.due
  \/ row.uploading /\ "upload" \in row.due
  \/ ~row.uploading /\ "execution" \in row.due

ExpireLeased(a) ==
  LET row == db.attempt[a]
  IN  /\ row.lease = "active" /\ row.assignment \in {"claimed", "running"}
      /\ row.status \in RunInFlight /\ db.run[a[1]].status \in RunInFlight
      /\ db.batch.status \in BatchOpen
      /\ LeasedWorkOverdue(row)
      /\ db' = ExpireAttempt(a, "expired", ExpirationCode(row))

ExpireUnclaimed(a) ==
  LET row == db.attempt[a]
  IN  /\ row.assignment = "pending" /\ "claim" \in row.due
      /\ row.status = "assigned" /\ db.run[a[1]].status = "assigned"
      /\ db.batch.status \in BatchOpen
      /\ db' = ExpireAttempt(a, row.lease, "runner")

\* terminatingBatchSettlementSql: the scan of the scope terminating_batches.
SettleTerminatingBatch ==
  /\ db.batch.terminating /\ db.batch.status \in BatchOpen
  /\ ~\E a \in Attempts : /\ db.attempt[a].status \in RunInFlight /\ Protected(db.attempt[a])
                          /\ db.run[a[1]].status \in RunInFlight
  /\ db' = UpdateBatchStatus(db)

-----------------------------------------------------------------------------
(* Requests of users.                                                      *)

PauseBatch ==
  /\ db.batch.status \in BatchOpen /\ ~db.batch.terminating /\ ~db.batch.paused
  /\ db' = [db EXCEPT !.batch.paused = TRUE]

ResumeWithoutAggregation ==
  /\ db.batch.status \in BatchOpen /\ ~db.batch.terminating /\ db.batch.paused
  /\ db' = [db EXCEPT !.batch.paused = FALSE,
                      !.run = [r \in Runs |-> [db.run[r] EXCEPT !.queueDue = FALSE]]]

\* queue_resumed_at gives every waiting run a fresh queue window.
ResumeBatch ==
  /\ db.batch.status \in BatchOpen /\ ~db.batch.terminating /\ db.batch.paused
  /\ db' = UpdateBatchStatus(
             [db EXCEPT !.batch.paused = FALSE,
                        !.run = [r \in Runs |-> [db.run[r] EXCEPT !.queueDue = FALSE]]])

TerminateBatch ==
  /\ db.batch.status \in BatchOpen
  /\ db' = UpdateBatchStatus(TerminateWaitingRuns(
             [db EXCEPT !.batch.terminating = TRUE,
                        !.recovery = [p \in RecoverySteps |->
                           IF db.recovery[p] \in {"idle"} \cup RecoveryActive
                           THEN "cancelled" ELSE db.recovery[p]]]))

HasLease(s, r) == s.run[r].attempts # 0 /\ Leased(s.attempt[Latest(s, r)])

\* Claimed work is only asked to stop: its agent reads the flag when it renews.
CancelLeasedRun(r) ==
  /\ db.run[r].status \notin RunTerminal /\ HasLease(db, r)
  /\ db' = [db EXCEPT !.run[r].cancel = TRUE, !.attempt[Latest(db, r)].cancel = TRUE]

CancelWaitingRun(r) ==
  LET a     == Latest(db, r)
      row   == db.attempt[a]
      open  == db.run[r].attempts # 0 /\ row.assignment \in AssignmentOpen
      lease == IF open /\ row.lease = "active" THEN "revoked" ELSE row.lease
      asg   == IF open THEN "cancelled" ELSE row.assignment
      run   == [RunEnded(db.run[r], "cancelled", "cancelled", "cancelled")
                  EXCEPT !.cancel = TRUE]
  IN  /\ db.run[r].status \notin RunTerminal /\ ~HasLease(db, r)
      /\ db' = UpdateBatchStatus(
                 IF db.run[r].attempts = 0 THEN [db EXCEPT !.run[r] = run]
                 ELSE [db EXCEPT
                         !.run[r] = run,
                         !.attempt[a] =
                            LET cut == [row EXCEPT !.cancel = open \/ @]
                            IN  IF row.status \in AttemptTerminal
                                THEN [cut EXCEPT !.assignment = asg, !.lease = lease]
                                ELSE Ended(cut, "cancelled", "cancelled", asg, lease)])

-----------------------------------------------------------------------------
(* Time.  A deadline is reached at most once and stays reached.            *)

ReachQueueDeadline(r) ==
  /\ Schedulable(db, r) /\ ~db.run[r].queueDue
  /\ db' = [db EXCEPT !.run[r].queueDue = TRUE]

Armed(row) ==
  (IF row.assignment = "pending" THEN {"claim"} ELSE {})
    \cup (IF row.lease = "active" THEN {"lease"} ELSE {})
    \cup (IF row.lease = "active" /\ ~row.uploading THEN {"execution"} ELSE {})
    \cup (IF row.lease = "active" /\ row.uploading THEN {"upload"} ELSE {})

ReachDeadline(a, d) ==
  /\ d \in Armed(db.attempt[a]) \ db.attempt[a].due
  /\ db' = [db EXCEPT !.attempt[a].due = @ \cup {d}]

-----------------------------------------------------------------------------
Next ==
  \/ \E D \in SUBSET Runs : ReserveAssignments(D)
  \/ \E S \in SUBSET {a \in Attempts : db.attempt[a].assignment = "pending"} : Claim(S)
  \/ \E a \in Attempts : \/ RenewLease(a)
                         \/ DeclareArtifacts(a)
                         \/ \E result \in Results : CompleteAccepted(a, result)
                         \/ CompleteLate(a)
                         \/ ExpireLeased(a)
                         \/ ExpireUnclaimed(a)
                         \/ \E d \in Deadlines : ReachDeadline(a, d)
  \/ \E r \in Runs : \/ QueueTimeout(r)
                     \/ CancelLeasedRun(r)
                     \/ CancelWaitingRun(r)
                     \/ ReachQueueDeadline(r)
  \/ SettleTerminatingBatch
  \/ PauseBatch
  \/ ResumeBatch
  \/ TerminateBatch

Spec == Init /\ [][Next]_db

-----------------------------------------------------------------------------
(* Safety.                                                                 *)

\* Every row has the shape the schema gives it.
TypeOK == db \in Database

\* An active lease exists only for the latest attempt of a run that is
\* running, on an assignment in the hands of its agent: no expiry, cancellation,
\* termination or retry leaves an older attempt able to speak for the run.
LeaseCoversRunningRun ==
  \A a \in Attempts : db.attempt[a].lease = "active" =>
    /\ IsLatest(db, a)
    /\ db.run[a[1]].status = "running" /\ db.attempt[a].status = "running"
    /\ db.attempt[a].assignment \in {"claimed", "running"}

\* A run in flight has exactly one attempt in flight, its latest one and in
\* the same state; a run that is queued or over has none.
RunMatchesAttempts ==
  \A r \in Runs : \A n \in AttemptNumbers :
    LET row == db.attempt[<<r, n>>]
    IN  IF db.run[r].status \in RunInFlight /\ n = db.run[r].attempts
        THEN row.status = db.run[r].status
        ELSE row.status \notin RunInFlight

\* A receipt and the attempt tell the same story: the report was accepted
\* exactly if it ended the attempt, so a late report never decides one.
ReceiptMatchesAttempt ==
  \A a \in Attempts :
    /\ db.attempt[a].receipt = "accepted" <=> db.attempt[a].assignment = "completed"
    /\ db.attempt[a].receipt = "accepted" => db.attempt[a].lease = "released"

\* A batch is closed exactly when all of its runs are over: it never closes
\* over open work, and never stays open with nothing left to do.
ClosedIffSettled ==
  db.batch.status \in BatchTerminal <=> \A r \in Runs : db.run[r].status \in RunTerminal

\* A terminated batch ends as cancelled, and one that ends as succeeded
\* hides neither a cancelled run nor one the machines or the platform broke.
VerdictMatchesRuns ==
  db.batch.status \in BatchTerminal =>
    /\ db.batch.terminating => db.batch.status = "cancelled"
    /\ db.batch.status = "succeeded" =>
         \A r \in Runs : /\ db.run[r].status # "cancelled"
                         /\ db.run[r].status = "failed" => ~Blocked(db.run[r].reason)

\* Termination leaves nothing but claimed work: no run waits, and none that
\* fails afterwards is put back.
TerminationLeavesClaimedWork ==
  db.batch.terminating => \A r \in Runs : db.run[r].status \in {"running"} \cup RunTerminal

\* A cancellation that was accepted while the run was open decides its end,
\* whatever the agent reports or the recovery scan finds later.
CancellationDecides ==
  \A r \in Runs : db.run[r].cancel => db.run[r].status \in {"running", "cancelled"}

\* Retrying by rounds: an open run belongs to the batch's round or waits for
\* the next one; no run starts a round while others are still in the last.
RoundBarrier ==
  RetryMode = "round" => \A r \in Runs : db.run[r].status \notin RunTerminal =>
    IF db.run[r].held = 0 THEN db.run[r].round = db.batch.round
    ELSE /\ db.run[r].status = "queued"
         /\ db.run[r].held = db.batch.round + 1 /\ db.run[r].round = db.run[r].held

\* The two retry budgets bound the attempts of a run, in whatever order
\* machine failures and other failures come.
RetryBudget ==
  \A r \in Runs :
    /\ db.run[r].attempts <= 1 + RetryLimit + MaxRunnerReschedules
    /\ Cardinality(FailedAttempts(db, r, {"runner"})) <= MaxRunnerReschedules + 1
    /\ Cardinality(FailedAttempts(db, r, CodeClasses \ {"runner"})) <= RetryLimit + 1

\* Reservations, counted from the attempts, never exceed the batch's policy.
ConcurrencyRespected == Cardinality(ActiveAttempts(db)) <= BatchConcurrency

-----------------------------------------------------------------------------
(* What a step may never do.                                               *)

\* What is recorded as final stays: the first write of a terminal state wins,
\* and a receipt is never rewritten.
FinalStaysFinal ==
  [][ /\ \A a \in Attempts :
           /\ db.attempt[a].status \in AttemptTerminal =>
                /\ db'.attempt[a].status = db.attempt[a].status
                /\ db'.attempt[a].code = db.attempt[a].code
           /\ db.attempt[a].receipt # "none" => db'.attempt[a].receipt = db.attempt[a].receipt
      /\ \A r \in Runs : db.run[r].status \in RunTerminal => db'.run[r] = db.run[r]
      /\ db.batch.status \in BatchTerminal => db'.batch.status = db.batch.status ]_db

\* While scheduling is paused nothing is dispatched, no round starts, no
\* recovery is activated and no run times out in the queue.
PausedIsQuiet ==
  [][ db.batch.paused /\ db'.batch.paused =>
        /\ db'.batch.round = db.batch.round
        /\ \A p \in RecoverySteps : db.recovery[p] = "idle" => db'.recovery[p] # "pending"
        /\ \A r \in Runs : /\ db'.run[r].attempts = db.run[r].attempts
                           /\ db.run[r].status = "queued" => db'.run[r].status # "failed" ]_db

\* A lease that still holds is taken away only by its own report or because
\* the attempt overran its window; cancelling and terminating wait for it.
ValidLeaseIsKept ==
  [][ \A a \in Attempts : Leased(db.attempt[a]) /\ db'.attempt[a].lease # "active" =>
        \/ db'.attempt[a].receipt = "accepted"
        \/ db'.attempt[a].lease = "expired" /\ db.attempt[a].due \cap {"execution", "upload"} # {} ]_db

-----------------------------------------------------------------------------
(* Liveness.  Deadlines are reached and the scans that look for them come  *)
(* again and again; nothing is assumed of agents, users or the scheduler.  *)

\* lease is absent: an agent that renews in time keeps its lease for ever.
WindowOf(r) ==
  \/ ReachQueueDeadline(r)
  \/ \E n \in AttemptNumbers, d \in {"claim", "execution", "upload"} : ReachDeadline(<<r, n>>, d)

RecoverRun(r) ==
  \/ QueueTimeout(r)
  \/ \E n \in AttemptNumbers : ExpireLeased(<<r, n>>) \/ ExpireUnclaimed(<<r, n>>)

\* The web process's own scan of terminating batches, every 5 s.
FairSpec == Spec /\ WF_db(SettleTerminatingBatch)

\* Some runner polls, and so the recovery scan comes again and again.
RunnersPoll == WF_db(\E r \in Runs : WindowOf(r)) /\ WF_db(\E r \in Runs : RecoverRun(r))

\* Nobody renews any more.
LeasesLapse == WF_db(\E a \in Attempts : ReachDeadline(a, "lease"))

\* A batch that is not paused for ever closes as long as runners poll, even if
\* the agents that hold its work never answer.
BatchCloses == RunnersPoll => ((<>[]~db.batch.paused) => <>(db.batch.status \in BatchTerminal))

\* A terminated batch closes even if no runner is left: the leases lapse, and
\* the scan of terminating batches is enough.
TerminationCompletes ==
  LeasesLapse => (db.batch.terminating ~> db.batch.status \in BatchTerminal)
=============================================================================
