----------------------------- MODULE PostgresControl -----------------------------
(***************************************************************************)
(* Execution control on PostgreSQL.  The tables and the decisions are      *)
(* those of ExecutionControl; what differs is that transactions overlap.   *)
(* A statement reads what is committed plus what its own transaction has   *)
(* written (READ COMMITTED), and waits for rows another one has changed.   *)
(*                                                                         *)
(*   completeAttempt     writes the rows of its run and commits; then reads*)
(*                       whether work is in flight, without any lock; only *)
(*                       if there is none it settles the batch in a second *)
(*                       transaction.                                      *)
(*   recoverExpired and  write the rows of a run, then lock the batch and  *)
(*   cancelRun           settle it, all in one transaction.                *)
(*   the 5 s scan        locks a terminating batch and settles it.         *)
(*                                                                         *)
(* Settling (updateBatchStatus) locks the batch row, fences or advances,   *)
(* aggregates, and commits, each on a snapshot of its own.                 *)
(*                                                                         *)
(* The code locks the rows of one run one by one: the run, its attempt,    *)
(* its assignment, its lease.  Two transactions on one run mostly wait for *)
(* each other or end in a deadlock, of which PostgreSQL aborts one (Fail*  *)
(* are such aborts too); here they wait for all rows of the run.  Two that *)
(* neither wait nor deadlock are steps here: a cancellation of leased work *)
(* whose expiry is open, since that holds the lease alone and has read the *)
(* flag of the run already (AskToCancel); and the renewal of a lease that  *)
(* a cancellation or a fence has read as lapsed (RenewInTime).             *)
(***************************************************************************)
EXTENDS ExecutionControl

CONSTANTS
  Lapsing,      \* deadlines that may be reached (a bound)
  MaxFailures   \* transactions and processes that may fail (a bound)

ASSUME PgAssumption == Lapsing \subseteq Deadlines \cup {"queue"} /\ MaxFailures \in Nat

VARIABLES
  writing,      \* the rows of a run that an open transaction has written
  settling,     \* the transaction that holds the lock of the batch row
  answer,       \* how far the report of an attempt is after its first commit
  overlapped,   \* history: a report left the batch to a transaction that had already decided
  failures

pgVars == <<db, writing, settling, answer, overlapped, failures>>

NothingWritten == [by |-> "nobody", run |-> CreatedRun, attempt |-> NoAttempt]

NotSettling == [phase |-> "idle"]

AnswerStates == {"none", "committed", "settle", "unanswered", "answered"}

PgInit ==
  /\ Init
  /\ writing = [r \in Runs |-> NothingWritten]
  /\ settling = NotSettling
  /\ answer = [a \in Attempts |-> "none"]
  /\ overlapped = FALSE
  /\ failures = 0

-----------------------------------------------------------------------------
(* Locks and snapshots.                                                    *)

BatchFree == settling.phase = "idle"

Fences(r) == settling.phase # "idle" /\ r \in DOMAIN settling.run

Closing(r) == writing[r].by \in {"expiry", "cancel"}

RowsFreeUnlessWritten(r) == writing[r].by = "nobody"

RowsFree(r) == writing[r].by = "nobody" /\ ~Fences(r)

\* Statements set columns: a cancellation that was accepted in between stays.
WithRowsOf(s, r) ==
  [s EXCEPT !.run[r] = [writing[r].run EXCEPT !.cancel = @ \/ s.run[r].cancel],
            !.attempt = [a \in Attempts |->
               IF a = Latest(s, r)
               THEN [writing[r].attempt EXCEPT !.cancel = @ \/ s.attempt[a].cancel]
               ELSE s.attempt[a]]]

ChangedRuns(s, t) ==
  {r \in Runs : \/ s.run[r] # t.run[r]
                \/ \E n \in AttemptNumbers : s.attempt[<<r, n>>] # t.attempt[<<r, n>>]}

\* What the settling transaction sees, and what it leaves when it commits.
Over(rows, committed) ==
  [x \in DOMAIN committed |-> IF x \in DOMAIN rows THEN rows[x] ELSE committed[x]]

View ==
  [run |-> Over(settling.run, db.run), attempt |-> Over(settling.attempt, db.attempt),
   batch |-> settling.batch, recovery |-> settling.recovery]

-----------------------------------------------------------------------------
(* updateBatchStatus.                                                      *)

AdvancedUnlessTerminating(s) ==
  IF s.batch.status \in BatchTerminal THEN s
  ELSE IF s.batch.terminating THEN s
  ELSE IF s.batch.paused THEN s
  ELSE AdvanceRoundIfIdle(s)

\* Under the lock: a terminating batch closes what waits, so that a retry that
\* was decided before the termination is taken back; others may start a round.
FencedOrAdvanced(s) ==
  IF s.batch.status \in BatchTerminal THEN s
  ELSE IF s.batch.terminating THEN TerminateWaitingRuns(s)
  ELSE IF s.batch.paused THEN s
  ELSE AdvanceRoundIfIdle(s)

\* own: the runs whose rows the transaction by has written before.
LockBatch(by, s, own) ==
  LET t       == FencedOrAdvanced(s)
      changed == ChangedRuns(s, t) \cup own
  IN  /\ BatchFree
      /\ \A r \in ChangedRuns(s, t) \ own : writing[r].by = "nobody"
      /\ settling' = [phase |-> "locked", by |-> by, stale |-> FALSE,
                      run |-> [r \in changed |-> t.run[r]],
                      attempt |-> [a \in changed \X AttemptNumbers |-> t.attempt[a]],
                      batch |-> t.batch, recovery |-> t.recovery]
      /\ UNCHANGED <<db, writing, answer, overlapped, failures>>

AggregateUncommittedRows ==
  /\ settling.phase = "locked"
  /\ settling' =
       [settling EXCEPT
          !.phase = "aggregated",
          !.batch.status = IF @ \in BatchTerminal THEN @
                           ELSE AggregateStatus([View EXCEPT !.run = [r \in Runs |->
                                  IF writing[r].by = "nobody" \/ Fences(r) THEN @[r]
                                  ELSE writing[r].run]])]
  /\ UNCHANGED <<db, writing, answer, overlapped, failures>>

\* aggregateStoredBatchStatus, on a later snapshot than the fence's.
AggregateBatch ==
  /\ settling.phase = "locked"
  /\ settling' = [settling EXCEPT
                    !.phase = "aggregated",
                    !.batch.status = IF @ \in BatchTerminal THEN @ ELSE AggregateStatus(View)]
  /\ UNCHANGED <<db, writing, answer, overlapped, failures>>

CommitSettlement ==
  /\ settling.phase = "aggregated"
  /\ db' = View
  /\ settling' = NotSettling
  /\ writing' = [r \in Runs |-> IF settling.by = <<"close", r>> THEN NothingWritten
                                ELSE writing[r]]
  /\ answer' = [a \in Attempts |-> IF settling.by = <<"report", a>> THEN "answered"
                                   ELSE answer[a]]
  /\ UNCHANGED <<overlapped, failures>>

-----------------------------------------------------------------------------
(* completeAttempt.                                                        *)

\* openCompletion locks the attempt and the run and reads the batch's flags
\* without a lock: a termination may commit before the report does.
OpenReport(a, result) ==
  LET row == db.attempt[a]
      res == EffectiveResult(db, a, result)
  IN  /\ row.lease # "none" /\ row.receipt = "none" /\ ~IsLate(db, a)
      /\ row.status \in RunInFlight /\ row.assignment \in {"claimed", "running"}
      /\ RowsFree(a[1])
      /\ writing' = [writing EXCEPT ![a[1]] =
                       [by |-> "report", run |-> RunAfter(db, a[1], res.status, res.code),
                        attempt |-> [Ended(row, res.status, res.code, "completed", "released")
                                       EXCEPT !.receipt = "accepted"]]]
      /\ UNCHANGED <<db, settling, answer, overlapped, failures>>

CommitReport(a) ==
  /\ writing[a[1]].by = "report" /\ IsLatest(db, a)
  /\ db' = WithRowsOf(db, a[1])
  /\ writing' = [writing EXCEPT ![a[1]] = NothingWritten]
  /\ answer' = [answer EXCEPT ![a] = "committed"]
  /\ settling' = IF BatchFree THEN settling ELSE [settling EXCEPT !.stale = TRUE]
  /\ UNCHANGED <<overlapped, failures>>

LateReport(a) ==
  /\ RowsFree(a[1])
  /\ CompleteLate(a)
  /\ UNCHANGED <<writing, settling, answer, overlapped, failures>>

AnswerIfInFlight(a, inFlight) ==
  /\ answer' = [answer EXCEPT ![a] = IF inFlight # {} THEN "answered" ELSE "settle"]
  /\ overlapped' = \/ overlapped
                    \/ /\ inFlight # {} /\ ~BatchFree /\ settling.stale
                       /\ \A r \in inFlight : Fences(r)

\* commitWithInFlightPresence: the second half, on the snapshot after COMMIT.
LookForWorkInFlight(a) ==
  /\ answer[a] = "committed"
  /\ AnswerIfInFlight(a, RunsIn(db, RunInFlight))
  /\ UNCHANGED <<db, writing, settling, failures>>

RepeatAnsweredFromReceipt(a) ==
  /\ answer[a] = "unanswered" /\ RowsFree(a[1])
  /\ answer' = [answer EXCEPT ![a] = "answered"]
  /\ UNCHANGED <<db, writing, settling, overlapped, failures>>

\* The agent got no answer and reports again: repairBatchSettlementIfStalled.
RepeatReport(a) ==
  /\ answer[a] = "unanswered" /\ RowsFree(a[1])
  /\ IF db.batch.status \in BatchTerminal
     THEN answer' = [answer EXCEPT ![a] = "answered"] /\ UNCHANGED overlapped
     ELSE AnswerIfInFlight(a, RunsIn(db, RunInFlight))
  /\ UNCHANGED <<db, writing, settling, failures>>

SettleAfterReport(a) == answer[a] = "settle" /\ LockBatch(<<"report", a>>, db, {})

-----------------------------------------------------------------------------
(* recoverExpired and cancelRun: rows first, the batch afterwards.         *)

OpenClose(by, r, run, attempt) ==
  /\ RowsFree(r)
  /\ writing' = [writing EXCEPT ![r] = [by |-> by, run |-> run, attempt |-> attempt]]
  /\ UNCHANGED <<db, settling, answer, overlapped, failures>>

OpenExpiry(a, lease, code) ==
  OpenClose("expiry", a[1], RunAfter(db, a[1], "timed_out", code),
            Ended(db.attempt[a], "timed_out", code, "expired", lease))

OpenLeasedExpiry(a) ==
  LET row == db.attempt[a]
  IN  /\ row.lease = "active" /\ row.assignment \in {"claimed", "running"}
      /\ row.status \in RunInFlight /\ db.run[a[1]].status \in RunInFlight
      /\ db.batch.status \in BatchOpen
      /\ LeasedWorkOverdue(row)
      /\ OpenExpiry(a, "expired", ExpirationCode(row))

OpenUnclaimedExpiry(a) ==
  LET row == db.attempt[a]
  IN  /\ row.assignment = "pending" /\ "claim" \in row.due
      /\ row.status = "assigned" /\ db.run[a[1]].status = "assigned"
      /\ db.batch.status \in BatchOpen
      /\ OpenExpiry(a, row.lease, "runner")

\* The rows of a waiting run that is cancelled, and of its latest attempt.
CancelledRun(row) ==
  [RunEnded(row, "cancelled", "cancelled", "cancelled") EXCEPT !.cancel = TRUE]

CancelledAttempt(row) ==
  LET open  == row.assignment \in AssignmentOpen
      asg   == IF open THEN "cancelled" ELSE row.assignment
      lease == IF open /\ row.lease = "active" THEN "revoked" ELSE row.lease
      cut   == [row EXCEPT !.cancel = open \/ @, !.assignment = asg, !.lease = lease]
  IN  IF row.status \in AttemptTerminal THEN cut
      ELSE Ended(cut, "cancelled", "cancelled", asg, lease)

\* A run without an attempt has no rows but its own.
OpenCancel(r) ==
  /\ db.run[r].status \notin RunTerminal /\ ~HasLease(db, r)
  /\ OpenClose("cancel", r, CancelledRun(db.run[r]),
               IF db.run[r].attempts = 0 THEN NoAttempt
               ELSE CancelledAttempt(db.attempt[Latest(db, r)]))

SettleClose(r) ==
  /\ Closing(r)
  /\ LockBatch(<<"close", r>>, WithRowsOf(db, r), {r})

\* The scan of terminating batches, whose rows are all committed.
ScanTerminatingBatch ==
  /\ db.batch.terminating /\ db.batch.status \in BatchOpen
  /\ ~\E a \in Attempts : /\ db.attempt[a].status \in RunInFlight /\ Protected(db.attempt[a])
                          /\ db.run[a[1]].status \in RunInFlight
  /\ LockBatch(<<"scan">>, db, {})

-----------------------------------------------------------------------------
(* Transactions that lock what they change before they read it: one step.  *)

NothingOpenChanges == UNCHANGED <<writing, settling, answer, overlapped, failures>>

ReserveRuns(D) ==
  /\ BatchFree /\ \A r \in D : RowsFree(r)
  /\ ReserveAssignments(D)
  /\ NothingOpenChanges

\* claim: markBatchActiveOnClaim only ever makes an open batch running.
ClaimAssignments(S) ==
  /\ S # {} /\ ~db.batch.terminating /\ BatchFree
  /\ \A a \in S : /\ db.attempt[a].assignment = "pending" /\ "claim" \notin db.attempt[a].due
                  /\ RowsFree(a[1])
  /\ db' = [db EXCEPT
              !.attempt = [a \in Attempts |->
                 IF a \in S THEN [db.attempt[a] EXCEPT !.assignment = "claimed",
                                    !.lease = "active", !.status = "running"]
                 ELSE db.attempt[a]],
              !.run = [r \in Runs |->
                 IF \E a \in S : a[1] = r THEN [db.run[r] EXCEPT !.status = "running"]
                 ELSE db.run[r]],
              !.batch.status = IF @ \in BatchTerminal THEN @ ELSE "running"]
  /\ NothingOpenChanges

Renew(a) == RowsFree(a[1]) /\ RenewLease(a) /\ NothingOpenChanges

\* The clock was read before the lease lapsed, and the commit comes after it.
\* Whoever has read the lease as lapsed meanwhile does not read it again.
RenewInTime(a) ==
  /\ \/ writing[a[1]].by = "cancel"
     \/ writing[a[1]].by = "nobody" /\ Fences(a[1])
  /\ db.attempt[a].lease = "active" /\ "lease" \in db.attempt[a].due
  /\ db.attempt[a].assignment \in {"claimed", "running"}
  /\ db' = [db EXCEPT !.attempt[a] =
               [db.attempt[a] EXCEPT !.assignment = "running", !.due = @ \ {"lease"}]]
  /\ NothingOpenChanges

\* Reports, cancellations and fences hold the run; an expiry does not yet.
AskToCancel(r) ==
  /\ writing[r].by \in {"nobody", "expiry"} /\ ~Fences(r)
  /\ CancelLeasedRun(r)
  /\ NothingOpenChanges

Pause == BatchFree /\ PauseBatch /\ NothingOpenChanges

\* A statement waits for the rows it changes, and for no others.
Undisturbed == \A r \in ChangedRuns(db, db') : RowsFree(r)

Resume == BatchFree /\ ResumeBatch /\ Undisturbed /\ NothingOpenChanges

Terminate == BatchFree /\ TerminateBatch /\ Undisturbed /\ NothingOpenChanges

TimeOutInQueue(r) ==
  BatchFree /\ RowsFree(r) /\ QueueTimeout(r) /\ Undisturbed /\ NothingOpenChanges

Lapse(a, d) == d \in Lapsing /\ ReachDeadline(a, d) /\ NothingOpenChanges

LapseInQueue(r) == "queue" \in Lapsing /\ RowsFree(r) /\ ReachQueueDeadline(r) /\ NothingOpenChanges

-----------------------------------------------------------------------------
(* A connection is lost, a process ends, a deadlock is broken: what is not *)
(* committed is gone, and nobody but the agent knows of the report.        *)

Fail ==
  /\ failures < MaxFailures
  /\ failures' = failures + 1
  /\ UNCHANGED <<db, overlapped>>

FailRows(r) ==
  /\ writing[r].by # "nobody"
  /\ Fail
  /\ writing' = [writing EXCEPT ![r] = NothingWritten]
  /\ settling' = IF ~BatchFree /\ settling.by = <<"close", r>> THEN NotSettling ELSE settling
  /\ UNCHANGED answer

FailAfterCommit(a) ==
  /\ answer[a] \in {"committed", "settle"}
  /\ Fail
  /\ answer' = [answer EXCEPT ![a] = "unanswered"]
  /\ settling' = IF ~BatchFree /\ settling.by = <<"report", a>> THEN NotSettling ELSE settling
  /\ UNCHANGED writing

FailScan ==
  /\ ~BatchFree /\ settling.by = <<"scan">>
  /\ Fail
  /\ settling' = NotSettling
  /\ UNCHANGED <<writing, answer>>

\* Each of two closing transactions would fence the rows the other has written:
\* one is the victim, and is tried again by whoever runs it.
BreakDeadlock(r) ==
  /\ BatchFree /\ Closing(r)
  /\ \E q \in Runs \ {r} :
       Closing(q) /\ LET s == WithRowsOf(db, q)
                     IN  r \in ChangedRuns(s, FencedOrAdvanced(s))
  /\ writing' = [writing EXCEPT ![r] = NothingWritten]
  /\ UNCHANGED <<db, settling, answer, overlapped, failures>>

-----------------------------------------------------------------------------
PgNext ==
  \/ \E D \in SUBSET Runs : ReserveRuns(D)
  \/ \E S \in SUBSET {a \in Attempts : db.attempt[a].assignment = "pending"} :
       ClaimAssignments(S)
  \/ \E a \in Attempts : \/ Renew(a) \/ RenewInTime(a)
                         \/ \E result \in Results : OpenReport(a, result)
                         \/ CommitReport(a) \/ LateReport(a)
                         \/ LookForWorkInFlight(a) \/ RepeatReport(a)
                         \/ SettleAfterReport(a) \/ FailAfterCommit(a)
                         \/ OpenLeasedExpiry(a) \/ OpenUnclaimedExpiry(a)
                         \/ \E d \in Deadlines : Lapse(a, d)
  \/ \E r \in Runs : \/ OpenCancel(r) \/ SettleClose(r) \/ FailRows(r) \/ BreakDeadlock(r)
                     \/ AskToCancel(r) \/ TimeOutInQueue(r) \/ LapseInQueue(r)
  \/ AggregateBatch \/ CommitSettlement
  \/ ScanTerminatingBatch \/ FailScan
  \/ Pause \/ Resume \/ Terminate

PgSpec == PgInit /\ [][PgNext]_pgVars

-----------------------------------------------------------------------------
(* Safety.                                                                 *)

Rows == [by : {"nobody", "report", "expiry", "cancel"}, run : RunRow, attempt : AttemptRow]

\* What is committed has the shape of the tables, and so has what is not yet.
PgTypeOK ==
  /\ db \in Database
  /\ writing \in [Runs -> Rows]
  /\ ~BatchFree => View \in Database
  /\ answer \in [Attempts -> AnswerStates]
  /\ overlapped \in BOOLEAN /\ failures \in 0..MaxFailures

Quiet ==
  /\ BatchFree
  /\ \A r \in Runs : writing[r].by = "nobody"
  /\ \A a \in Attempts : answer[a] \in {"none", "answered"}

\* Nothing is left that would ever look at the batch again: it is closed if its
\* runs are over, and a round that is over has been followed by the next.
Settled ==
  /\ (\A r \in Runs : db.run[r].status \in RunTerminal) => db.batch.status \in BatchTerminal
  /\ RetryMode = "round" /\ RoundIdle(db) /\ ~db.batch.paused =>
       \E p \in StepsAfter(NextHeldRound(db) - 1) : db.recovery[p] \notin {"idle", "succeeded"}

\* A batch closes only over finished work, whoever closes it on whatever snapshot.
ClosedOnlyWhenSettled ==
  /\ PgTypeOK
  /\ db.batch.status \in BatchTerminal => \A r \in Runs : db.run[r].status \in RunTerminal

\* Reports commit without the lock of the batch and look afterwards: however
\* many end together, and whatever fails in between, the last one settles the
\* batch, unless it leaves that to a transaction which had decided already.
SettledUnlessOverlapped == Quiet /\ ~overlapped => Settled

\* postgres-execution-control.ts, commitWithInFlightPresence: the last report to
\* commit always sees nothing in flight and drives the batch to its end.
SettledWhenQuiet == Quiet => Settled

-----------------------------------------------------------------------------
(* Liveness.  Open transactions go on, unanswered agents report again, and *)
(* the scan of terminating batches comes every 5 s.  Row locks are granted *)
(* in turn, hence the strong fairness of who waits for the batch.          *)

Proceed ==
  \/ AggregateBatch \/ CommitSettlement
  \/ \E a \in Attempts : CommitReport(a) \/ LookForWorkInFlight(a)
  \/ \E r \in Runs : BreakDeadlock(r)

Settle ==
  \/ ScanTerminatingBatch
  \/ \E a \in Attempts : SettleAfterReport(a) \/ RepeatReport(a)
  \/ \E r \in Runs : SettleClose(r)

FairPgSpec == PgSpec /\ WF_pgVars(Proceed) /\ SF_pgVars(Settle)

\* A terminated batch closes once the leases lapse, although a report may have
\* put its run back to the queue on a flag it read before the termination.
TerminatedBatchCloses == LeasesLapse => (db.batch.terminating ~> db.batch.status \in BatchTerminal)
=============================================================================
