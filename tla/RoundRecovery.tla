------------------------------ MODULE RoundRecovery ------------------------------
(***************************************************************************)
(* The Jenkins steps that run between two rounds of a batch: the rows of   *)
(* run_batch_round_recoveries with their leases, the web processes that    *)
(* work on them (RoundRecoveryService) and the Jenkins jobs they rebuild.  *)
(* The status of a step is db.recovery, which ExecutionControl shares; its *)
(* steps interleave with these.                                            *)
(*                                                                         *)
(* A worker claims every due step at once and works on them concurrently.  *)
(* It reads a step when it claims it and never again: every later write    *)
(* carries the worker's name and the statuses it expects, and changes      *)
(* nothing if the row says otherwise.  Neither the expiry of the lease nor *)
(* the state of the batch is looked at again.                              *)
(***************************************************************************)
EXTENDS ExecutionControl

CONSTANTS
  Workers,            \* processes that run the recovery loop
  Name,               \* the lease owner each writes, web-<pid>-round-recovery
  MaxPollFailures,    \* MAX_CONSECUTIVE_POLL_FAILURES, 10 in the code
  MaxDisturbances,    \* crashes and database errors (a bound)
  MaxRebuilds,        \* how far rebuilds are counted (a bound)
  Stalls              \* whether a worker may outlive its 30 s lease

ASSUME RecoveryAssumption ==
  /\ IsFiniteSet(Workers) /\ "none" \notin {Name[w] : w \in Workers}
  /\ MaxPollFailures \in Nat /\ MaxDisturbances \in Nat /\ MaxRebuilds \in Nat
  /\ Stalls \in BOOLEAN

VARIABLES
  lease,              \* what a row says besides its status
  task,               \* where each worker is with each step
  rebuilds,           \* rebuilds Jenkins was asked for, per step
  disturbances        \* crashes and database errors so far

vars == <<db, lease, task, rebuilds, disturbances>>

RecoveryClosed == {"succeeded", "failed", "cancelled"}

\* The writes a worker may have to do, and the statuses each expects.
Expected ==
  [markTriggered   |-> {"pending", "polling"},
   markRunning     |-> {"pending", "polling"},
   markWaiting     |-> {"polling"},
   reject          |-> {"pending", "polling", "waiting"},
   fail            |-> {"pending", "polling", "waiting"},
   defer           |-> {"polling"},
   resume          |-> {"waiting"},
   completeRelease |-> {"releasing"},
   retryRelease    |-> {"releasing"}]

TaskSteps == {"none", "trigger", "inspect", "schedule"} \cup DOMAIN Expected

Free == [owner |-> "none", lapsed |-> FALSE, due |-> FALSE, failures |-> 0]

NoTask == [at |-> "none", failures |-> 0]

RecoveryInit ==
  /\ Init
  /\ lease = [p \in RecoverySteps |-> Free]
  /\ task = [w \in Workers |-> [p \in RecoverySteps |-> NoTask]]
  /\ rebuilds = [p \in RecoverySteps |-> 0]
  /\ disturbances = 0

-----------------------------------------------------------------------------
\* A row is free for the next claim: no lease, or one that ran out.
Unleased(p) == lease[p].owner = "none" \/ lease[p].lapsed

DueDespiteLease(p) ==
  /\ db.recovery[p] \in RecoveryActive /\ lease[p].due
  /\ db.batch.status \in BatchOpen /\ ~db.batch.terminating

DueUntilReleasing(p) ==
  /\ db.recovery[p] \in RecoveryActive \ {"releasing"} /\ lease[p].due /\ Unleased(p)
  /\ db.batch.status \in BatchOpen /\ ~db.batch.terminating

\* dueRows
Due(p) ==
  /\ db.recovery[p] \in RecoveryActive /\ lease[p].due /\ Unleased(p)
  /\ db.batch.status \in BatchOpen /\ ~db.batch.terminating

TriggeredUnlessKnown(status) ==
  CASE status = "polling" -> "inspect" [] status = "waiting" -> "resume" [] OTHER -> "trigger"

\* processClaim
FirstStep(status) ==
  CASE status = "pending"   -> "trigger"
    [] status = "polling"   -> "inspect"
    [] status = "waiting"   -> "resume"
    [] status = "releasing" -> "schedule"

\* A worker waits for all of its tasks before the next claim, except for those
\* it left behind because another one's error could not be written either.
ClaimDue(w) ==
  LET S == {p \in RecoverySteps : Due(p) /\ task[w][p].at = "none"}
  IN  /\ S # {}
      /\ lease' = [p \in RecoverySteps |->
                     IF p \in S THEN [lease[p] EXCEPT !.owner = Name[w], !.lapsed = FALSE]
                     ELSE lease[p]]
      /\ task' = [task EXCEPT ![w] = [p \in RecoverySteps |->
                     IF p \in S
                     THEN [at |-> FirstStep(db.recovery[p]), failures |-> lease[p].failures]
                     ELSE task[w][p]]]
      /\ UNCHANGED <<db, rebuilds, disturbances>>

-----------------------------------------------------------------------------
(* What a worker does with one step.                                       *)

Goto(w, p, at) ==
  task' = [task EXCEPT ![w][p] = IF at = "none" THEN NoTask ELSE [@ EXCEPT !.at = at]]

\* Where an exception leads: the catch blocks of processClaim and releaseRound.
ErrorPath(t) ==
  CASE t.at \in {"inspect", "markRunning", "markWaiting", "reject"} ->
         IF t.failures < MaxPollFailures THEN "defer" ELSE "fail"
    [] t.at \in {"schedule", "completeRelease"} -> "retryRelease"
    [] t.at \in {"trigger", "markTriggered", "resume", "retryRelease"} -> "fail"
    [] OTHER -> "none"

Disturb == disturbances < MaxDisturbances /\ disturbances' = disturbances + 1

HoldsByName(w, p) == lease[p].owner = Name[w]

\* The condition of every conditional UPDATE of the repository.
Holds(w, p) ==
  lease[p].owner = Name[w] /\ db.recovery[p] \in Expected[task[w][p].at]

\* An update that matches no row ends the task without a trace.
ClaimLost(w, p) ==
  /\ task[w][p].at \in DOMAIN Expected /\ ~Holds(w, p)
  /\ Goto(w, p, "none")
  /\ UNCHANGED <<db, lease, rebuilds, disturbances>>

\* The event written after a successful update may fail: the catch block then
\* acts on a step the worker has already given back.
Recorded(w, p) ==
  \/ Goto(w, p, "none") /\ UNCHANGED disturbances
  \/ Disturb /\ Goto(w, p, IF task[w][p].at = "completeRelease" THEN "fail"
                          ELSE ErrorPath(task[w][p]))

MoreRebuilds(p) ==
  [rebuilds EXCEPT ![p] = IF @ < MaxRebuilds THEN @ + 1 ELSE @]

\* A request that fails may have reached Jenkins all the same.
Trigger(w, p) ==
  /\ task[w][p].at = "trigger"
  /\ \/ rebuilds' = MoreRebuilds(p) /\ Goto(w, p, "markTriggered")
     \/ rebuilds' \in {rebuilds, MoreRebuilds(p)} /\ Goto(w, p, "fail")
  /\ UNCHANGED <<db, lease, disturbances>>

\* The rebuild is not found yet, or still runs; or the request fails.
InspectUndecided(w, p) ==
  /\ task[w][p].at = "inspect"
  /\ \E at \in {"markRunning", ErrorPath(task[w][p])} : Goto(w, p, at)
  /\ UNCHANGED <<db, lease, rebuilds, disturbances>>

InspectDecided(w, p) ==
  /\ task[w][p].at = "inspect"
  /\ \E at \in {"markWaiting", "reject"} : Goto(w, p, at)
  /\ UNCHANGED <<db, lease, rebuilds, disturbances>>

\* markPolling and markWaiting give the step back until its next look is due.
Mark(w, p) ==
  LET at == task[w][p].at
  IN  /\ at \in {"markTriggered", "markRunning", "markWaiting"} /\ Holds(w, p)
      /\ db' = [db EXCEPT !.recovery[p] = IF at = "markWaiting" THEN "waiting" ELSE "polling"]
      /\ lease' = [lease EXCEPT ![p] = Free]
      /\ Recorded(w, p)
      /\ UNCHANGED rebuilds

DeferPollingFailure(w, p) ==
  /\ task[w][p].at = "defer" /\ Holds(w, p)
  /\ lease' = [lease EXCEPT ![p] = [Free EXCEPT !.failures = lease[p].failures + 1]]
  /\ Recorded(w, p)
  /\ UNCHANGED <<db, rebuilds>>

LastWaiting(p) == \A q \in StepsAfter(AfterRound[p]) \ {p} : db.recovery[q] # "waiting"

\* The other steps of the same round have all succeeded.
LastOfRound(p) == \A q \in StepsAfter(AfterRound[p]) \ {p} : db.recovery[q] = "succeeded"

\* The last step of a round releases the next one and stays leased until the
\* scheduler has been called.
CompleteWaitingStep(w, p) ==
  /\ task[w][p].at = "resume" /\ Holds(w, p)
  /\ \/ /\ ~LastOfRound(p)
        /\ db' = [db EXCEPT !.recovery[p] = "succeeded"]
        /\ lease' = [lease EXCEPT ![p].owner = "none", ![p].lapsed = FALSE]
        /\ Recorded(w, p)
     \/ /\ LastOfRound(p)
        /\ db' = ReleaseRound([db EXCEPT !.recovery[p] = "releasing"], AfterRound[p] + 1)
        /\ Goto(w, p, "schedule")
        /\ UNCHANGED <<lease, disturbances>>
  /\ UNCHANGED rebuilds

\* A pass of the scheduler: it reserves, or finds nothing to reserve.
Schedule(w, p) ==
  /\ task[w][p].at = "schedule"
  /\ UNCHANGED db \/ \E D \in SUBSET Runs : ReserveAssignments(D)
  /\ Goto(w, p, "completeRelease")
  /\ UNCHANGED <<lease, rebuilds, disturbances>>

CompleteRoundRelease(w, p) ==
  /\ task[w][p].at = "completeRelease" /\ Holds(w, p)
  /\ db' = [db EXCEPT !.recovery[p] = "succeeded"]
  /\ lease' = [lease EXCEPT ![p].owner = "none", ![p].lapsed = FALSE]
  /\ Recorded(w, p)
  /\ UNCHANGED rebuilds

RetryRoundRelease(w, p) ==
  /\ task[w][p].at = "retryRelease" /\ Holds(w, p)
  /\ lease' = [lease EXCEPT ![p].owner = "none", ![p].lapsed = FALSE, ![p].due = FALSE]
  /\ Goto(w, p, "none")
  /\ UNCHANGED <<db, rebuilds, disturbances>>

\* A failed step ends the runs that wait behind it, and with them the batch.
Failed(s, p) ==
  [s EXCEPT
     !.recovery[p] = "failed",
     !.run = [r \in Runs |->
                IF r \in HeldRuns(s)
                THEN [RunEnded(s.run[r], "failed", "failed", "abnormal") EXCEPT !.held = 0]
                ELSE s.run[r]],
     !.batch.status = IF @ \in BatchTerminal THEN @ ELSE "failed"]

Fail(w, p) ==
  /\ task[w][p].at \in {"reject", "fail"} /\ Holds(w, p)
  /\ db' = Failed(db, p)
  /\ lease' = [lease EXCEPT ![p].owner = "none", ![p].lapsed = FALSE]
  /\ Recorded(w, p)
  /\ UNCHANGED rebuilds

\* A database error, or one of the scheduler, before anything was committed.
Throws(w, p) ==
  /\ task[w][p].at \in {"schedule"} \cup DOMAIN Expected
  /\ Disturb /\ Goto(w, p, ErrorPath(task[w][p]))
  /\ UNCHANGED <<db, lease, rebuilds>>

\* Restarted, it may get the name it had: process ids repeat in a container.
Crash(w) ==
  /\ \E p \in RecoverySteps : task[w][p].at # "none"
  /\ Disturb
  /\ task' = [task EXCEPT ![w] = [p \in RecoverySteps |-> NoTask]]
  /\ UNCHANGED <<db, lease, rebuilds>>

-----------------------------------------------------------------------------
(* Time, and the control plane.                                            *)

\* A worker that does not stall is done in 30 s: two requests of 10 s at most.
LeaseLapses(p) ==
  /\ lease[p].owner # "none" /\ ~lease[p].lapsed
  /\ Stalls \/ \A w \in Workers : Name[w] = lease[p].owner => task[w][p].at = "none"
  /\ lease' = [lease EXCEPT ![p].lapsed = TRUE]
  /\ UNCHANGED <<db, task, rebuilds, disturbances>>

StepComesDue(p) ==
  /\ db.recovery[p] \in RecoveryActive /\ ~lease[p].due
  /\ lease' = [lease EXCEPT ![p].due = TRUE]
  /\ UNCHANGED <<db, task, rebuilds, disturbances>>

\* A round that ends makes its steps due; a termination takes their leases.
ControlStep ==
  /\ Next
  /\ lease' = [p \in RecoverySteps |->
                 IF db.recovery[p] # "pending" /\ db'.recovery[p] = "pending"
                 THEN [lease[p] EXCEPT !.due = TRUE]
                 ELSE IF db.recovery[p] # "cancelled" /\ db'.recovery[p] = "cancelled"
                 THEN [lease[p] EXCEPT !.owner = "none", !.lapsed = FALSE]
                 ELSE lease[p]]
  /\ UNCHANGED <<task, rebuilds, disturbances>>

TaskStep(w, p) ==
  \/ Trigger(w, p)
  \/ InspectUndecided(w, p)
  \/ InspectDecided(w, p)
  \/ Mark(w, p)
  \/ DeferPollingFailure(w, p)
  \/ CompleteWaitingStep(w, p)
  \/ Schedule(w, p)
  \/ CompleteRoundRelease(w, p)
  \/ RetryRoundRelease(w, p)
  \/ Fail(w, p)
  \/ ClaimLost(w, p)

RecoveryNext ==
  \/ ControlStep
  \/ \E w \in Workers : \/ ClaimDue(w)
                        \/ Crash(w)
                        \/ \E p \in RecoverySteps : TaskStep(w, p) \/ Throws(w, p)
  \/ \E p \in RecoverySteps : LeaseLapses(p) \/ StepComesDue(p)

RecoverySpec == RecoveryInit /\ [][RecoveryNext]_vars

-----------------------------------------------------------------------------
(* Safety.                                                                 *)

\* The shape of a row of the recovery table and of a worker's task.
RecoveryTypeOK ==
  /\ db \in Database
  /\ lease \in [RecoverySteps ->
                  [owner : {"none"} \cup {Name[w] : w \in Workers}, lapsed : BOOLEAN,
                   due : BOOLEAN, failures : 0 .. MaxPollFailures + Cardinality(Workers)]]
  /\ task \in [Workers -> [RecoverySteps ->
                  [at : TaskSteps, failures : 0 .. MaxPollFailures + Cardinality(Workers)]]]
  /\ rebuilds \in [RecoverySteps -> 0 .. MaxRebuilds]
  /\ disturbances \in 0 .. MaxDisturbances

\* A round begins only when every step before it has succeeded, the last of
\* them perhaps still handing over; only that one is ever in the handover.
ReleaseGate ==
  /\ RecoveryTypeOK
  /\ \A p \in RecoverySteps :
      /\ AfterRound[p] < db.batch.round =>
           db.recovery[p] \in {"succeeded", "releasing", "cancelled"}
      /\ db.recovery[p] = "releasing" =>
           /\ AfterRound[p] < db.batch.round
           /\ \A q \in StepsAfter(AfterRound[p]) \ {p} : db.recovery[q] = "succeeded"

\* What ends a batch ends its recovery for good: a failed step closes the batch
\* and leaves no run behind it, terminating ends all steps, and a worker that was
\* talking to Jenkins at that moment neither reopens a step nor releases the round
\* (fail, terminateBatch, the conditions of the repository's updates).
EndingsStand ==
  /\ \A p \in RecoverySteps : db.recovery[p] = "failed" =>
       /\ db.batch.status \in BatchTerminal
       /\ HeldRuns(db) = {}
       /\ db.batch.round <= AfterRound[p]
  /\ db.batch.terminating => \A p \in RecoverySteps : db.recovery[p] \in RecoveryClosed

-----------------------------------------------------------------------------
(* What holds as long as leases are not outlived and names not shared.     *)

\* Jenkins is asked for more than one rebuild of a step only when a crash or
\* a database error hid that it had been asked before.
RebuildOnce == \A p \in RecoverySteps : rebuilds[p] <= 1 + disturbances

\* Once the build is known to have succeeded Jenkins is left alone, even if
\* the process is restarted during the handover (docs/manuals/user.md:378).
NoRebuildAfterSuccess ==
  [][ \A p \in RecoverySteps :
        db.recovery[p] \in {"waiting", "releasing", "succeeded"} => rebuilds'[p] = rebuilds[p] ]_vars

-----------------------------------------------------------------------------
(* Liveness.  Workers run their loop, leases and waits run out, and every  *)
(* Jenkins build ends some day.                                            *)

FairRecovery ==
  /\ RecoverySpec
  /\ \A w \in Workers : WF_vars(ClaimDue(w))
  /\ \A w \in Workers, p \in RecoverySteps : WF_vars(TaskStep(w, p))
  /\ \A p \in RecoverySteps :
       /\ WF_vars(LeaseLapses(p)) /\ WF_vars(StepComesDue(p))
       /\ SF_vars(\E w \in Workers : InspectDecided(w, p))

\* A round held back by a step goes on, or its batch ends; crashes during the
\* handover do not leave it hanging.
BarrierOpens ==
  \A p \in RecoverySteps :
    db.recovery[p] \in RecoveryActive ~>
      \/ db.batch.status \in BatchTerminal
      \/ db.batch.round > AfterRound[p] /\ db.recovery[p] \in RecoveryClosed
=============================================================================
