------------------------- MODULE ExecutionControlProofs -------------------------
(***************************************************************************)
(* Proofs about ExecutionControl.  Transactions are functions from one     *)
(* database to the next, so most lemmas here say what such a function      *)
(* preserves: Consistent holds inside a transaction too, after each of the *)
(* steps that several of them share.  The actions then follow one by one.  *)
(***************************************************************************)
EXTENDS ExecutionControl, TLAPS

AttemptStatuses == {"absent"} \cup RunInFlight \cup AttemptTerminal
Assignments     == {"none", "completed", "cancelled", "expired"} \cup AssignmentOpen
Leases          == {"none", "active", "released", "expired", "revoked"}
RunStatuses     == {"queued"} \cup RunInFlight \cup RunTerminal
BatchStatuses   == BatchOpen \cup BatchTerminal

\* What the columns of one attempt's rows say of each other.
RowShape(row) ==
  /\ row.status = "absent" => row = NoAttempt
  /\ row.status = "assigned" =>
       row.assignment = "pending" /\ row.lease = "none" /\ row.receipt = "none"
  /\ row.status = "running" =>
       /\ row.assignment \in {"claimed", "running"}
       /\ row.lease = "active" /\ row.receipt # "accepted"
  /\ row.status \in AttemptTerminal =>
       /\ row.assignment \in {"completed", "cancelled", "expired"} /\ row.lease # "active"
       /\ row.receipt = "accepted" <=> row.assignment = "completed"
       /\ row.receipt = "accepted" => row.lease = "released"

\* Only the latest attempt of a run in flight is in flight.
RowsAgree(s) ==
  \A r \in Runs :
    /\ s.run[r].attempts # 0 =>
         /\ s.run[r].attempts \in AttemptNumbers
         /\ s.attempt[<<r, s.run[r].attempts>>].status # "absent"
    /\ s.run[r].status \in RunInFlight =>
         /\ s.run[r].attempts \in AttemptNumbers
         /\ s.attempt[<<r, s.run[r].attempts>>].status = s.run[r].status
    /\ \A n \in AttemptNumbers : s.attempt[<<r, n>>].status \in RunInFlight =>
         n = s.run[r].attempts /\ s.run[r].status \in RunInFlight

\* RoundBarrier inside a transaction, and no run is held in immediate mode.
RoundsAgree(s) ==
  \A r \in Runs : s.run[r].status \notin RunTerminal =>
    IF s.run[r].held = 0 THEN RetryMode = "round" => s.run[r].round = s.batch.round
    ELSE /\ RetryMode = "round" /\ s.run[r].status = "queued"
         /\ s.run[r].held = s.batch.round + 1 /\ s.run[r].round = s.run[r].held

\* A run that is over waits for nothing.
DueAgrees(s) == \A r \in Runs : s.run[r].queueDue => s.run[r].status \notin RunTerminal

Consistent(s) ==
  /\ s \in Database
  /\ \A r \in Runs, n \in AttemptNumbers : RowShape(s.attempt[<<r, n>>])
  /\ RowsAgree(s)
  /\ RoundsAgree(s)
  /\ DueAgrees(s)

AllSettled(s) == \A r \in Runs : s.run[r].status \in RunTerminal

\* What holds between transactions: the inductive invariant.
Inv(s) ==
  /\ Consistent(s)
  /\ s.batch.status \in BatchTerminal <=> AllSettled(s)
  /\ s.batch.terminating => \A r \in Runs : s.run[r].status \in {"running"} \cup RunTerminal

-----------------------------------------------------------------------------
(* What a transaction does to the rows it finds: it makes t of s with      *)
(* Moves(s, t), or it is a reservation and Reserves(s, t, D) for some D.   *)

FailedStatuses == {"failed", "timed_out"}

\* The end of an attempt in flight.  A valid lease is taken away only by its
\* own report or because a window was overrun.
Ends(old, new) ==
  /\ old.status \in RunInFlight /\ new.status \in AttemptTerminal
  /\ new.receipt = old.receipt \/ old.receipt = "none"
  /\ Leased(old) => \/ new.receipt = "accepted"
                    \/ new.lease = "expired" /\ old.due \cap {"execution", "upload"} # {}

\* A row keeps its state and its first receipt, or starts to run, or ends.
AttemptStep(old, new) ==
  \/ /\ new.status = old.status /\ new.code = old.code /\ new.lease = old.lease
     /\ new.receipt = old.receipt \/ old.receipt = "none"
  \/ /\ old.status = "assigned" /\ new.status = "running"
     /\ new.lease = "active" /\ new.receipt = old.receipt
  \/ Ends(old, new)

\* A run is put back only by a failure of its latest attempt that its budget
\* still allowed.
PutBack(s, t, r) ==
  /\ s.run[r].status \in RunInFlight /\ t.run[r].status = "queued"
  /\ LET row == t.attempt[<<r, s.run[r].attempts>>]
     IN  /\ row.status \in FailedStatuses /\ row.code \in CodeClasses
         /\ RetryAllowed(s, r, row.code)

\* CancellationDecides, of one run.
Honoured(row) == row.cancel => row.status \in {"running", "cancelled"}

RunStep(s, t, r) ==
  /\ t.run[r].attempts = s.run[r].attempts
  /\ Honoured(s.run[r]) => Honoured(t.run[r])
  /\ s.run[r].status \in RunTerminal => t.run[r] = s.run[r]
  /\ s.batch.paused /\ t.batch.paused /\ s.run[r].status = "queued" => t.run[r].status # "failed"
  /\ t.run[r].status \notin RunTerminal =>
       \/ s.run[r].status \in RunInFlight <=> t.run[r].status \in RunInFlight
       \/ PutBack(s, t, r)

\* VerdictMatchesRuns inside a transaction.
Verdict(s) ==
  s.batch.status \in BatchTerminal =>
    /\ s.batch.terminating => s.batch.status = "cancelled"
    /\ s.batch.status = "succeeded" =>
         \A r \in Runs : /\ s.run[r].status # "cancelled"
                         /\ s.run[r].status = "failed" => ~Blocked(s.run[r].reason)

BatchStep(s, t) ==
  /\ s.batch.status \in BatchTerminal =>
       t.batch.status = s.batch.status /\ t.batch.terminating = s.batch.terminating
  /\ s.batch.status \in BatchOpen => Verdict(t)
  /\ s.batch.paused /\ t.batch.paused =>
       /\ t.batch.round = s.batch.round
       /\ \A p \in RecoverySteps : s.recovery[p] = "idle" => t.recovery[p] # "pending"

Moves(s, t) ==
  /\ \A a \in Attempts : AttemptStep(s.attempt[a], t.attempt[a])
  /\ \A r \in Runs : RunStep(s, t, r)
  /\ BatchStep(s, t)

\* New work for the runs D, each with an attempt of its own.
Reserves(s, t, D) ==
  /\ \A r \in D : /\ s.run[r].status = "queued" /\ t.run[r].status = "assigned"
                 /\ t.run[r].attempts = s.run[r].attempts + 1
                 /\ t.run[r].cancel = s.run[r].cancel
  /\ \A r \in Runs \ D : t.run[r] = s.run[r]
  /\ \A r \in Runs, n \in AttemptNumbers :
       IF r \in D /\ n = s.run[r].attempts + 1 THEN t.attempt[<<r, n>>].status = "assigned"
       ELSE t.attempt[<<r, n>>] = s.attempt[<<r, n>>]
  /\ s.batch.status \in BatchOpen /\ ~s.batch.paused /\ t.batch.status \notin BatchTerminal
  /\ D # {} => Cardinality(D) <= FreeSlots(s)

-----------------------------------------------------------------------------
(* Rows.                                                                   *)

\* An attempt that ends stays a row of its table.
LEMMA EndedType ==
  ASSUME NEW row \in AttemptRow, NEW st \in AttemptTerminal, NEW c \in CodeClasses,
         NEW asg \in Assignments, NEW l \in Leases
  PROVE  /\ Ended(row, st, c, asg, l) \in AttemptRow
         /\ Ended(row, st, c, asg, l).status = st
         /\ Ended(row, st, c, asg, l).code = c
         /\ Ended(row, st, c, asg, l).assignment = asg
         /\ Ended(row, st, c, asg, l).lease = l
         /\ Ended(row, st, c, asg, l).receipt = row.receipt
<1> DEFINE closed == [row EXCEPT !.status = st, !.code = c]
           unassigned == [closed EXCEPT !.assignment = asg]
           left == [unassigned EXCEPT !.lease = l]
<1>1. /\ closed \in AttemptRow /\ closed.status = st /\ closed.receipt = row.receipt
      /\ closed.code = c
  BY DEF AttemptRow
<1>2. /\ unassigned \in AttemptRow /\ unassigned.status = st
      /\ unassigned.receipt = row.receipt /\ unassigned.assignment = asg
      /\ unassigned.code = c
  <2> HIDE DEF closed
  <2> QED  BY <1>1 DEF AttemptRow, Assignments
<1>3. /\ left \in AttemptRow /\ left.status = st /\ left.receipt = row.receipt
      /\ left.assignment = asg /\ left.lease = l /\ left.code = c
  <2> HIDE DEF unassigned
  <2> QED  BY <1>2 DEF AttemptRow, Leases
<1>4. Ended(row, st, c, asg, l) = [left EXCEPT !.uploading = FALSE, !.due = {}]
  BY DEF Ended
<1> HIDE DEF left
<1> QED  BY <1>3, <1>4 DEF AttemptRow

\* A run that ends keeps everything but its status, outcome and reason.
LEMMA RunEndedType ==
  ASSUME NEW row \in RunRow, NEW st \in RunStatuses, NEW o \in AttemptTerminal,
         NEW c \in CodeClasses
  PROVE  /\ RunEnded(row, st, o, c) \in RunRow
         /\ RunEnded(row, st, o, c).status = st
         /\ RunEnded(row, st, o, c).attempts = row.attempts
         /\ RunEnded(row, st, o, c).round = row.round
         /\ RunEnded(row, st, o, c).held = row.held
         /\ RunEnded(row, st, o, c).cancel = row.cancel
  BY DEF RunRow, RunEnded, RunStatuses

\* A run that ends leaves its queue window.
LEMMA RunEndedDue ==
  ASSUME NEW row \in RunRow, NEW st, NEW o, NEW c
  PROVE  ~RunEnded(row, st, o, c).queueDue
  BY DEF RunRow, RunEnded

\* What ending an attempt writes are words of the schema.
LEMMA Words ==
  /\ "cancelled" \in AttemptTerminal /\ "cancelled" \in CodeClasses
  /\ "cancelled" \in RunStatuses /\ "cancelled" \in Assignments /\ "revoked" \in Leases
  /\ "timed_out" \in AttemptTerminal /\ "abnormal" \in CodeClasses /\ "runner" \in CodeClasses
  /\ "failed" \in RunStatuses /\ "expired" \in Assignments /\ "expired" \in Leases
  /\ "completed" \in Assignments /\ "released" \in Leases /\ "none" \in Leases
  BY DEF AttemptTerminal, CodeClasses, RunStatuses, RunTerminal, Assignments, Leases

\* A run that is cancelled.
LEMMA RunCancelled ==
  ASSUME NEW row \in RunRow
  PROVE  LET e == RunEnded(row, "cancelled", "cancelled", "cancelled")
         IN  e \in RunRow /\ e.status = "cancelled" /\ e.attempts = row.attempts
<1> DEFINE e == RunEnded(row, "cancelled", "cancelled", "cancelled")
<1>1. /\ "cancelled" \in RunStatuses /\ "cancelled" \in AttemptTerminal
      /\ "cancelled" \in CodeClasses
  BY Words
<1>2. \A st \in RunStatuses, o \in AttemptTerminal, c \in CodeClasses :
        /\ RunEnded(row, st, o, c) \in RunRow
        /\ RunEnded(row, st, o, c).status = st
        /\ RunEnded(row, st, o, c).attempts = row.attempts
  BY RunEndedType
<1> QED BY <1>1, <1>2, Zenon

\* Closing waiting work touches only attempts in flight without a valid lease.
LEMMA WaitingClosedShape ==
  ASSUME NEW row \in AttemptRow, RowShape(row)
  PROVE  /\ WaitingClosed(row) \in AttemptRow
         /\ RowShape(WaitingClosed(row))
         /\ row.status \in RunInFlight /\ ~Protected(row) =>
              WaitingClosed(row).status = "cancelled"
         /\ ~(row.status \in RunInFlight /\ ~Protected(row)) => WaitingClosed(row) = row
         /\ WaitingClosed(row).receipt = row.receipt
<1>1. CASE row.status \in RunInFlight /\ ~Protected(row)
  <2> DEFINE l == IF row.lease = "active" THEN "revoked" ELSE row.lease
  <2>1. WaitingClosed(row) = Ended(row, "cancelled", "cancelled", "cancelled", l)
    BY <1>1 DEF WaitingClosed, RowShape, RunInFlight, AssignmentOpen
  <2>2. l \in {"none", "revoked"} /\ row.receipt # "accepted" /\ l \in Leases
    BY <1>1 DEF RowShape, RunInFlight, Leases
  <2> HIDE DEF l
  <2>3. /\ Ended(row, "cancelled", "cancelled", "cancelled", l) \in AttemptRow
        /\ Ended(row, "cancelled", "cancelled", "cancelled", l).status = "cancelled"
        /\ Ended(row, "cancelled", "cancelled", "cancelled", l).assignment = "cancelled"
        /\ Ended(row, "cancelled", "cancelled", "cancelled", l).lease = l
        /\ Ended(row, "cancelled", "cancelled", "cancelled", l).receipt = row.receipt
    BY <2>2, Words, EndedType
  <2> QED BY <1>1, <2>1, <2>2, <2>3 DEF RowShape, AttemptTerminal
<1>2. CASE ~(row.status \in RunInFlight /\ ~Protected(row))
  <2>1. /\ ~(row.assignment \in AssignmentOpen /\ ~Protected(row))
        /\ ~(row.lease = "active" /\ row.assignment = "cancelled")
    BY <1>2 DEF RowShape, AttemptRow, RunInFlight, AttemptTerminal, AssignmentOpen, NoAttempt
  <2>2. WaitingClosed(row) = [row EXCEPT !.assignment = row.assignment, !.lease = row.lease]
    BY <1>2, <2>1 DEF WaitingClosed
  <2>3. WaitingClosed(row) = row
    BY <2>2 DEF AttemptRow
  <2> QED BY <1>2, <2>3
<1> QED BY <1>1, <1>2

-----------------------------------------------------------------------------
(* Steps that several transactions share.                                  *)

\* Terminating leaves claimed work with its attempt and closes the rest.
LEMMA TerminateWaitingRunsConsistent ==
  ASSUME NEW s, Consistent(s)
  PROVE  /\ Consistent(TerminateWaitingRuns(s))
         /\ TerminateWaitingRuns(s).batch = s.batch
         /\ \A r \in Runs :
              /\ s.run[r].status \in RunTerminal =>
                   TerminateWaitingRuns(s).run[r] = s.run[r]
              /\ s.run[r].status \in RunTerminal \cup {"running"} \/
                   TerminateWaitingRuns(s).run[r].status = "cancelled"
              /\ TerminateWaitingRuns(s).run[r].status \in RunTerminal \cup {"running"}
<1> DEFINE g == [a \in Attempts |-> WaitingClosed(s.attempt[a])]
           Kept(r) == s.run[r].status \in RunTerminal \/ HasProtectedAttempt(s, r)
           Cut(r) == [RunEnded(s.run[r], "cancelled", "cancelled", "cancelled")
                        EXCEPT !.cancel = TRUE]
           f == [r \in Runs |-> IF Kept(r) THEN s.run[r] ELSE Cut(r)]
           t == TerminateWaitingRuns(s)
<1>1. /\ s \in Database /\ s.run \in [Runs -> RunRow] /\ s.attempt \in [Attempts -> AttemptRow]
      /\ \A r \in Runs, n \in AttemptNumbers :
           <<r, n>> \in Attempts /\ s.attempt[<<r, n>>] \in AttemptRow
      /\ \A r \in Runs : s.run[r] \in RunRow
  BY DEF Consistent, Database, Attempts
<1>2. \A a \in Attempts : RowShape(s.attempt[a])
  BY DEF Consistent, Attempts
<1>3. g \in [Attempts -> AttemptRow]
  BY <1>1, <1>2, WaitingClosedShape
<1>4. \A r \in Runs : /\ Cut(r) \in RunRow /\ Cut(r).status = "cancelled"
                      /\ Cut(r).attempts = s.run[r].attempts /\ ~Cut(r).queueDue
  <2> SUFFICES ASSUME NEW r \in Runs
               PROVE /\ Cut(r) \in RunRow /\ Cut(r).status = "cancelled"
                     /\ Cut(r).attempts = s.run[r].attempts /\ ~Cut(r).queueDue
    OBVIOUS
  <2> DEFINE e == RunEnded(s.run[r], "cancelled", "cancelled", "cancelled")
  <2>1. e \in RunRow /\ e.status = "cancelled" /\ e.attempts = s.run[r].attempts
    BY <1>1, RunCancelled
  <2>2. ~e.queueDue
    BY <1>1, RunEndedDue
  <2> HIDE DEF e
  <2>3. /\ [e EXCEPT !.cancel = TRUE] \in RunRow
        /\ [e EXCEPT !.cancel = TRUE].status = e.status
        /\ [e EXCEPT !.cancel = TRUE].attempts = e.attempts
        /\ [e EXCEPT !.cancel = TRUE].queueDue = e.queueDue
    BY <2>1 DEF RunRow
  <2> QED BY <2>1, <2>2, <2>3 DEF e
<1>5. f \in [Runs -> RunRow]
  <2> HIDE DEF Kept, Cut
  <2> QED BY <1>1, <1>4
<1>6. t = [s EXCEPT !.attempt = g, !.run = f]
  BY DEF TerminateWaitingRuns
<1>7. /\ t \in Database /\ t.run = f /\ t.attempt = g /\ t.batch = s.batch
  <2> HIDE DEF f, g, t
  <2>1. /\ [s EXCEPT !.attempt = g, !.run = f] \in Database
        /\ [s EXCEPT !.attempt = g, !.run = f].run = f
        /\ [s EXCEPT !.attempt = g, !.run = f].attempt = g
        /\ [s EXCEPT !.attempt = g, !.run = f].batch = s.batch
    BY <1>1, <1>3, <1>5 DEF Database
  <2> QED BY <1>6, <2>1
<1> HIDE DEF Cut, t
<1>8. \A r \in Runs : t.run[r] = IF Kept(r) THEN s.run[r] ELSE Cut(r)
  BY <1>7
<1>9. \A r \in Runs, n \in AttemptNumbers : t.attempt[<<r, n>>] = WaitingClosed(s.attempt[<<r, n>>])
  BY <1>1, <1>7
<1> HIDE DEF f, g
<1>10. \A r \in Runs, n \in AttemptNumbers : RowShape(t.attempt[<<r, n>>])
  BY <1>1, <1>2, <1>9, WaitingClosedShape
\* An attempt stays in flight exactly if it was, under a valid lease.
<1>11. \A r \in Runs, n \in AttemptNumbers :
         /\ t.attempt[<<r, n>>].status \in RunInFlight <=>
              s.attempt[<<r, n>>].status \in RunInFlight /\ Protected(s.attempt[<<r, n>>])
         /\ t.attempt[<<r, n>>].status \in RunInFlight => t.attempt[<<r, n>>] = s.attempt[<<r, n>>]
         /\ t.attempt[<<r, n>>].status = "absent" => s.attempt[<<r, n>>].status = "absent"
  <2> SUFFICES ASSUME NEW r \in Runs, NEW n \in AttemptNumbers
               PROVE  LET old == s.attempt[<<r, n>>]
                          new == t.attempt[<<r, n>>]
                      IN  /\ new.status \in RunInFlight <=>
                               old.status \in RunInFlight /\ Protected(old)
                          /\ new.status \in RunInFlight => new = old
                          /\ new.status = "absent" => old.status = "absent"
    OBVIOUS
  <2>1. /\ s.attempt[<<r, n>>] \in AttemptRow /\ RowShape(s.attempt[<<r, n>>])
        /\ t.attempt[<<r, n>>] = WaitingClosed(s.attempt[<<r, n>>])
    BY <1>1, <1>2, <1>9
  <2> QED BY <2>1, WaitingClosedShape DEF RunInFlight
<1>12. \A r \in Runs : HasProtectedAttempt(s, r) =>
         /\ s.run[r].status = "running" /\ s.run[r].attempts \in AttemptNumbers
         /\ Protected(s.attempt[<<r, s.run[r].attempts>>])
  BY <1>1 DEF HasProtectedAttempt, Consistent, RowsAgree, RowShape, Protected, RunInFlight
<1>13. RowsAgree(t)
  <2>1. RowsAgree(s)
    BY DEF Consistent
  <2>2. SUFFICES ASSUME NEW r \in Runs
        PROVE  /\ t.run[r].attempts # 0 =>
                    /\ t.run[r].attempts \in AttemptNumbers
                    /\ t.attempt[<<r, t.run[r].attempts>>].status # "absent"
               /\ t.run[r].status \in RunInFlight =>
                    /\ t.run[r].attempts \in AttemptNumbers
                    /\ t.attempt[<<r, t.run[r].attempts>>].status = t.run[r].status
               /\ \A n \in AttemptNumbers : t.attempt[<<r, n>>].status \in RunInFlight =>
                    n = t.run[r].attempts /\ t.run[r].status \in RunInFlight
    BY DEF RowsAgree
  <2>3. CASE s.run[r].status \in RunTerminal
    BY <1>8, <1>11, <2>1, <2>3 DEF RowsAgree, RunInFlight, RunTerminal
  <2>4. CASE s.run[r].status \notin RunTerminal /\ HasProtectedAttempt(s, r)
    BY <1>8, <1>11, <1>12, <2>1, <2>4 DEF RowsAgree, RunInFlight
  <2>5. CASE s.run[r].status \notin RunTerminal /\ ~HasProtectedAttempt(s, r)
    <3>1. \A n \in AttemptNumbers : t.attempt[<<r, n>>].status \notin RunInFlight
      BY <1>11, <2>5 DEF HasProtectedAttempt
    <3>2. t.run[r] = Cut(r)
      BY <1>8, <2>5
    <3> QED BY <1>4, <1>11, <2>1, <3>1, <3>2 DEF RowsAgree, RunInFlight
  <2> QED BY <2>3, <2>4, <2>5
<1>14. RoundsAgree(t)
  BY <1>4, <1>7, <1>8 DEF Consistent, RoundsAgree, RunTerminal
<1>15. DueAgrees(t)
  BY <1>4, <1>8 DEF Consistent, DueAgrees
<1> QED
  BY <1>4, <1>7, <1>8, <1>10, <1>12, <1>13, <1>14, <1>15 DEF Consistent, RunTerminal, t

\* In round mode every held run waits for the round after the batch's.
LEMMA NextHeldRoundIsNext ==
  ASSUME NEW s, Consistent(s), HeldRuns(s) # {}
  PROVE  NextHeldRound(s) = s.batch.round + 1
<1>1. \A r \in HeldRuns(s) : s.run[r].held = s.batch.round + 1
  BY DEF HeldRuns, Consistent, Database, RunRow, RoundsAgree, RunTerminal
<1>2. {s.run[r].held : r \in HeldRuns(s)} = {s.batch.round + 1}
  BY <1>1
<1>3. s.batch.round + 1 <= s.batch.round + 1
  <2>1. s.batch.round + 1 \in Nat
    BY DEF Consistent, Database
  <2> QED BY <2>1
<1>4. \A r \in HeldRuns(s) : s.batch.round + 1 <= s.run[r].held
  BY <1>1, <1>3
<1>5. \A k \in {s.run[r].held : r \in HeldRuns(s)} : k = s.batch.round + 1
  BY <1>2
<1>6. s.batch.round + 1 \in {s.run[r].held : r \in HeldRuns(s)}
  BY <1>2
<1> QED BY <1>4, <1>5, <1>6 DEF NextHeldRound

\* Releasing the next round once nothing of this one is left.
LEMMA ReleaseRoundConsistent ==
  ASSUME NEW s, Consistent(s), NEW k \in Nat \ {0}, k = s.batch.round + 1,
         \A r \in Runs : s.run[r].status \notin RunInFlight /\ ~Schedulable(s, r)
  PROVE  /\ Consistent(ReleaseRound(s, k))
         /\ ReleaseRound(s, k).batch = [s.batch EXCEPT !.round = k]
         /\ ReleaseRound(s, k).recovery = s.recovery
         /\ \A r \in Runs : /\ ReleaseRound(s, k).run[r].status = s.run[r].status
                            /\ ReleaseRound(s, k).run[r].cancel = s.run[r].cancel
<1> DEFINE Free(r) == [s.run[r] EXCEPT !.held = 0, !.queueDue = FALSE]
           f == [r \in Runs |-> IF s.run[r].status = "queued" /\ s.run[r].held <= k
                                THEN Free(r) ELSE s.run[r]]
           t == ReleaseRound(s, k)
<1>1. /\ s \in Database /\ s.run \in [Runs -> RunRow]
      /\ \A r \in Runs : s.run[r] \in RunRow
  BY DEF Consistent, Database
<1>2. \A r \in Runs : /\ Free(r) \in RunRow /\ Free(r).status = s.run[r].status
                      /\ Free(r).attempts = s.run[r].attempts /\ Free(r).round = s.run[r].round
                      /\ Free(r).cancel = s.run[r].cancel /\ Free(r).held = 0
                      /\ ~Free(r).queueDue
  BY <1>1 DEF RunRow
<1> HIDE DEF Free
<1>3. f \in [Runs -> RunRow]
  BY <1>1, <1>2
<1>4. t = [s EXCEPT !.run = f, !.batch.round = k]
  BY DEF ReleaseRound, Free
<1>5. /\ t \in Database /\ t.run = f /\ t.attempt = s.attempt
      /\ t.batch = [s.batch EXCEPT !.round = k] /\ t.batch.round = k
      /\ t.recovery = s.recovery
  <2> HIDE DEF f, t
  <2>1. /\ [s EXCEPT !.run = f, !.batch.round = k] \in Database
        /\ [s EXCEPT !.run = f, !.batch.round = k].run = f
        /\ [s EXCEPT !.run = f, !.batch.round = k].attempt = s.attempt
        /\ [s EXCEPT !.run = f, !.batch.round = k].batch = [s.batch EXCEPT !.round = k]
        /\ [s.batch EXCEPT !.round = k].round = k
        /\ [s EXCEPT !.run = f, !.batch.round = k].recovery = s.recovery
    BY <1>1, <1>3 DEF Database
  <2> QED BY <1>4, <2>1
<1> HIDE DEF t
<1>6. \A r \in Runs :
        t.run[r] = IF s.run[r].status = "queued" /\ s.run[r].held <= k THEN Free(r) ELSE s.run[r]
  BY <1>5
<1> HIDE DEF f
<1>7. \A r \in Runs : /\ t.run[r].status = s.run[r].status /\ t.run[r].cancel = s.run[r].cancel
                      /\ t.run[r].attempts = s.run[r].attempts
  BY <1>2, <1>6
<1>8. RowsAgree(t)
  BY <1>5, <1>7 DEF Consistent, RowsAgree
<1>9. RoundsAgree(t)
  <2> SUFFICES ASSUME NEW r \in Runs, t.run[r].status \notin RunTerminal
               PROVE  t.run[r].held = 0 /\ t.run[r].round = t.batch.round
    BY DEF RoundsAgree
  <2>1. s.run[r].status = "queued" /\ s.run[r].held # 0
    BY <1>1, <1>7 DEF Schedulable, RunRow
  <2>2. s.run[r].held = k /\ s.run[r].round = k
    BY <2>1 DEF Consistent, RoundsAgree, RunTerminal
  <2> QED BY <1>2, <1>5, <1>6, <2>1, <2>2
<1>10. DueAgrees(t)
  BY <1>2, <1>6, <1>7 DEF Consistent, DueAgrees
<1> QED BY <1>5, <1>7, <1>8, <1>9, <1>10 DEF Consistent, t

\* Advancing an idle batch, whether or not a round is left (advanceRoundIfIdle).
LEMMA AdvanceRoundConsistent ==
  ASSUME NEW s, Consistent(s)
  PROVE  LET t == AdvanceRoundIfIdle(s)
         IN  /\ Consistent(t)
             /\ t.batch.terminating = s.batch.terminating
             /\ t.batch.status = s.batch.status
             /\ \A r \in Runs : /\ t.run[r].status = s.run[r].status
                                /\ t.run[r].cancel = s.run[r].cancel
<1> DEFINE k == NextHeldRound(s)
           steps == StepsAfter(k - 1)
           v == [p \in RecoverySteps |->
                  IF p \in steps /\ s.recovery[p] = "idle" THEN "pending" ELSE s.recovery[p]]
           u == [s EXCEPT !.recovery = v]
<1>1. CASE RetryMode # "round" \/ ~RoundIdle(s)
  BY <1>1 DEF AdvanceRoundIfIdle
<1>2. CASE RetryMode = "round" /\ RoundIdle(s)
  <2>1. k = s.batch.round + 1 /\ k \in Nat \ {0}
    BY <1>2, NextHeldRoundIsNext DEF RoundIdle, Consistent, Database
  <2>2. \A r \in Runs : s.run[r].status \notin RunInFlight /\ ~Schedulable(s, r)
    BY <1>2 DEF RoundIdle, RunsIn
  <2> HIDE DEF k
  <2>3. CASE \E p \in steps : s.recovery[p] = "idle"
    <3>1. AdvanceRoundIfIdle(s) = u
      BY <1>2, <2>3 DEF AdvanceRoundIfIdle, k
    <3>2. v \in [RecoverySteps -> {"idle", "succeeded", "failed", "cancelled"} \cup RecoveryActive]
      BY DEF Consistent, Database, RecoveryActive
    <3> HIDE DEF v
    <3>3. u \in Database /\ u.run = s.run /\ u.attempt = s.attempt /\ u.batch = s.batch
      BY <3>2 DEF Consistent, Database
    <3> HIDE DEF u
    <3>4. Consistent(u)
      BY <3>3 DEF Consistent, RowsAgree, RoundsAgree, DueAgrees
    <3> QED BY <3>1, <3>3, <3>4
  <2>4. CASE ~(\E p \in steps : s.recovery[p] = "idle") /\ \E p \in steps : s.recovery[p] # "succeeded"
    <3>1. AdvanceRoundIfIdle(s) = s
      BY <1>2, <2>4 DEF AdvanceRoundIfIdle, k
    <3> QED BY <3>1
  <2>5. CASE ~(\E p \in steps : s.recovery[p] = "idle") /\ ~\E p \in steps : s.recovery[p] # "succeeded"
    <3>1. AdvanceRoundIfIdle(s) = ReleaseRound(s, k)
      BY <1>2, <2>5 DEF AdvanceRoundIfIdle, k
    <3>2. /\ [s.batch EXCEPT !.round = k].terminating = s.batch.terminating
          /\ [s.batch EXCEPT !.round = k].status = s.batch.status
      BY DEF Consistent, Database
    <3>3. /\ Consistent(ReleaseRound(s, k))
          /\ ReleaseRound(s, k).batch = [s.batch EXCEPT !.round = k]
          /\ \A r \in Runs : /\ ReleaseRound(s, k).run[r].status = s.run[r].status
                             /\ ReleaseRound(s, k).run[r].cancel = s.run[r].cancel
      BY <2>1, <2>2, ReleaseRoundConsistent
    <3> QED BY <3>1, <3>2, <3>3
  <2> QED BY <2>3, <2>4, <2>5
<1> QED BY <1>1, <1>2

\* The aggregate of the runs closes the batch exactly when all are over.
LEMMA AggregateStatusType ==
  ASSUME NEW s \in Database
  PROVE  /\ AggregateStatus(s) \in BatchStatuses
         /\ AggregateStatus(s) \in BatchTerminal <=> AllSettled(s)
<1>1. \A r \in Runs : s.run[r].status \in RunStatuses
  BY DEF Database, RunRow, RunStatuses
<1>2. RunsIn(s, {"running"}) = {} /\ RunsIn(s, {"assigned"}) = {} /\ WaitingRuns(s) = {} <=> AllSettled(s)
  BY <1>1 DEF RunsIn, WaitingRuns, AllSettled, RunStatuses, RunInFlight, RunTerminal
<1> QED BY <1>2 DEF AggregateStatus, BatchStatuses, BatchOpen, BatchTerminal

\* Writing the status of the batch disturbs no row of a run or an attempt.
LEMMA SetBatchStatusConsistent ==
  ASSUME NEW s, Consistent(s), NEW st \in BatchStatuses
  PROVE  LET t == [s EXCEPT !.batch.status = st]
         IN  /\ Consistent(t) /\ t.run = s.run /\ t.attempt = s.attempt
             /\ t.batch.status = st /\ t.batch.terminating = s.batch.terminating
<1> DEFINE t == [s EXCEPT !.batch.status = st]
<1>1. /\ t \in Database /\ t.run = s.run /\ t.attempt = s.attempt
      /\ t.batch.status = st /\ t.batch.terminating = s.batch.terminating
      /\ t.batch.round = s.batch.round
  BY DEF Consistent, Database, BatchStatuses
<1> HIDE DEF t
<1>2. Consistent(t)
  BY <1>1 DEF Consistent, RowsAgree, RoundsAgree, DueAgrees
<1> QED BY <1>1, <1>2 DEF t

\* Aggregating an open batch ends a transaction in a good state.
LEMMA UpdateBatchStatusInv ==
  ASSUME NEW s, Consistent(s), s.batch.status \in BatchOpen
  PROVE  Inv(UpdateBatchStatus(s))
<1> DEFINE s1 == IF s.batch.terminating THEN TerminateWaitingRuns(s)
                 ELSE IF s.batch.paused THEN s ELSE AdvanceRoundIfIdle(s)
           t == [s1 EXCEPT !.batch.status = AggregateStatus(s1)]
<1>1. UpdateBatchStatus(s) = t
  BY DEF UpdateBatchStatus, BatchOpen, BatchTerminal
<1>2. /\ Consistent(s1) /\ s1.batch.terminating = s.batch.terminating
      /\ s.batch.terminating => \A r \in Runs : s1.run[r].status \in {"running"} \cup RunTerminal
  <2>1. CASE s.batch.terminating
    BY <2>1, TerminateWaitingRunsConsistent
  <2>2. CASE ~s.batch.terminating /\ s.batch.paused
    BY <2>2
  <2>3. CASE ~s.batch.terminating /\ ~s.batch.paused
    BY <2>3, AdvanceRoundConsistent
  <2> QED BY <2>1, <2>2, <2>3
<1> HIDE DEF s1
<1>3. /\ AggregateStatus(s1) \in BatchStatuses
      /\ AggregateStatus(s1) \in BatchTerminal <=> AllSettled(s1)
  BY <1>2, AggregateStatusType DEF Consistent
<1>4. /\ Consistent(t) /\ t.run = s1.run
      /\ t.batch.status = AggregateStatus(s1) /\ t.batch.terminating = s1.batch.terminating
  BY <1>2, <1>3, SetBatchStatusConsistent
<1> HIDE DEF t
<1> QED BY <1>1, <1>2, <1>3, <1>4 DEF Inv, AllSettled

\* An attempt is named by its run and its number.
LEMMA AttemptPair ==
  ASSUME NEW a \in Attempts
  PROVE  a[1] \in Runs /\ a[2] \in AttemptNumbers /\ a = <<a[1], a[2]>>
  BY DEF Attempts

-----------------------------------------------------------------------------
(* Settling a batch.                                                       *)

\* An attempt without a valid lease is closed by a termination.
IsClosed(old, new) ==
  /\ old.status \in RunInFlight /\ ~Protected(old)
  /\ new.status = "cancelled" /\ new.receipt = old.receipt

\* What the aggregation of a batch may do to the rows it finds.
Settles(s, t) ==
  /\ \A a \in Attempts : \/ t.attempt[a] = s.attempt[a]
                         \/ s.batch.terminating /\ IsClosed(s.attempt[a], t.attempt[a])
  /\ \A r \in Runs :
       \/ t.run[r] = s.run[r]
       \/ /\ t.run[r].attempts = s.run[r].attempts
          /\ \/ s.run[r].status \notin RunTerminal /\ t.run[r].status = "cancelled"
             \/ /\ s.run[r].status = "queued" /\ t.run[r].status = "queued"
                /\ t.run[r].cancel = s.run[r].cancel
  /\ t.batch.terminating = s.batch.terminating /\ t.batch.paused = s.batch.paused
  /\ s.batch.paused => t.recovery = s.recovery /\ t.batch.round = s.batch.round

\* The rows a termination leaves.
LEMMA TerminateWaitingRunsRows ==
  ASSUME NEW s \in Database
  PROVE  LET t == TerminateWaitingRuns(s)
         IN  /\ \A a \in Attempts : t.attempt[a] = WaitingClosed(s.attempt[a])
             /\ \A r \in Runs :
                  \/ t.run[r] = s.run[r]
                  \/ /\ t.run[r].attempts = s.run[r].attempts
                     /\ s.run[r].status \notin RunTerminal /\ t.run[r].status = "cancelled"
             /\ t.batch = s.batch /\ t.recovery = s.recovery
<1> DEFINE Over(r) == RunEnded(s.run[r], "cancelled", "cancelled", "cancelled")
           Cut(r) == [Over(r) EXCEPT !.cancel = TRUE]
           g == [a \in Attempts |-> WaitingClosed(s.attempt[a])]
           f == [r \in Runs |->
                   IF s.run[r].status \in RunTerminal \/ HasProtectedAttempt(s, r)
                   THEN s.run[r] ELSE Cut(r)]
           t == TerminateWaitingRuns(s)
<1>1. t = [s EXCEPT !.attempt = g, !.run = f]
  BY DEF TerminateWaitingRuns
<1>2. ASSUME NEW r \in Runs
      PROVE  Cut(r).attempts = s.run[r].attempts /\ Cut(r).status = "cancelled"
  <2>1. s.run[r] \in RunRow
    BY DEF Database
  <2>2. /\ Over(r) \in RunRow /\ Over(r).status = "cancelled"
        /\ Over(r).attempts = s.run[r].attempts
    BY <2>1, RunCancelled
  <2> HIDE DEF Over
  <2> QED BY <2>2 DEF RunRow
<1> HIDE DEF Cut
<1>3. \A r \in Runs : f[r] = s.run[r] \/ (s.run[r].status \notin RunTerminal /\ f[r] = Cut(r))
  OBVIOUS
<1>4. \A a \in Attempts : g[a] = WaitingClosed(s.attempt[a])
  OBVIOUS
<1> HIDE DEF f, g, t
<1>5. t.attempt = g /\ t.run = f /\ t.batch = s.batch /\ t.recovery = s.recovery
  BY <1>1 DEF Database
<1> QED BY <1>2, <1>3, <1>4, <1>5 DEF t

\* A termination settles.
LEMMA TerminateSettles ==
  ASSUME NEW s, Consistent(s), s.batch.terminating
  PROVE  Settles(s, TerminateWaitingRuns(s))
<1> DEFINE t == TerminateWaitingRuns(s)
<1>1. s \in Database
  BY DEF Consistent
<1>2. /\ \A a \in Attempts : t.attempt[a] = WaitingClosed(s.attempt[a])
      /\ \A r \in Runs :
           \/ t.run[r] = s.run[r]
           \/ /\ t.run[r].attempts = s.run[r].attempts
              /\ s.run[r].status \notin RunTerminal /\ t.run[r].status = "cancelled"
      /\ t.batch = s.batch /\ t.recovery = s.recovery
  BY <1>1, TerminateWaitingRunsRows
<1> HIDE DEF t
<1>3. ASSUME NEW a \in Attempts
      PROVE  t.attempt[a] = s.attempt[a] \/ IsClosed(s.attempt[a], t.attempt[a])
  <2>1. s.attempt[a] \in AttemptRow /\ RowShape(s.attempt[a])
    BY <1>1, AttemptPair DEF Consistent, Database
  <2> QED BY <1>2, <2>1, WaitingClosedShape DEF IsClosed
<1> QED BY <1>2, <1>3 DEF Settles, t

\* A round that starts only frees the runs that wait for it.
LEMMA ReleaseSettles ==
  ASSUME NEW s \in Database, NEW k
  PROVE  LET t == ReleaseRound(s, k)
         IN  /\ t.attempt = s.attempt /\ t.recovery = s.recovery
             /\ t.batch = [s.batch EXCEPT !.round = k]
             /\ \A r \in Runs : \/ t.run[r] = s.run[r]
                                \/ /\ t.run[r].attempts = s.run[r].attempts
                                   /\ t.run[r].cancel = s.run[r].cancel
                                   /\ s.run[r].status = "queued" /\ t.run[r].status = "queued"
<1> DEFINE Loose(r) == [s.run[r] EXCEPT !.held = 0, !.queueDue = FALSE]
           f == [r \in Runs |-> IF s.run[r].status = "queued" /\ s.run[r].held <= k
                                THEN Loose(r) ELSE s.run[r]]
           t == ReleaseRound(s, k)
<1>1. t = [s EXCEPT !.run = f, !.batch.round = k]
  BY DEF ReleaseRound
<1>2. ASSUME NEW r \in Runs
      PROVE  /\ Loose(r).attempts = s.run[r].attempts /\ Loose(r).status = s.run[r].status
             /\ Loose(r).cancel = s.run[r].cancel
  <2>1. s.run[r] \in RunRow
    BY DEF Database
  <2> QED BY <2>1 DEF RunRow
<1> HIDE DEF Loose
<1>3. \A r \in Runs : f[r] = s.run[r] \/ (s.run[r].status = "queued" /\ f[r] = Loose(r))
  OBVIOUS
<1> HIDE DEF f, t
<1>4. /\ t.attempt = s.attempt /\ t.run = f /\ t.recovery = s.recovery
      /\ t.batch = [s.batch EXCEPT !.round = k]
  BY <1>1 DEF Database
<1> QED BY <1>2, <1>3, <1>4 DEF t

\* Advancing an idle batch settles, unless scheduling is paused.
LEMMA AdvanceSettles ==
  ASSUME NEW s, Consistent(s), ~s.batch.paused
  PROVE  Settles(s, AdvanceRoundIfIdle(s))
<1> DEFINE k == NextHeldRound(s)
           steps == StepsAfter(k - 1)
           v == [p \in RecoverySteps |->
                  IF p \in steps /\ s.recovery[p] = "idle" THEN "pending" ELSE s.recovery[p]]
           u == [s EXCEPT !.recovery = v]
           t == AdvanceRoundIfIdle(s)
<1>1. s \in Database
  BY DEF Consistent
<1>2. t = s \/ t = u \/ t = ReleaseRound(s, k)
  BY DEF AdvanceRoundIfIdle
<1>3. u.run = s.run /\ u.attempt = s.attempt /\ u.batch = s.batch
  <2> HIDE DEF v
  <2> QED BY <1>1 DEF Database
<1> HIDE DEF k, u, t
<1>4. ASSUME t = s
      PROVE  Settles(s, t)
  BY <1>4 DEF Settles
<1>5. ASSUME t = u
      PROVE  Settles(s, t)
  BY <1>3, <1>5 DEF Settles
<1>6. ASSUME t = ReleaseRound(s, k)
      PROVE  Settles(s, t)
  <2>1. /\ t.attempt = s.attempt /\ t.recovery = s.recovery
        /\ t.batch = [s.batch EXCEPT !.round = k]
        /\ \A r \in Runs : \/ t.run[r] = s.run[r]
                           \/ /\ t.run[r].attempts = s.run[r].attempts
                              /\ t.run[r].cancel = s.run[r].cancel
                              /\ s.run[r].status = "queued" /\ t.run[r].status = "queued"
    BY <1>1, <1>6, ReleaseSettles
  <2>2. t.batch.terminating = s.batch.terminating /\ t.batch.paused = s.batch.paused
    BY <1>1, <2>1 DEF Database
  <2> QED BY <2>1, <2>2 DEF Settles
<1> QED BY <1>2, <1>4, <1>5, <1>6 DEF t

\* Aggregating settles, and gives the verdict the runs deserve.
LEMMA UpdateSettles ==
  ASSUME NEW s, Consistent(s), s.batch.status \in BatchOpen
  PROVE  /\ Settles(s, UpdateBatchStatus(s))
         /\ Verdict(UpdateBatchStatus(s))
<1> DEFINE s1 == IF s.batch.terminating THEN TerminateWaitingRuns(s)
                 ELSE IF s.batch.paused THEN s ELSE AdvanceRoundIfIdle(s)
           st == AggregateStatus(s1)
           t == [s1 EXCEPT !.batch.status = st]
<1>1. UpdateBatchStatus(s) = t
  BY DEF UpdateBatchStatus, BatchOpen, BatchTerminal
<1>2. Settles(s, s1)
  BY TerminateSettles, AdvanceSettles DEF Settles
<1>3. s1 \in Database
  BY TerminateWaitingRunsConsistent, AdvanceRoundConsistent DEF Consistent
<1> HIDE DEF s1
<1>4. st = "cancelled" \/ st = "failed" \/ st = "succeeded" \/ st \in BatchOpen
  BY DEF AggregateStatus, BatchOpen
<1>5. st \in BatchTerminal /\ s1.batch.terminating => st = "cancelled"
  BY DEF AggregateStatus, BatchTerminal
<1>6. st = "succeeded" =>
        \A r \in Runs : /\ s1.run[r].status # "cancelled"
                        /\ s1.run[r].status = "failed" => ~Blocked(s1.run[r].reason)
  BY DEF AggregateStatus, RunsIn, AbnormalRuns
<1> HIDE DEF st
<1>7. /\ t.run = s1.run /\ t.attempt = s1.attempt /\ t.recovery = s1.recovery
      /\ t.batch.status = st /\ t.batch.terminating = s1.batch.terminating
      /\ t.batch.paused = s1.batch.paused /\ t.batch.round = s1.batch.round
  BY <1>3 DEF Database
<1> HIDE DEF t
<1>8. Settles(s, t)
  BY <1>2, <1>7 DEF Settles
<1>9. Verdict(t)
  BY <1>5, <1>6, <1>7 DEF Verdict
<1> QED BY <1>1, <1>8, <1>9

\* A row that nothing happens to.
LEMMA StillAttempt ==
  ASSUME NEW row
  PROVE  AttemptStep(row, row)
  BY DEF AttemptStep

\* Transactions that leave the runs and the batch alone.
LEMMA StillBatch ==
  ASSUME NEW s, NEW t, t.batch = s.batch, t.recovery = s.recovery,
         \A r \in Runs : /\ t.run[r].status = s.run[r].status
                         /\ t.run[r].attempts = s.run[r].attempts
                         /\ s.run[r].status \in RunTerminal => t.run[r] = s.run[r]
                         /\ Honoured(s.run[r]) => Honoured(t.run[r]),
         \A a \in Attempts : AttemptStep(s.attempt[a], t.attempt[a])
  PROVE  Moves(s, t)
<1>1. \A r \in Runs : RunStep(s, t, r)
  BY DEF RunStep, RunTerminal
<1>2. BatchStep(s, t)
  BY DEF BatchStep, Verdict, BatchOpen, BatchTerminal
<1> QED BY <1>1, <1>2 DEF Moves

\* A transaction ends by aggregating what it has done to an open batch.
LEMMA UpdateMoves ==
  ASSUME NEW s, Consistent(s), s.batch.status \in BatchOpen,
         NEW m, Consistent(m), m.batch.status \in BatchOpen, Moves(s, m),
         m.batch.terminating =>
           \A a \in Attempts : m.attempt[a].status \in RunInFlight => m.attempt[a] = s.attempt[a]
  PROVE  Inv(UpdateBatchStatus(m)) /\ Moves(s, UpdateBatchStatus(m))
<1> DEFINE t == UpdateBatchStatus(m)
<1>1. Settles(m, t) /\ Verdict(t) /\ Inv(t)
  BY UpdateSettles, UpdateBatchStatusInv
<1> HIDE DEF t
<1>2. ASSUME NEW a \in Attempts
      PROVE  AttemptStep(s.attempt[a], t.attempt[a])
  <2>1. CASE t.attempt[a] = m.attempt[a]
    BY <2>1 DEF Moves
  <2>2. CASE m.batch.terminating /\ IsClosed(m.attempt[a], t.attempt[a])
    <3> DEFINE old == s.attempt[a]
               new == t.attempt[a]
    <3>1. old = m.attempt[a] /\ RowShape(old) /\ old.status \in RunInFlight
      BY <2>2, AttemptPair DEF IsClosed, Consistent
    <3>2. new.status = "cancelled" /\ new.receipt = old.receipt /\ ~Protected(old)
      BY <2>2, <3>1 DEF IsClosed
    <3> HIDE DEF old, new
    <3>3. ~Leased(old)
      BY <3>1, <3>2 DEF RowShape, RunInFlight, Protected, Leased
    <3>4. AttemptStep(old, new)
      BY <3>1, <3>2, <3>3 DEF AttemptStep, Ends, AttemptTerminal
    <3> QED BY <3>4 DEF old, new
  <2> QED BY <1>1, <2>1, <2>2 DEF Settles
<1>3. ASSUME NEW r \in Runs
      PROVE  RunStep(s, t, r)
  <2>1. RunStep(s, m, r)
    BY DEF Moves
  <2>2. t.batch.paused = m.batch.paused
    BY <1>1 DEF Settles
  <2>3. PutBack(s, m, r) /\ t.run[r].status = "queued" => PutBack(s, t, r)
    <3> SUFFICES ASSUME PutBack(s, m, r), t.run[r].status = "queued"
                 PROVE  PutBack(s, t, r)
      OBVIOUS
    <3>1. <<r, s.run[r].attempts>> \in Attempts
      BY DEF PutBack, Consistent, RowsAgree, Attempts
    <3>2. m.attempt[<<r, s.run[r].attempts>>].status \notin RunInFlight
      BY DEF PutBack, FailedStatuses, RunInFlight
    <3>3. t.attempt[<<r, s.run[r].attempts>>] = m.attempt[<<r, s.run[r].attempts>>]
      BY <1>1, <3>1, <3>2 DEF Settles, IsClosed
    <3> QED BY <3>3 DEF PutBack
  <2>4. CASE t.run[r] = m.run[r]
    BY <2>1, <2>2, <2>3, <2>4 DEF RunStep, PutBack
  <2>5. CASE /\ t.run[r].attempts = m.run[r].attempts
             /\ m.run[r].status \notin RunTerminal /\ t.run[r].status = "cancelled"
    BY <2>1, <2>5 DEF RunStep, RunTerminal, Honoured
  <2>6. CASE /\ t.run[r].attempts = m.run[r].attempts
             /\ m.run[r].status = "queued" /\ t.run[r].status = "queued"
             /\ t.run[r].cancel = m.run[r].cancel
    BY <2>1, <2>2, <2>3, <2>6 DEF RunStep, RunTerminal, RunInFlight, Honoured
  <2> QED BY <1>1, <2>4, <2>5, <2>6 DEF Settles
<1>4. BatchStep(s, t)
  BY <1>1 DEF Settles, Moves, BatchStep, BatchOpen, BatchTerminal
<1> QED BY <1>1, <1>2, <1>3, <1>4 DEF Moves, t

\* A run whose attempt ends is over, or queued again for a round it may run in.
LEMMA RunAfterRow ==
  ASSUME NEW s, Consistent(s), NEW r \in Runs, s.run[r].status \in RunInFlight,
         NEW o \in AttemptTerminal, NEW c \in CodeClasses,
         s.run[r].cancel => o # "succeeded"
  PROVE  LET row == RunAfter(s, r, o, c)
         IN  /\ row \in RunRow
             /\ row.status \in {"queued"} \cup RunTerminal
             /\ row.attempts = s.run[r].attempts
             /\ row.cancel => row.status = "cancelled"
             /\ ~row.queueDue
             /\ row.status = "queued" =>
                  IF row.held = 0 THEN RetryMode = "round" => row.round = s.batch.round
                  ELSE /\ RetryMode = "round"
                       /\ row.held = s.batch.round + 1 /\ row.round = row.held
             /\ row.status = "queued" => o \in FailedStatuses /\ RetryAllowed(s, r, c)
<1> DEFINE next == OutcomeAfterCompletion(s, r, o, c)
           old  == s.run[r]
           row  == RunAfter(s, r, o, c)
<1>1. /\ old \in RunRow /\ s.batch.round \in Nat /\ old.round \in Nat /\ old.round # 0
      /\ old.cancel \in BOOLEAN
      /\ RetryMode = "round" => old.held = 0 /\ old.round = s.batch.round
  BY DEF Consistent, Database, RunRow, RoundsAgree, RunInFlight, RunTerminal
<1>2. /\ next \in {"queued"} \cup RunTerminal
      /\ old.cancel => next = "cancelled"
      /\ next = "queued" => o \in FailedStatuses /\ RetryAllowed(s, r, c)
  BY DEF OutcomeAfterCompletion, RunTerminal, AttemptTerminal, FailedStatuses
<1>3. CASE next = "queued"
  <2> DEFINE same == RetryMode = "round" /\ c = "runner"
             k    == IF same THEN old.round ELSE old.round + 1
             h    == IF RetryMode = "round" /\ ~same THEN k ELSE 0
             new  == [old EXCEPT !.status = "queued", !.outcome = "none", !.reason = "none",
                                 !.round = k, !.queueDue = FALSE, !.held = h]
  <2>1. row = new
    BY <1>3 DEF RunAfter, Requeued
  <2>2. /\ k \in Nat \ {0} /\ h \in Nat
        /\ IF h = 0 THEN RetryMode = "round" => k = s.batch.round
           ELSE RetryMode = "round" /\ h = s.batch.round + 1 /\ k = h
    BY <1>1
  <2> HIDE DEF k, h, row
  <2>3. /\ new \in RunRow /\ new.status = "queued" /\ new.attempts = old.attempts
        /\ new.cancel = old.cancel /\ new.held = h /\ new.round = k /\ ~new.queueDue
    BY <1>1, <2>2 DEF RunRow
  <2> HIDE DEF new
  <2> QED BY <1>2, <1>3, <2>1, <2>2, <2>3 DEF row
<1>4. CASE next # "queued"
  <2> DEFINE e == RunEnded(old, next, o, c)
  <2>1. row = [e EXCEPT !.held = 0]
    BY <1>4 DEF RunAfter
  <2>2. next \in RunStatuses /\ next \in RunTerminal
    BY <1>2, <1>4 DEF RunStatuses
  <2> HIDE DEF next, row
  <2>3. /\ e \in RunRow /\ e.status = next /\ e.attempts = old.attempts
        /\ e.cancel = old.cancel
    BY <1>1, <2>2, RunEndedType
  <2>4. ~e.queueDue
    BY <1>1, RunEndedDue
  <2> HIDE DEF e
  <2>5. /\ [e EXCEPT !.held = 0] \in RunRow /\ [e EXCEPT !.held = 0].status = next
        /\ [e EXCEPT !.held = 0].attempts = old.attempts
        /\ [e EXCEPT !.held = 0].cancel = old.cancel /\ ~[e EXCEPT !.held = 0].queueDue
    BY <2>3, <2>4 DEF RunRow
  <2> QED BY <1>2, <1>4, <2>1, <2>2, <2>5 DEF row, RunTerminal
<1> QED BY <1>3, <1>4

\* The end of an attempt in flight, whoever reports or finds it.
LEMMA ConcludeInv ==
  ASSUME NEW s, Inv(s), NEW r \in Runs, NEW n \in AttemptNumbers,
         s.attempt[<<r, n>>].status \in RunInFlight,
         NEW row \in AttemptRow, RowShape(row), Ends(s.attempt[<<r, n>>], row),
         NEW o \in AttemptTerminal, NEW c \in CodeClasses, row.status = o, row.code = c,
         s.run[r].cancel => o # "succeeded"
  PROVE  /\ Inv(Conclude(s, <<r, n>>, row, o, c))
         /\ Moves(s, Conclude(s, <<r, n>>, row, o, c))
<1> DEFINE next == RunAfter(s, r, o, c)
           t == [s EXCEPT !.attempt[<<r, n>>] = row, !.run[r] = next]
<1>1. /\ Consistent(s) /\ s.run[r].status \in RunInFlight /\ n = s.run[r].attempts
      /\ <<r, n>> \in Attempts
  BY DEF Inv, Consistent, RowsAgree, Attempts
<1>2. s.batch.status \in BatchOpen
  BY <1>1 DEF Inv, AllSettled, Consistent, Database, RunInFlight, RunTerminal
<1>3. Conclude(s, <<r, n>>, row, o, c) = UpdateBatchStatus(t)
  BY DEF Conclude
<1>4. /\ next \in RunRow
      /\ next.status \in {"queued"} \cup RunTerminal
      /\ next.attempts = s.run[r].attempts
      /\ next.cancel => next.status = "cancelled"
      /\ ~next.queueDue
      /\ next.status = "queued" =>
           IF next.held = 0 THEN RetryMode = "round" => next.round = s.batch.round
           ELSE /\ RetryMode = "round"
                /\ next.held = s.batch.round + 1 /\ next.round = next.held
      /\ next.status = "queued" => o \in FailedStatuses /\ RetryAllowed(s, r, c)
  BY <1>1, RunAfterRow
<1> HIDE DEF next
<1>5. /\ t \in Database /\ t.batch = s.batch /\ t.recovery = s.recovery
      /\ t.run = [s.run EXCEPT ![r] = next] /\ t.attempt = [s.attempt EXCEPT ![<<r, n>>] = row]
  BY <1>1, <1>4 DEF Consistent, Database
<1> HIDE DEF t
<1>6. /\ \A q \in Runs : t.run[q] = IF q = r THEN next ELSE s.run[q]
      /\ \A q \in Runs, m \in AttemptNumbers :
           t.attempt[<<q, m>>] = IF q = r /\ m = n THEN row ELSE s.attempt[<<q, m>>]
  BY <1>1, <1>5 DEF Consistent, Database, Attempts
<1>7. \A q \in Runs, m \in AttemptNumbers : RowShape(t.attempt[<<q, m>>])
  BY <1>1, <1>6 DEF Consistent
<1>8. RowsAgree(t)
  BY <1>1, <1>4, <1>6 DEF Consistent, RowsAgree, RunInFlight, RunTerminal, AttemptTerminal
<1>9. RoundsAgree(t)
  BY <1>1, <1>4, <1>5, <1>6 DEF Consistent, RoundsAgree, RunTerminal
<1>10. DueAgrees(t)
  BY <1>1, <1>4, <1>6 DEF Consistent, DueAgrees
<1>11. Consistent(t)
  BY <1>5, <1>7, <1>8, <1>9, <1>10 DEF Consistent
<1>12. ASSUME NEW a \in Attempts
       PROVE  /\ AttemptStep(s.attempt[a], t.attempt[a])
              /\ t.attempt[a].status \in RunInFlight => t.attempt[a] = s.attempt[a]
  BY <1>6, <1>12, AttemptPair, StillAttempt DEF AttemptStep, AttemptTerminal, RunInFlight
<1>13. ASSUME NEW q \in Runs
       PROVE  RunStep(s, t, q)
  <2>1. CASE q # r
    BY <1>6, <2>1 DEF RunStep
  <2>2. CASE q = r
    BY <1>1, <1>4, <1>6, <2>2 DEF RunStep, PutBack, RunInFlight, RunTerminal, Honoured
  <2> QED BY <2>1, <2>2
<1>14. BatchStep(s, t)
  BY <1>2, <1>5 DEF BatchStep, Verdict, BatchOpen, BatchTerminal
<1>15. Moves(s, t)
  BY <1>12, <1>13, <1>14 DEF Moves
<1>16. Inv(UpdateBatchStatus(t)) /\ Moves(s, UpdateBatchStatus(t))
  <2>1. \A a \in Attempts : t.attempt[a].status \in RunInFlight => t.attempt[a] = s.attempt[a]
    BY <1>12
  <2> QED BY <1>1, <1>2, <1>5, <1>11, <1>15, <2>1, UpdateMoves
<1> QED BY <1>3, <1>16

-----------------------------------------------------------------------------
(* The actions.                                                            *)

\* A change to the rows of one attempt that leaves its status alone.
LEMMA AttemptRowInv ==
  ASSUME NEW s, Inv(s), NEW a \in Attempts, NEW row \in AttemptRow, RowShape(row),
         row.status = s.attempt[a].status, row.code = s.attempt[a].code,
         row.lease = s.attempt[a].lease,
         row.receipt = s.attempt[a].receipt \/ s.attempt[a].receipt = "none"
  PROVE  Inv([s EXCEPT !.attempt[a] = row]) /\ Moves(s, [s EXCEPT !.attempt[a] = row])
<1> DEFINE t == [s EXCEPT !.attempt[a] = row]
<1>1. /\ t \in Database /\ t.run = s.run /\ t.batch = s.batch /\ t.recovery = s.recovery
      /\ t.attempt = [s.attempt EXCEPT ![a] = row]
  BY DEF Inv, Consistent, Database
<1> HIDE DEF t
<1>2. /\ \A q \in Runs, m \in AttemptNumbers :
           /\ <<q, m>> \in Attempts
           /\ t.attempt[<<q, m>>] = IF <<q, m>> = a THEN row ELSE s.attempt[<<q, m>>]
           /\ t.attempt[<<q, m>>].status = s.attempt[<<q, m>>].status
  BY <1>1 DEF Inv, Consistent, Database, Attempts
<1>3. \A q \in Runs, m \in AttemptNumbers : RowShape(t.attempt[<<q, m>>])
  BY <1>2 DEF Inv, Consistent
<1>4. RowsAgree(t)
  BY <1>1, <1>2 DEF Inv, Consistent, RowsAgree
<1>5. RoundsAgree(t) /\ DueAgrees(t)
  BY <1>1 DEF Inv, Consistent, RoundsAgree, DueAgrees
<1>6. Inv(t)
  BY <1>1, <1>3, <1>4, <1>5 DEF Inv, Consistent, AllSettled
<1>7. \A b \in Attempts : AttemptStep(s.attempt[b], t.attempt[b])
  BY <1>2, AttemptPair, StillAttempt DEF AttemptStep
<1>8. Moves(s, t)
  BY <1>1, <1>7, StillBatch
<1> QED BY <1>6, <1>8 DEF t

\* The rows of an attempt and of its run have the shape of the schema.
LEMMA InvFacts ==
  ASSUME Inv(db), NEW a \in Attempts
  PROVE  /\ db \in Database /\ db.attempt[a] \in AttemptRow /\ RowShape(db.attempt[a])
         /\ db.run[a[1]] \in RunRow
  BY AttemptPair DEF Inv, Consistent, Database

\* renewLease keeps the invariant.
LEMMA RenewLeaseInv ==
  ASSUME Inv(db), NEW a \in Attempts, RenewLease(a)
  PROVE  Inv(db') /\ Moves(db, db')
<1> DEFINE row == [db.attempt[a] EXCEPT !.assignment = "running"]
<1>1. db' = [db EXCEPT !.attempt[a] = row]
  BY DEF RenewLease
<1>2. /\ db.attempt[a] \in AttemptRow /\ RowShape(db.attempt[a])
      /\ db.attempt[a].lease = "active" /\ db.attempt[a].assignment \in {"claimed", "running"}
  BY InvFacts DEF RenewLease, Leased
<1>3. db.attempt[a].status = "running"
  BY <1>2 DEF RowShape, AttemptRow, RunInFlight, AttemptTerminal, NoAttempt
<1>4. /\ row \in AttemptRow /\ RowShape(row) /\ row.status = db.attempt[a].status
      /\ row.code = db.attempt[a].code /\ row.lease = db.attempt[a].lease
      /\ row.receipt = db.attempt[a].receipt \/ db.attempt[a].receipt = "none"
  BY <1>2, <1>3 DEF AttemptRow, AssignmentOpen, RowShape, AttemptTerminal
<1> HIDE DEF row
<1> QED BY <1>1, <1>4, AttemptRowInv

\* declareArtifacts keeps the invariant.
LEMMA DeclareArtifactsInv ==
  ASSUME Inv(db), NEW a \in Attempts, DeclareArtifacts(a)
  PROVE  Inv(db') /\ Moves(db, db')
<1> DEFINE row == [db.attempt[a] EXCEPT !.uploading = TRUE]
<1>1. db' = [db EXCEPT !.attempt[a] = row]
  BY DEF DeclareArtifacts
<1>2. /\ db.attempt[a] \in AttemptRow /\ RowShape(db.attempt[a])
      /\ db.attempt[a].status = "running"
  BY InvFacts DEF DeclareArtifacts
<1>3. /\ row \in AttemptRow /\ RowShape(row) /\ row.status = db.attempt[a].status
      /\ row.code = db.attempt[a].code /\ row.lease = db.attempt[a].lease
      /\ row.receipt = db.attempt[a].receipt \/ db.attempt[a].receipt = "none"
  BY <1>2 DEF AttemptRow, RowShape, AttemptTerminal
<1> HIDE DEF row
<1> QED BY <1>1, <1>3, AttemptRowInv

\* A report that comes too late writes its receipt only (completeAttempt).
LEMMA CompleteLateInv ==
  ASSUME Inv(db), NEW a \in Attempts, CompleteLate(a)
  PROVE  Inv(db') /\ Moves(db, db')
<1> DEFINE row == [db.attempt[a] EXCEPT !.receipt = "late"]
<1>1. db' = [db EXCEPT !.attempt[a] = row]
  BY DEF CompleteLate
<1>2. /\ db.attempt[a] \in AttemptRow /\ RowShape(db.attempt[a])
      /\ db.attempt[a].lease # "none" /\ db.attempt[a].receipt = "none"
  BY InvFacts DEF CompleteLate
<1>3. /\ row \in AttemptRow /\ RowShape(row) /\ row.status = db.attempt[a].status
      /\ row.code = db.attempt[a].code /\ row.lease = db.attempt[a].lease
      /\ row.receipt = db.attempt[a].receipt \/ db.attempt[a].receipt = "none"
  BY <1>2 DEF AttemptRow, RowShape, NoAttempt, AttemptTerminal
<1> HIDE DEF row
<1> QED BY <1>1, <1>3, AttemptRowInv

\* The passing of a deadline or of a lease keeps the invariant.
LEMMA ReachDeadlineInv ==
  ASSUME Inv(db), NEW a \in Attempts, NEW d \in Deadlines, ReachDeadline(a, d)
  PROVE  Inv(db') /\ Moves(db, db')
<1> DEFINE row == [db.attempt[a] EXCEPT !.due = @ \cup {d}]
<1>1. db' = [db EXCEPT !.attempt[a] = row]
  BY DEF ReachDeadline
<1>2. /\ db.attempt[a] \in AttemptRow /\ RowShape(db.attempt[a])
      /\ db.attempt[a].assignment = "pending" \/ db.attempt[a].lease = "active"
  BY InvFacts DEF ReachDeadline, Armed
<1>3. /\ row \in AttemptRow /\ RowShape(row) /\ row.status = db.attempt[a].status
      /\ row.code = db.attempt[a].code /\ row.lease = db.attempt[a].lease
      /\ row.receipt = db.attempt[a].receipt \/ db.attempt[a].receipt = "none"
  BY <1>2 DEF AttemptRow, RowShape, NoAttempt, AttemptTerminal
<1> HIDE DEF row
<1> QED BY <1>1, <1>3, AttemptRowInv

\* A report that is accepted ends its attempt and keeps the invariant (completeAttempt).
LEMMA CompleteAcceptedInv ==
  ASSUME Inv(db), NEW a \in Attempts, NEW result \in Results, CompleteAccepted(a, result)
  PROVE  Inv(db') /\ Moves(db, db')
<1> DEFINE res == EffectiveResult(db, a, result)
           ended == Ended(db.attempt[a], res.status, res.code, "completed", "released")
           row == [ended EXCEPT !.receipt = "accepted"]
<1>1. db' = Conclude(db, a, row, res.status, res.code)
  BY DEF CompleteAccepted
<1>2. /\ res.status \in AttemptTerminal /\ res.code \in CodeClasses
      /\ db.run[a[1]].cancel => res.status = "cancelled"
  <2>1. result \in AllResults
    BY ControlAssumption
  <2>2. result.status \in AttemptTerminal /\ result.code \in CodeClasses
    BY <2>1 DEF AllResults, AttemptTerminal, CodeClasses
  <2> QED BY <2>2, Words DEF EffectiveResult
<1>3. db.attempt[a] \in AttemptRow /\ db.attempt[a].status \in RunInFlight
  BY InvFacts DEF CompleteAccepted
<1>4. \A st \in AttemptTerminal, c \in CodeClasses :
        LET e == Ended(db.attempt[a], st, c, "completed", "released")
        IN  /\ e \in AttemptRow /\ e.status = st /\ e.code = c
            /\ e.assignment = "completed" /\ e.lease = "released"
  <2> DEFINE old == db.attempt[a]
  <2>1. old \in AttemptRow
    BY <1>3
  <2> HIDE DEF old
  <2>2. \A st \in AttemptTerminal, c \in CodeClasses :
          LET e == Ended(old, st, c, "completed", "released")
          IN  /\ e \in AttemptRow /\ e.status = st /\ e.code = c
              /\ e.assignment = "completed" /\ e.lease = "released"
    BY <2>1, Words, EndedType
  <2> QED BY <2>2 DEF old
<1> HIDE DEF res
<1>5. /\ ended \in AttemptRow /\ ended.status = res.status /\ ended.code = res.code
      /\ ended.assignment = "completed" /\ ended.lease = "released"
  BY <1>2, <1>4
<1> HIDE DEF ended
<1>6. /\ row \in AttemptRow /\ RowShape(row) /\ row.status = res.status
      /\ row.code = res.code /\ row.receipt = "accepted"
  BY <1>2, <1>5 DEF AttemptRow, RowShape, AttemptTerminal
<1> HIDE DEF row
<1>7. Ends(db.attempt[a], row)
  BY <1>2, <1>3, <1>6 DEF Ends, CompleteAccepted
<1>8. db.run[a[1]].cancel => res.status # "succeeded"
  BY <1>2
<1> QED BY <1>1, <1>2, <1>3, <1>6, <1>7, <1>8, AttemptPair, ConcludeInv

\* Both expiries of the recovery scan.
LEMMA ExpireAttemptInv ==
  ASSUME Inv(db), NEW a \in Attempts, db.attempt[a].status \in RunInFlight,
         NEW l \in {"none", "expired"}, NEW c \in {"abnormal", "runner"},
         Leased(db.attempt[a]) =>
           l = "expired" /\ db.attempt[a].due \cap {"execution", "upload"} # {}
  PROVE  Inv(ExpireAttempt(a, l, c)) /\ Moves(db, ExpireAttempt(a, l, c))
<1> DEFINE old == db.attempt[a]
           row == Ended(old, "timed_out", c, "expired", l)
<1>1. ExpireAttempt(a, l, c) = Conclude(db, a, row, "timed_out", c)
  BY DEF ExpireAttempt
<1>2. old \in AttemptRow /\ RowShape(old) /\ old.status \in RunInFlight
  BY InvFacts
<1> HIDE DEF old
<1>3. l \in Leases /\ c \in CodeClasses
  BY DEF Leases, CodeClasses
<1>4. /\ row \in AttemptRow /\ row.status = "timed_out" /\ row.code = c
      /\ row.assignment = "expired" /\ row.lease = l /\ row.receipt = old.receipt
  <2>1. \A st \in AttemptTerminal, asg \in Assignments :
          LET e == Ended(old, st, c, asg, l)
          IN  /\ e \in AttemptRow /\ e.status = st /\ e.code = c /\ e.assignment = asg
              /\ e.lease = l /\ e.receipt = old.receipt
    BY <1>2, <1>3, EndedType
  <2> QED BY <2>1, Words
<1> HIDE DEF row
<1>5. RowShape(row)
  BY <1>2, <1>4 DEF RowShape, AttemptTerminal, RunInFlight
<1>6. "timed_out" \in AttemptTerminal /\ "timed_out" # "succeeded"
  BY DEF AttemptTerminal
<1>7. Ends(db.attempt[a], row)
  BY <1>2, <1>4, <1>6 DEF Ends, old
<1> QED BY <1>1, <1>2, <1>3, <1>4, <1>5, <1>6, <1>7, AttemptPair, ConcludeInv DEF old

\* The expiry of leased work keeps the invariant (recoverExpired).
LEMMA ExpireLeasedInv ==
  ASSUME Inv(db), NEW a \in Attempts, ExpireLeased(a)
  PROVE  Inv(db') /\ Moves(db, db')
<1>1. ExpirationCode(db.attempt[a]) \in {"abnormal", "runner"}
  BY DEF ExpirationCode
<1>2. Leased(db.attempt[a]) => db.attempt[a].due \cap {"execution", "upload"} # {}
  BY DEF ExpireLeased, LeasedWorkOverdue, Leased
<1> QED BY <1>1, <1>2, ExpireAttemptInv DEF ExpireLeased

\* The expiry of work nobody claimed keeps the invariant (recoverExpired).
LEMMA ExpireUnclaimedInv ==
  ASSUME Inv(db), NEW a \in Attempts, ExpireUnclaimed(a)
  PROVE  Inv(db') /\ Moves(db, db')
<1>1. db.attempt[a].status \in RunInFlight /\ db.attempt[a].lease = "none"
  BY InvFacts DEF ExpireUnclaimed, RowShape, RunInFlight
<1>2. ~Leased(db.attempt[a])
  BY <1>1 DEF Leased
<1> QED BY <1>1, <1>2, ExpireAttemptInv DEF ExpireUnclaimed

\* A run whose queue window is over fails and keeps the invariant (recoverExpired).
LEMMA QueueTimeoutInv ==
  ASSUME Consistent(db), NEW r \in Runs, QueueTimeout(r)
  PROVE  Inv(db') /\ Moves(db, db')
<1> DEFINE old == db.run[r]
           row == RunEnded(old, "failed", "timed_out", "abnormal")
           t == [db EXCEPT !.run[r] = row]
<1>1. db' = UpdateBatchStatus(t) /\ db.batch.status \in BatchOpen
  BY DEF QueueTimeout
<1>2. old \in RunRow /\ old.status = "queued"
  BY DEF QueueTimeout, Schedulable, Consistent, Database
<1> HIDE DEF old
<1>3. /\ row \in RunRow /\ row.status = "failed" /\ row.attempts = old.attempts
      /\ row.cancel = old.cancel
  BY <1>2, Words, RunEndedType
<1>4. ~row.queueDue
  BY <1>2, RunEndedDue
<1> HIDE DEF row
<1>5. /\ t \in Database /\ t.batch = db.batch /\ t.attempt = db.attempt
      /\ t.recovery = db.recovery /\ t.run = [db.run EXCEPT ![r] = row]
  BY <1>3 DEF Consistent, Database
<1> HIDE DEF t
<1>6. \A q \in Runs : t.run[q] = IF q = r THEN row ELSE db.run[q]
  BY <1>5 DEF Consistent, Database
<1>7. RowsAgree(t)
  BY <1>2, <1>3, <1>5, <1>6 DEF Consistent, RowsAgree, RunInFlight, old
<1>8. RoundsAgree(t) /\ DueAgrees(t)
  BY <1>2, <1>3, <1>4, <1>5, <1>6 DEF Consistent, RoundsAgree, DueAgrees, RunTerminal
<1>9. Consistent(t)
  BY <1>5, <1>7, <1>8 DEF Consistent
<1>10. ASSUME NEW q \in Runs
      PROVE  RunStep(db, t, q)
  BY <1>2, <1>3, <1>5, <1>6 DEF QueueTimeout, RunStep, RunTerminal, Honoured, old
<1>11. BatchStep(db, t)
  BY <1>1, <1>5 DEF BatchStep, Verdict, BatchOpen, BatchTerminal
<1>12. Moves(db, t)
  BY <1>5, <1>10, <1>11, StillAttempt DEF Moves
<1> QED BY <1>1, <1>5, <1>9, <1>12, UpdateMoves

\* Settling a terminating batch keeps the invariant.
LEMMA SettleTerminatingBatchInv ==
  ASSUME Inv(db), SettleTerminatingBatch
  PROVE  Inv(db') /\ Moves(db, db')
<1>1. Moves(db, db)
  BY StillBatch, StillAttempt
<1> QED BY <1>1, UpdateMoves DEF SettleTerminatingBatch, Inv

\* Pausing keeps the invariant (changeBatchScheduling).
LEMMA PauseBatchInv ==
  ASSUME Inv(db), PauseBatch
  PROVE  Inv(db') /\ Moves(db, db')
<1>1. /\ db' \in Database /\ db'.run = db.run /\ db'.attempt = db.attempt
      /\ db'.batch.status = db.batch.status /\ db'.batch.round = db.batch.round
      /\ db'.batch.terminating = db.batch.terminating
      /\ db.batch.status \in BatchOpen /\ ~db.batch.paused
  BY DEF PauseBatch, Inv, Consistent, Database
<1>2. Inv(db')
  BY <1>1 DEF Inv, Consistent, RowsAgree, RoundsAgree, DueAgrees, AllSettled
<1>3. \A r \in Runs : RunStep(db, db', r)
  BY <1>1 DEF RunStep
<1>4. BatchStep(db, db')
  BY <1>1 DEF BatchStep, Verdict, BatchOpen, BatchTerminal
<1> QED BY <1>1, <1>2, <1>3, <1>4, StillAttempt DEF Moves

\* The end of a queue window keeps the invariant.
LEMMA ReachQueueDeadlineInv ==
  ASSUME Inv(db), NEW r \in Runs, ReachQueueDeadline(r)
  PROVE  Inv(db') /\ Moves(db, db')
<1> DEFINE row == [db.run[r] EXCEPT !.queueDue = TRUE]
<1>1. /\ row \in RunRow /\ row.status = db.run[r].status
      /\ row.attempts = db.run[r].attempts /\ row.cancel = db.run[r].cancel
      /\ row.held = db.run[r].held /\ row.round = db.run[r].round
  BY DEF Inv, Consistent, Database, RunRow
<1>2. db' = [db EXCEPT !.run[r] = row]
  BY DEF ReachQueueDeadline
<1>3. db.run[r].status = "queued"
  BY DEF ReachQueueDeadline, Schedulable
<1> HIDE DEF row
<1>4. /\ db' \in Database /\ db'.batch = db.batch /\ db'.attempt = db.attempt
      /\ db'.recovery = db.recovery /\ db'.run = [db.run EXCEPT ![r] = row]
  BY <1>1, <1>2 DEF Inv, Consistent, Database
<1>5. \A q \in Runs :
        /\ db'.run[q].status = db.run[q].status
        /\ db'.run[q].attempts = db.run[q].attempts /\ db'.run[q].cancel = db.run[q].cancel
        /\ db'.run[q].held = db.run[q].held /\ db'.run[q].round = db.run[q].round
        /\ q # r => db'.run[q] = db.run[q]
  BY <1>1, <1>4 DEF Inv, Consistent, Database
<1>6. Moves(db, db')
  <2>1. \A q \in Runs : db.run[q].status \in RunTerminal => db'.run[q] = db.run[q]
    BY <1>3, <1>5 DEF RunTerminal
  <2>2. \A a \in Attempts : AttemptStep(db.attempt[a], db'.attempt[a])
    BY <1>4, StillAttempt
  <2>3. \A q \in Runs : Honoured(db.run[q]) => Honoured(db'.run[q])
    BY <1>5 DEF Honoured
  <2> QED BY <1>4, <1>5, <2>1, <2>2, <2>3, StillBatch
<1>7. Inv(db')
  BY <1>3, <1>4, <1>5 DEF Inv, Consistent, RowsAgree, RoundsAgree, DueAgrees, AllSettled,
                         RunTerminal
<1> QED BY <1>6, <1>7

\* Resuming keeps the invariant (changeBatchScheduling).
LEMMA ResumeBatchInv ==
  ASSUME Consistent(db), ResumeBatch
  PROVE  Inv(db') /\ Moves(db, db')
<1> DEFINE Fresh(q) == [db.run[q] EXCEPT !.queueDue = FALSE]
           f == [q \in Runs |-> Fresh(q)]
           t == [db EXCEPT !.batch.paused = FALSE, !.run = f]
<1>1. db' = UpdateBatchStatus(t) /\ db.batch.status \in BatchOpen
  BY DEF ResumeBatch
<1>2. \A q \in Runs :
        /\ Fresh(q) \in RunRow /\ Fresh(q).status = db.run[q].status
        /\ Fresh(q).attempts = db.run[q].attempts /\ Fresh(q).cancel = db.run[q].cancel
        /\ Fresh(q).held = db.run[q].held /\ Fresh(q).round = db.run[q].round
        /\ ~Fresh(q).queueDue
        /\ ~db.run[q].queueDue => Fresh(q) = db.run[q]
  <2>1. \A q \in Runs : db.run[q] \in RunRow
    BY DEF Consistent, Database
  <2>2. ASSUME NEW row \in RunRow
        PROVE  /\ [row EXCEPT !.queueDue = FALSE] \in RunRow
               /\ [row EXCEPT !.queueDue = FALSE].status = row.status
               /\ [row EXCEPT !.queueDue = FALSE].attempts = row.attempts
               /\ [row EXCEPT !.queueDue = FALSE].cancel = row.cancel
               /\ [row EXCEPT !.queueDue = FALSE].held = row.held
               /\ [row EXCEPT !.queueDue = FALSE].round = row.round
               /\ ~[row EXCEPT !.queueDue = FALSE].queueDue
               /\ ~row.queueDue => [row EXCEPT !.queueDue = FALSE] = row
    BY DEF RunRow
  <2> QED  BY <2>1, <2>2
<1> HIDE DEF Fresh
<1>3. f \in [Runs -> RunRow] /\ \A q \in Runs : f[q] = Fresh(q)
  BY <1>2
<1> HIDE DEF f
<1>4. /\ t \in Database /\ t.attempt = db.attempt /\ t.run = f
      /\ t.batch.status = db.batch.status /\ t.batch.round = db.batch.round
      /\ ~t.batch.paused /\ t.batch.terminating = db.batch.terminating
  BY <1>3 DEF Consistent, Database
<1> HIDE DEF t
<1>5. Consistent(t)
  BY <1>2, <1>3, <1>4 DEF Consistent, RowsAgree, RoundsAgree, DueAgrees
<1>6. \A q \in Runs : db.run[q].status \in RunTerminal => t.run[q] = db.run[q]
  BY <1>2, <1>3, <1>4 DEF Consistent, DueAgrees
<1>7. Moves(db, t)
  <2>1. \A q \in Runs : RunStep(db, t, q)
    BY <1>2, <1>3, <1>4, <1>6 DEF RunStep, Honoured
  <2>2. BatchStep(db, t)
    BY <1>1, <1>4 DEF BatchStep, Verdict, BatchOpen, BatchTerminal
  <2> QED BY <1>4, <2>1, <2>2, StillAttempt DEF Moves
<1> QED BY <1>1, <1>4, <1>5, <1>7, UpdateMoves

\* Terminating keeps the invariant (terminateBatch).
LEMMA TerminateBatchInv ==
  ASSUME Consistent(db), TerminateBatch
  PROVE  Inv(db') /\ Moves(db, db')
<1> DEFINE v == [p \in RecoverySteps |->
                  IF db.recovery[p] \in {"idle"} \cup RecoveryActive
                  THEN "cancelled" ELSE db.recovery[p]]
           t == [db EXCEPT !.batch.terminating = TRUE, !.recovery = v]
           m == TerminateWaitingRuns(t)
<1>1. db' = UpdateBatchStatus(m) /\ db.batch.status \in BatchOpen
  BY DEF TerminateBatch
<1>2. \A p \in RecoverySteps : v[p] # "pending"
  BY DEF RecoveryActive
<1>3. v \in [RecoverySteps -> {"idle", "succeeded", "failed", "cancelled"} \cup RecoveryActive]
  BY DEF Consistent, Database
<1> HIDE DEF v
<1>4. /\ t \in Database /\ t.attempt = db.attempt /\ t.run = db.run
      /\ t.batch.status = db.batch.status /\ t.batch.round = db.batch.round
      /\ t.recovery = v
  BY <1>3 DEF Consistent, Database
<1> HIDE DEF t
<1>5. Consistent(t)
  BY <1>4 DEF Consistent, RowsAgree, RoundsAgree, DueAgrees
<1>6. Consistent(m) /\ m.batch = t.batch
  BY <1>5, TerminateWaitingRunsConsistent
<1>7. /\ \A a \in Attempts : m.attempt[a] = WaitingClosed(t.attempt[a])
      /\ \A r \in Runs : \/ m.run[r] = t.run[r]
                         \/ /\ m.run[r].attempts = t.run[r].attempts
                            /\ t.run[r].status \notin RunTerminal
                            /\ m.run[r].status = "cancelled"
      /\ m.recovery = t.recovery
  BY <1>4, TerminateWaitingRunsRows
<1> HIDE DEF m
<1>8. ASSUME NEW a \in Attempts
      PROVE  /\ AttemptStep(db.attempt[a], m.attempt[a])
             /\ m.attempt[a].status \in RunInFlight => m.attempt[a] = db.attempt[a]
  <2> DEFINE old == db.attempt[a]
  <2>1. old \in AttemptRow /\ RowShape(old) /\ m.attempt[a] = WaitingClosed(old)
    BY <1>4, <1>7, AttemptPair DEF Consistent, Database
  <2> HIDE DEF old
  <2>2. CASE old.status \in RunInFlight /\ ~Protected(old)
    <3>1. ~Leased(old)
      BY <2>1, <2>2 DEF RowShape, RunInFlight, Protected, Leased
    <3>2. WaitingClosed(old).status = "cancelled" /\ WaitingClosed(old).receipt = old.receipt
      BY <2>1, <2>2, WaitingClosedShape
    <3> QED BY <2>1, <2>2, <3>1, <3>2 DEF AttemptStep, Ends, AttemptTerminal, RunInFlight, old
  <2>3. CASE ~(old.status \in RunInFlight /\ ~Protected(old))
    BY <2>1, <2>3, WaitingClosedShape, StillAttempt DEF old
  <2> QED BY <2>2, <2>3
<1>9. ASSUME NEW r \in Runs
      PROVE  RunStep(db, m, r)
  BY <1>4, <1>7 DEF RunStep, RunTerminal, Honoured
<1>10. BatchStep(db, m)
  BY <1>1, <1>2, <1>4, <1>6, <1>7 DEF BatchStep, Verdict, BatchOpen, BatchTerminal
<1>11. Moves(db, m)
  BY <1>8, <1>9, <1>10 DEF Moves
<1> QED BY <1>1, <1>4, <1>6, <1>8, <1>11, UpdateMoves DEF m

\* Claiming reserved work keeps the invariant (claim).
LEMMA ClaimInv ==
  ASSUME Inv(db), NEW S \in SUBSET Attempts, Claim(S)
  PROVE  Inv(db') /\ Moves(db, db')
<1> DEFINE Taken(a) == [db.attempt[a] EXCEPT !.assignment = "claimed", !.lease = "active",
                          !.status = IF @ = "assigned" THEN "running" ELSE @]
           Started(r) == [db.run[r] EXCEPT !.status = "running"]
           Starts(r) == db.run[r].status = "assigned" /\ \E a \in S : a[1] = r
           g == [a \in Attempts |-> IF a \notin S THEN db.attempt[a] ELSE Taken(a)]
           f == [r \in Runs |-> IF Starts(r) THEN Started(r) ELSE db.run[r]]
           t == [db EXCEPT !.attempt = g, !.run = f]
<1>1. db' = UpdateBatchStatus(t)
  BY DEF Claim
<1>2. \A a \in S : /\ db.attempt[a] \in AttemptRow
                   /\ db.attempt[a].status = "assigned" /\ db.attempt[a].receipt = "none"
  <2> SUFFICES ASSUME NEW a \in S
               PROVE  /\ db.attempt[a] \in AttemptRow
                      /\ db.attempt[a].status = "assigned" /\ db.attempt[a].receipt = "none"
    OBVIOUS
  <2>1. /\ db.attempt[a].assignment = "pending" /\ db.attempt[a] \in AttemptRow
        /\ RowShape(db.attempt[a])
    BY InvFacts DEF Claim
  <2>2. db.attempt[a].status = "assigned"
    BY <2>1 DEF AttemptRow, RunInFlight, AttemptTerminal, RowShape, NoAttempt
  <2> QED BY <2>1, <2>2 DEF RowShape
<1>3. \A a \in S : /\ Taken(a) \in AttemptRow /\ Taken(a).status = "running"
                   /\ RowShape(Taken(a)) /\ Taken(a).lease = "active"
                   /\ Taken(a).receipt = db.attempt[a].receipt
  <2> SUFFICES ASSUME NEW a \in S
               PROVE  /\ Taken(a) \in AttemptRow /\ Taken(a).status = "running"
                      /\ RowShape(Taken(a)) /\ Taken(a).lease = "active"
                      /\ Taken(a).receipt = db.attempt[a].receipt
    OBVIOUS
  <2> DEFINE row == Taken(a)
  <2>1. /\ row \in AttemptRow /\ row.status = "running" /\ row.assignment = "claimed"
        /\ row.lease = "active" /\ row.receipt = "none"
    BY <1>2 DEF AttemptRow, AssignmentOpen, RunInFlight
  <2> HIDE DEF row
  <2>2. RowShape(row)
    BY <2>1 DEF RowShape, AttemptTerminal
  <2> QED BY <1>2, <2>1, <2>2 DEF row
<1>4. \A r \in Runs : /\ db.run[r] \in RunRow
                      /\ Started(r) \in RunRow /\ Started(r).status = "running"
                      /\ Started(r).attempts = db.run[r].attempts
                      /\ Started(r).held = db.run[r].held /\ Started(r).round = db.run[r].round
                      /\ Started(r).cancel = db.run[r].cancel
  BY DEF Inv, Consistent, Database, RunRow, RunInFlight
<1> HIDE DEF Taken, Started
<1>5. g \in [Attempts -> AttemptRow] /\ f \in [Runs -> RunRow]
  BY <1>3, <1>4 DEF Inv, Consistent, Database
<1>6. /\ \A r \in Runs, n \in AttemptNumbers :
           g[<<r, n>>] = IF <<r, n>> \notin S THEN db.attempt[<<r, n>>] ELSE Taken(<<r, n>>)
      /\ \A r \in Runs : f[r] = IF Starts(r) THEN Started(r) ELSE db.run[r]
  BY DEF Attempts
<1> HIDE DEF f, g
<1>7. /\ t \in Database /\ t.run = f /\ t.attempt = g /\ t.batch = db.batch
      /\ t.recovery = db.recovery
  BY <1>5 DEF Inv, Consistent, Database
<1> HIDE DEF t
\* An unclaimed attempt is the latest of its run.
<1>8. \A a \in S : /\ a[1] \in Runs /\ a[2] \in AttemptNumbers /\ a = <<a[1], a[2]>>
                   /\ a[2] = db.run[a[1]].attempts /\ db.run[a[1]].status = "assigned"
  <2> SUFFICES ASSUME NEW a \in S
               PROVE  /\ a[1] \in Runs /\ a[2] \in AttemptNumbers /\ a = <<a[1], a[2]>>
                      /\ a[2] = db.run[a[1]].attempts /\ db.run[a[1]].status = "assigned"
    OBVIOUS
  <2>1. /\ a[1] \in Runs /\ a[2] \in AttemptNumbers /\ a = <<a[1], a[2]>>
        /\ db.attempt[<<a[1], a[2]>>].status = "assigned"
    BY <1>2, AttemptPair
  <2>2. RowsAgree(db)
    BY DEF Inv, Consistent
  <2>3. a[2] = db.run[a[1]].attempts /\ db.run[a[1]].status \in RunInFlight
    BY <2>1, <2>2 DEF RowsAgree, RunInFlight
  <2>4. db.run[a[1]].status = "assigned"
    BY <2>1, <2>2, <2>3 DEF RowsAgree
  <2> QED BY <2>1, <2>3, <2>4
<1>9. \A r \in Runs : Starts(r) <=>
        db.run[r].status = "assigned" /\ <<r, db.run[r].attempts>> \in S
  BY <1>8
<1>10. RowsAgree(t)
  <2> SUFFICES ASSUME NEW r \in Runs
               PROVE  /\ t.run[r].attempts # 0 =>
                           /\ t.run[r].attempts \in AttemptNumbers
                           /\ t.attempt[<<r, t.run[r].attempts>>].status # "absent"
                      /\ t.run[r].status \in RunInFlight =>
                           /\ t.run[r].attempts \in AttemptNumbers
                           /\ t.attempt[<<r, t.run[r].attempts>>].status = t.run[r].status
                      /\ \A n \in AttemptNumbers : t.attempt[<<r, n>>].status \in RunInFlight =>
                           n = t.run[r].attempts /\ t.run[r].status \in RunInFlight
    BY DEF RowsAgree
  <2>1. RowsAgree(db)
    BY DEF Inv, Consistent
  <2>2. CASE Starts(r)
    <3> DEFINE n == db.run[r].attempts
    <3>1. /\ <<r, n>> \in S /\ n \in AttemptNumbers
          /\ \A k \in AttemptNumbers : db.attempt[<<r, k>>].status \in RunInFlight => k = n
      BY <1>9, <2>1, <2>2 DEF RowsAgree, RunInFlight
    <3>2. t.run[r].status = "running" /\ t.run[r].attempts = n
      BY <1>4, <1>6, <1>7, <2>2
    <3>3. t.attempt[<<r, n>>].status = "running"
      BY <1>3, <1>6, <1>7, <3>1
    <3>4. \A k \in AttemptNumbers : <<r, k>> \in S => k = n
      BY <1>8
    <3>5. \A k \in AttemptNumbers : t.attempt[<<r, k>>].status \in RunInFlight => k = n
      BY <1>6, <1>7, <3>1, <3>4
    <3> HIDE DEF n
    <3> QED BY <3>1, <3>2, <3>3, <3>5 DEF RunInFlight
  <2>3. CASE ~Starts(r)
    <3>1. \A n \in AttemptNumbers : <<r, n>> \notin S
      BY <1>8, <2>3
    <3> QED BY <1>6, <1>7, <2>1, <2>3, <3>1 DEF RowsAgree
  <2> QED BY <2>2, <2>3
<1>11. \A r \in Runs, n \in AttemptNumbers : RowShape(t.attempt[<<r, n>>])
  BY <1>3, <1>6, <1>7 DEF Inv, Consistent
<1>12. RoundsAgree(t)
  BY <1>4, <1>6, <1>7 DEF Inv, Consistent, RoundsAgree, RunTerminal
<1>13. DueAgrees(t)
  BY <1>4, <1>6, <1>7 DEF Inv, Consistent, DueAgrees, RunTerminal
<1>14. db.batch.status \in BatchOpen
  <2>1. ~AllSettled(db)
    BY <1>8 DEF Claim, AllSettled, RunTerminal
  <2> QED BY <2>1 DEF Inv, Consistent, Database
<1>15. Consistent(t)
  BY <1>7, <1>10, <1>11, <1>12, <1>13 DEF Consistent
<1>16. ASSUME NEW a \in Attempts
       PROVE  AttemptStep(db.attempt[a], t.attempt[a])
  <2>1. t.attempt[a] = IF a \notin S THEN db.attempt[a] ELSE Taken(a)
    BY <1>6, <1>7, AttemptPair
  <2> QED BY <1>2, <1>3, <2>1, StillAttempt DEF AttemptStep
<1>17. ASSUME NEW r \in Runs
       PROVE  RunStep(db, t, r)
  <2>1. CASE Starts(r)
    BY <1>4, <1>6, <1>7, <2>1 DEF RunStep, RunInFlight, RunTerminal, Honoured
  <2>2. CASE ~Starts(r)
    BY <1>6, <1>7, <2>2 DEF RunStep
  <2> QED BY <2>1, <2>2
<1>18. BatchStep(db, t)
  BY <1>7, <1>14 DEF BatchStep, Verdict, BatchOpen, BatchTerminal
<1>19. Moves(db, t)
  BY <1>16, <1>17, <1>18 DEF Moves
<1>20. ~t.batch.terminating
  BY <1>7 DEF Claim
<1> QED BY <1>1, <1>7, <1>14, <1>15, <1>19, <1>20, UpdateMoves DEF Inv

\* The rows of a reservation (reserveAssignments).
LEMMA ReserveAssignmentsRows ==
  ASSUME Consistent(db), NEW D \in SUBSET Runs, ReserveAssignments(D)
  PROVE  /\ Consistent(db') /\ Reserves(db, db', D)
         /\ db'.recovery = db.recovery
         /\ \E st \in BatchStatuses : db'.batch = [db.batch EXCEPT !.status = st]
<1> DEFINE Taken(r) == [db.run[r] EXCEPT !.status = "assigned", !.attempts = @ + 1]
           new == [NoAttempt EXCEPT !.status = "assigned", !.assignment = "pending"]
           f == [r \in Runs |-> IF r \in D THEN Taken(r) ELSE db.run[r]]
           g == [a \in Attempts |->
                  IF a[1] \in D /\ a[2] = db.run[a[1]].attempts + 1 THEN new ELSE db.attempt[a]]
           s == [db EXCEPT !.run = f, !.attempt = g]
           t == [s EXCEPT !.batch.status = SchedulingStatus(s)]
<1>1. db' = t
  BY DEF ReserveAssignments, Reserve
<1>2. \A r \in Runs : db.run[r] \in RunRow
  BY DEF Consistent, Database
<1>3. \A r \in D : /\ db.run[r].status = "queued" /\ db.run[r].held = 0
                   /\ db.run[r].attempts + 1 \in AttemptNumbers
  BY DEF ReserveAssignments, Reservable, Schedulable
<1>4. \A r \in D : /\ Taken(r) \in RunRow /\ Taken(r).status = "assigned"
                   /\ Taken(r).attempts = db.run[r].attempts + 1 /\ Taken(r).held = 0
                   /\ Taken(r).round = db.run[r].round /\ Taken(r).cancel = db.run[r].cancel
  <2> SUFFICES ASSUME NEW r \in D
               PROVE  /\ Taken(r) \in RunRow /\ Taken(r).status = "assigned"
                      /\ Taken(r).attempts = db.run[r].attempts + 1 /\ Taken(r).held = 0
                      /\ Taken(r).round = db.run[r].round /\ Taken(r).cancel = db.run[r].cancel
    OBVIOUS
  <2> DEFINE old == db.run[r]
  <2>1. old \in RunRow /\ old.held = 0 /\ old.attempts + 1 \in Nat
    BY <1>2, <1>3 DEF RunRow
  <2>2. Taken(r) = [old EXCEPT !.status = "assigned", !.attempts = old.attempts + 1]
    OBVIOUS
  <2> HIDE DEF old, Taken
  <2> QED BY <2>1, <2>2 DEF RunRow, RunInFlight, old
<1>5. /\ new \in AttemptRow /\ new.status = "assigned" /\ new.assignment = "pending"
      /\ new.lease = "none" /\ new.receipt = "none"
  BY DEF NoAttempt, AttemptRow, RunInFlight, AssignmentOpen
<1> HIDE DEF Taken, new
<1>6. f \in [Runs -> RunRow] /\ g \in [Attempts -> AttemptRow]
  BY <1>2, <1>4, <1>5 DEF Consistent, Database
<1>7. /\ \A r \in Runs : f[r] = IF r \in D THEN Taken(r) ELSE db.run[r]
      /\ \A r \in Runs, n \in AttemptNumbers :
           g[<<r, n>>] = IF r \in D /\ n = db.run[r].attempts + 1 THEN new
                         ELSE db.attempt[<<r, n>>]
  BY DEF Attempts
<1> HIDE DEF f, g
<1>8. /\ s \in Database /\ s.run = f /\ s.attempt = g /\ s.batch = db.batch
      /\ s.recovery = db.recovery
  BY <1>6 DEF Consistent, Database
<1> HIDE DEF s
<1>9. RowsAgree(s)
  <2> SUFFICES ASSUME NEW r \in Runs
               PROVE  /\ s.run[r].attempts # 0 =>
                           /\ s.run[r].attempts \in AttemptNumbers
                           /\ s.attempt[<<r, s.run[r].attempts>>].status # "absent"
                      /\ s.run[r].status \in RunInFlight =>
                           /\ s.run[r].attempts \in AttemptNumbers
                           /\ s.attempt[<<r, s.run[r].attempts>>].status = s.run[r].status
                      /\ \A n \in AttemptNumbers : s.attempt[<<r, n>>].status \in RunInFlight =>
                           n = s.run[r].attempts /\ s.run[r].status \in RunInFlight
    BY DEF RowsAgree
  <2>1. RowsAgree(db)
    BY DEF Consistent
  <2>2. CASE r \in D
    <3>1. /\ s.run[r].status = "assigned" /\ s.run[r].attempts = db.run[r].attempts + 1
          /\ s.run[r].attempts \in AttemptNumbers
          /\ s.attempt[<<r, s.run[r].attempts>>].status = "assigned"
      BY <1>3, <1>4, <1>5, <1>7, <1>8, <2>2
    <3>2. \A n \in AttemptNumbers : n # s.run[r].attempts =>
            s.attempt[<<r, n>>].status \notin RunInFlight
      <4> SUFFICES ASSUME NEW n \in AttemptNumbers, n # s.run[r].attempts
                   PROVE  s.attempt[<<r, n>>].status \notin RunInFlight
        OBVIOUS
      <4>1. s.attempt[<<r, n>>] = db.attempt[<<r, n>>]
        BY <1>7, <1>8, <3>1
      <4>2. db.run[r].status \notin RunInFlight
        BY <1>3, <2>2 DEF RunInFlight
      <4> QED BY <2>1, <4>1, <4>2 DEF RowsAgree
    <3> QED BY <3>1, <3>2 DEF RunInFlight
  <2>3. CASE r \notin D
    BY <1>7, <1>8, <2>1, <2>3 DEF RowsAgree
  <2> QED BY <2>2, <2>3
<1>10. \A r \in Runs, n \in AttemptNumbers : RowShape(s.attempt[<<r, n>>])
  <2>1. RowShape(new)
    BY <1>5 DEF RowShape, AttemptTerminal
  <2> QED BY <1>7, <1>8, <2>1 DEF Consistent
<1>11. RoundsAgree(s) /\ DueAgrees(s)
  BY <1>3, <1>4, <1>7, <1>8
     DEF Consistent, RoundsAgree, DueAgrees, RunInFlight, RunTerminal
<1>12. Consistent(s)
  BY <1>8, <1>9, <1>10, <1>11 DEF Consistent
<1>13. SchedulingStatus(s) \in BatchStatuses /\ SchedulingStatus(s) \notin BatchTerminal
  BY DEF SchedulingStatus, BatchStatuses, BatchOpen, BatchTerminal
<1> DEFINE st == SchedulingStatus(s)
<1> HIDE DEF st
<1>14. LET u == [s EXCEPT !.batch.status = st]
       IN  /\ Consistent(u) /\ u.run = s.run /\ u.attempt = s.attempt
           /\ u.batch.status = st /\ u.batch.terminating = s.batch.terminating
  BY <1>12, <1>13, SetBatchStatusConsistent DEF st
<1>15. /\ t.run = s.run /\ t.attempt = s.attempt /\ t.batch.status \notin BatchTerminal
       /\ db.batch.status \in BatchOpen /\ ~db.batch.paused
       /\ D # {} => Cardinality(D) <= FreeSlots(db)
  BY <1>13, <1>14 DEF ReserveAssignments, st
<1>16. t.batch = [db.batch EXCEPT !.status = st] /\ t.recovery = db.recovery
  BY <1>8 DEF Database, st
<1>17. Consistent(t)
  BY <1>14 DEF st
<1>18. st \in BatchStatuses
  BY <1>13 DEF st
<1> HIDE DEF t
<1>19. Reserves(db, t, D)
  BY <1>3, <1>4, <1>5, <1>7, <1>8, <1>15 DEF Reserves
<1> QED BY <1>1, <1>16, <1>17, <1>18, <1>19

\* Reserving runs keeps the invariant.
LEMMA ReserveAssignmentsInv ==
  ASSUME Inv(db), NEW D \in SUBSET Runs, ReserveAssignments(D)
  PROVE  Inv(db') /\ Reserves(db, db', D)
<1> DEFINE t == db'
<1>1. /\ Consistent(t) /\ Reserves(db, t, D)
      /\ \E st \in BatchStatuses : t.batch = [db.batch EXCEPT !.status = st]
  BY ReserveAssignmentsRows DEF Inv
<1> HIDE DEF t
<1>2. ~AllSettled(db) /\ ~db.batch.terminating
  BY DEF ReserveAssignments, Inv, BatchOpen, BatchTerminal
<1>3. ~t.batch.terminating
  BY <1>1, <1>2 DEF Inv, Consistent, Database
<1>4. ~AllSettled(t)
  BY <1>1, <1>2 DEF AllSettled, Reserves, RunTerminal
<1> QED BY <1>1, <1>3, <1>4 DEF Inv, Reserves, t

\* Asking a leased run to cancel keeps the invariant (cancelRun).
LEMMA CancelLeasedRunInv ==
  ASSUME Inv(db), NEW r \in Runs, CancelLeasedRun(r)
  PROVE  Inv(db') /\ Moves(db, db')
<1> DEFINE n == db.run[r].attempts
           old == db.attempt[<<r, n>>]
           run == [db.run[r] EXCEPT !.cancel = TRUE]
           row == [old EXCEPT !.cancel = TRUE]
           t == [db EXCEPT !.run[r] = run, !.attempt[<<r, n>>] = row]
<1>1. db' = t
  BY DEF CancelLeasedRun, Latest
<1>2. /\ n # 0 /\ n \in AttemptNumbers /\ <<r, n>> \in Attempts /\ old.lease = "active"
      /\ RowsAgree(db)
  BY DEF CancelLeasedRun, HasLease, Latest, Leased, Inv, Consistent, RowsAgree, Attempts
<1>3. old \in AttemptRow /\ RowShape(old) /\ db.run[r] \in RunRow
  BY <1>2, InvFacts DEF Inv, Consistent, Database
<1>4. old.status = "running"
  BY <1>2, <1>3 DEF AttemptRow, RowShape, NoAttempt, RunInFlight, AttemptTerminal
<1>5. db.run[r].status = "running"
  BY <1>2, <1>4 DEF RowsAgree, RunInFlight
<1>6. /\ run \in RunRow /\ run.status = "running" /\ run.attempts = n
      /\ run.held = db.run[r].held /\ run.round = db.run[r].round
  BY <1>3, <1>5 DEF RunRow
<1>7. /\ row \in AttemptRow /\ RowShape(row) /\ row.status = "running"
      /\ row.code = old.code /\ row.lease = old.lease /\ row.receipt = old.receipt
  BY <1>3, <1>4 DEF AttemptRow, RowShape, AttemptTerminal
<1> HIDE DEF run, row
<1>8. /\ t \in Database /\ t.batch = db.batch /\ t.recovery = db.recovery
      /\ t.run = [db.run EXCEPT ![r] = run]
      /\ t.attempt = [db.attempt EXCEPT ![<<r, n>>] = row]
  BY <1>6, <1>7 DEF Inv, Consistent, Database
<1> HIDE DEF t
<1>9. /\ \A q \in Runs : t.run[q] = IF q = r THEN run ELSE db.run[q]
      /\ \A q \in Runs, m \in AttemptNumbers :
           t.attempt[<<q, m>>] = IF q = r /\ m = n THEN row ELSE db.attempt[<<q, m>>]
  BY <1>8 DEF Inv, Consistent, Database, Attempts
<1> HIDE DEF n, old
<1>10. \A q \in Runs, m \in AttemptNumbers :
         /\ RowShape(t.attempt[<<q, m>>])
         /\ t.attempt[<<q, m>>].status = db.attempt[<<q, m>>].status
  BY <1>4, <1>7, <1>9 DEF Inv, Consistent, old
<1>11. \A q \in Runs :
         /\ t.run[q].status = db.run[q].status /\ t.run[q].attempts = db.run[q].attempts
         /\ t.run[q].held = db.run[q].held /\ t.run[q].round = db.run[q].round
         /\ q # r => t.run[q] = db.run[q]
  BY <1>5, <1>6, <1>9 DEF n
<1>12. RowsAgree(t) /\ RoundsAgree(t)
  BY <1>8, <1>10, <1>11 DEF Inv, Consistent, RowsAgree, RoundsAgree
<1>13. DueAgrees(t)
  BY <1>5, <1>11 DEF Inv, Consistent, DueAgrees, RunTerminal
<1>14. Inv(t)
  BY <1>8, <1>10, <1>11, <1>12, <1>13 DEF Inv, Consistent, AllSettled
<1>15. Moves(db, t)
  <2>1. \A q \in Runs : db.run[q].status \in RunTerminal => t.run[q] = db.run[q]
    BY <1>5, <1>11 DEF RunTerminal
  <2>2. ASSUME NEW a \in Attempts
        PROVE  AttemptStep(db.attempt[a], t.attempt[a])
    BY <1>4, <1>7, <1>9, AttemptPair, StillAttempt DEF AttemptStep, old
  <2>3. \A q \in Runs : Honoured(db.run[q]) => Honoured(t.run[q])
    BY <1>5, <1>11 DEF Honoured
  <2> QED BY <1>8, <1>11, <2>1, <2>2, <2>3, StillBatch
<1> QED BY <1>1, <1>14, <1>15

\* What a cancellation makes of the latest attempt of a run without a lease.
LEMMA CancelledRow ==
  ASSUME NEW old \in AttemptRow, RowShape(old), old.status # "absent"
  PROVE  LET open  == old.assignment \in AssignmentOpen
             lease == IF open /\ old.lease = "active" THEN "revoked" ELSE old.lease
             asg   == IF open THEN "cancelled" ELSE old.assignment
             cut   == [old EXCEPT !.cancel = open \/ @]
             row   == IF old.status \in AttemptTerminal
                      THEN [cut EXCEPT !.assignment = asg, !.lease = lease]
                      ELSE Ended(cut, "cancelled", "cancelled", asg, lease)
         IN  /\ row \in AttemptRow /\ RowShape(row) /\ row.status \in AttemptTerminal
             /\ row = old \/ (old.status \in RunInFlight /\ row.receipt = old.receipt)
<1> DEFINE open  == old.assignment \in AssignmentOpen
           lease == IF open /\ old.lease = "active" THEN "revoked" ELSE old.lease
           asg   == IF open THEN "cancelled" ELSE old.assignment
           cut   == [old EXCEPT !.cancel = open \/ @]
<1>1. CASE old.status \in AttemptTerminal
  <2>1. ~open /\ lease = old.lease /\ asg = old.assignment
    BY <1>1 DEF RowShape, AssignmentOpen
  <2>2. cut = old
    BY <2>1 DEF AttemptRow
  <2>3. [cut EXCEPT !.assignment = asg, !.lease = lease] = old
    BY <2>1, <2>2 DEF AttemptRow
  <2> QED BY <1>1, <2>3
<1>2. CASE old.status \notin AttemptTerminal
  <2>1. old.status \in RunInFlight
    BY <1>2 DEF AttemptRow
  <2>2. open /\ asg = "cancelled" /\ lease \in {"none", "revoked"} /\ old.receipt # "accepted"
    BY <2>1 DEF RowShape, AssignmentOpen, RunInFlight
  <2>3. cut \in AttemptRow /\ cut.receipt = old.receipt
    BY DEF AttemptRow
  <2>4. lease \in Leases
    BY <2>2 DEF Leases
  <2> DEFINE row == Ended(cut, "cancelled", "cancelled", "cancelled", lease)
  <2> HIDE DEF lease, cut
  <2>5. /\ row \in AttemptRow /\ row.status = "cancelled" /\ row.assignment = "cancelled"
        /\ row.lease = lease /\ row.receipt = cut.receipt
    BY <2>3, <2>4, Words, EndedType
  <2> HIDE DEF row
  <2>6. RowShape(row) /\ row.status \in AttemptTerminal
    BY <2>2, <2>3, <2>5 DEF RowShape, AttemptTerminal
  <2> QED BY <1>2, <2>1, <2>2, <2>3, <2>5, <2>6 DEF row, lease, cut
<1> QED BY <1>1, <1>2

\* Cancelling a run without a lease keeps the invariant (cancelRun).
LEMMA CancelWaitingRunInv ==
  ASSUME Inv(db), NEW r \in Runs, CancelWaitingRun(r)
  PROVE  Inv(db') /\ Moves(db, db')
<1> DEFINE n == db.run[r].attempts
           ended == RunEnded(db.run[r], "cancelled", "cancelled", "cancelled")
           run == [ended EXCEPT !.cancel = TRUE]
<1>1. /\ db.run[r].status \notin RunTerminal /\ db.run[r] \in RunRow
      /\ RowsAgree(db) /\ db \in Database
  BY DEF CancelWaitingRun, Inv, Consistent, Database
<1>2. /\ run \in RunRow /\ run.status = "cancelled" /\ run.attempts = n
      /\ ~run.queueDue
  <2>1. ended \in RunRow /\ ended.status = "cancelled" /\ ended.attempts = n
    BY <1>1, RunCancelled
  <2>2. ~ended.queueDue
    BY <1>1, RunEndedDue
  <2> HIDE DEF ended
  <2> QED BY <2>1, <2>2 DEF RunRow
<1>3. db.batch.status \in BatchOpen
  BY <1>1 DEF Inv, AllSettled, Consistent, Database
<1>4. CASE n = 0
  <2> DEFINE t == [db EXCEPT !.run[r] = run]
  <2>1. db' = UpdateBatchStatus(t)
    BY <1>4 DEF CancelWaitingRun
  <2> HIDE DEF run
  <2>2. /\ t \in Database /\ t.batch = db.batch /\ t.attempt = db.attempt
        /\ t.recovery = db.recovery /\ t.run = [db.run EXCEPT ![r] = run]
    BY <1>1, <1>2 DEF Database
  <2> HIDE DEF t
  <2>3. \A q \in Runs : t.run[q] = IF q = r THEN run ELSE db.run[q]
    BY <1>1, <2>2 DEF Database
  <2>4. \A m \in AttemptNumbers : db.attempt[<<r, m>>].status \notin RunInFlight
    BY <1>1, <1>4, ControlAssumption DEF RowsAgree
  <2>5. RowsAgree(t)
    BY <1>1, <1>2, <1>4, <2>2, <2>3, <2>4 DEF RowsAgree, RunInFlight
  <2>6. RoundsAgree(t) /\ DueAgrees(t)
    BY <1>2, <2>2, <2>3 DEF Inv, Consistent, RoundsAgree, DueAgrees, RunTerminal
  <2>7. Consistent(t)
    BY <2>2, <2>5, <2>6 DEF Inv, Consistent
  <2>8. Moves(db, t)
    <3>1. \A q \in Runs : RunStep(db, t, q)
      BY <1>1, <1>2, <2>2, <2>3 DEF RunStep, RunTerminal, Honoured
    <3>2. BatchStep(db, t)
      BY <1>3, <2>2 DEF BatchStep, Verdict, BatchOpen, BatchTerminal
    <3> QED BY <2>2, <3>1, <3>2, StillAttempt DEF Moves
  <2> QED BY <1>3, <2>1, <2>2, <2>7, <2>8, UpdateMoves DEF Inv
<1>5. CASE n # 0
  <2> DEFINE old   == db.attempt[<<r, n>>]
             open  == old.assignment \in AssignmentOpen
             lease == IF open /\ old.lease = "active" THEN "revoked" ELSE old.lease
             asg   == IF open THEN "cancelled" ELSE old.assignment
             cut   == [old EXCEPT !.cancel = open \/ @]
             row   == IF old.status \in AttemptTerminal
                      THEN [cut EXCEPT !.assignment = asg, !.lease = lease]
                      ELSE Ended(cut, "cancelled", "cancelled", asg, lease)
             t == [db EXCEPT !.run[r] = run, !.attempt[<<r, n>>] = row]
  <2>1. db' = UpdateBatchStatus(t)
    BY <1>5 DEF CancelWaitingRun, Latest
  <2>2. /\ n \in AttemptNumbers /\ <<r, n>> \in Attempts /\ old.status # "absent"
        /\ ~Leased(old)
    BY <1>1, <1>5 DEF RowsAgree, Attempts, CancelWaitingRun, HasLease, Latest
  <2>3. old \in AttemptRow /\ RowShape(old)
    BY <2>2, InvFacts
  <2>4. /\ row \in AttemptRow /\ RowShape(row) /\ row.status \in AttemptTerminal
        /\ row = old \/ (old.status \in RunInFlight /\ row.receipt = old.receipt)
    <3> HIDE DEF old
    <3> QED BY <2>2, <2>3, CancelledRow
  <2> HIDE DEF run, row
  <2>5. /\ t \in Database /\ t.batch = db.batch /\ t.run = [db.run EXCEPT ![r] = run]
        /\ t.recovery = db.recovery /\ t.attempt = [db.attempt EXCEPT ![<<r, n>>] = row]
    BY <1>1, <1>2, <2>4 DEF Database
  <2> HIDE DEF t
  <2>6. /\ \A q \in Runs : t.run[q] = IF q = r THEN run ELSE db.run[q]
        /\ \A q \in Runs, m \in AttemptNumbers :
             t.attempt[<<q, m>>] = IF q = r /\ m = n THEN row ELSE db.attempt[<<q, m>>]
    BY <1>1, <2>5 DEF Database, Attempts
  <2>7. \A q \in Runs, m \in AttemptNumbers : RowShape(t.attempt[<<q, m>>])
    BY <2>4, <2>6 DEF Inv, Consistent
  <2>8. RowsAgree(t)
    BY <1>1, <1>2, <2>2, <2>4, <2>6 DEF RowsAgree, RunInFlight, AttemptTerminal
  <2>9. RoundsAgree(t) /\ DueAgrees(t)
    BY <1>2, <2>5, <2>6 DEF Inv, Consistent, RoundsAgree, DueAgrees, RunTerminal
  <2>10. Consistent(t)
    BY <2>5, <2>7, <2>8, <2>9 DEF Inv, Consistent
  <2>11. ASSUME NEW a \in Attempts
         PROVE  /\ AttemptStep(db.attempt[a], t.attempt[a])
                /\ t.attempt[a].status \in RunInFlight => t.attempt[a] = db.attempt[a]
    <3>1. CASE a = <<r, n>>
      <4>1. t.attempt[a] = row
        BY <2>2, <2>6, <3>1
      <4>2. AttemptStep(old, row)
        BY <2>2, <2>4, StillAttempt DEF AttemptStep, Ends
      <4> QED BY <2>4, <3>1, <4>1, <4>2 DEF RunInFlight, AttemptTerminal
    <3>2. CASE a # <<r, n>>
      BY <2>6, <3>2, AttemptPair, StillAttempt
    <3> QED BY <3>1, <3>2
  <2>12. Moves(db, t)
    <3>1. \A q \in Runs : RunStep(db, t, q)
      BY <1>1, <1>2, <2>5, <2>6 DEF RunStep, RunTerminal, Honoured
    <3>2. BatchStep(db, t)
      BY <1>3, <2>5 DEF BatchStep, Verdict, BatchOpen, BatchTerminal
    <3> QED BY <2>11, <3>1, <3>2 DEF Moves
  <2> QED BY <1>3, <2>1, <2>5, <2>10, <2>11, <2>12, UpdateMoves DEF Inv
<1> QED BY <1>4, <1>5

-----------------------------------------------------------------------------
(* The theorems.                                                           *)

\* A batch as create leaves it satisfies the invariant.
LEMMA InitInv ==
  ASSUME Init
  PROVE  Inv(db)
<1>1. CreatedRun \in RunRow /\ NoAttempt \in AttemptRow /\ RowShape(NoAttempt)
  BY DEF CreatedRun, NoAttempt, RunRow, AttemptRow, RowShape, RunInFlight, AttemptTerminal
<1>2. db \in Database
  BY <1>1 DEF Init, Database, BatchOpen
<1>3. /\ \A r \in Runs : db.run[r] = CreatedRun
      /\ \A r \in Runs, n \in AttemptNumbers : db.attempt[<<r, n>>] = NoAttempt
      /\ db.batch.round = 1 /\ ~db.batch.terminating /\ db.batch.status = "queued"
  BY DEF Init, Attempts
<1>4. RowsAgree(db)
  BY <1>3 DEF RowsAgree, CreatedRun, NoAttempt, RunInFlight
<1>5. RoundsAgree(db) /\ DueAgrees(db)
  BY <1>3 DEF RoundsAgree, DueAgrees, CreatedRun
<1>6. ~AllSettled(db)
  BY <1>3, ControlAssumption DEF AllSettled, CreatedRun, RunTerminal
<1> QED BY <1>1, <1>2, <1>3, <1>4, <1>5, <1>6 DEF Inv, Consistent, BatchTerminal

\* Every transaction of the repositories keeps the invariant, and reserves or
\* moves what it finds.
LEMMA NextInv ==
  ASSUME Inv(db), [Next]_db
  PROVE  /\ Inv(db')
         /\ Moves(db, db') \/ \E D \in SUBSET Runs : Reserves(db, db', D)
<1>1. CASE \E D \in SUBSET Runs : ReserveAssignments(D)
  BY <1>1, ReserveAssignmentsInv
<1>2. CASE \E S \in SUBSET {a \in Attempts : db.attempt[a].assignment = "pending"} : Claim(S)
  BY <1>2, ClaimInv
<1>3. ASSUME NEW a \in Attempts,
             \/ RenewLease(a)
             \/ DeclareArtifacts(a)
             \/ \E result \in Results : CompleteAccepted(a, result)
             \/ CompleteLate(a)
             \/ ExpireLeased(a)
             \/ ExpireUnclaimed(a)
             \/ \E d \in Deadlines : ReachDeadline(a, d)
      PROVE  Inv(db') /\ Moves(db, db')
  BY <1>3, RenewLeaseInv, DeclareArtifactsInv, CompleteAcceptedInv, CompleteLateInv,
     ExpireLeasedInv, ExpireUnclaimedInv, ReachDeadlineInv
<1>4. ASSUME NEW r \in Runs,
             \/ QueueTimeout(r)
             \/ CancelLeasedRun(r)
             \/ CancelWaitingRun(r)
             \/ ReachQueueDeadline(r)
      PROVE  Inv(db') /\ Moves(db, db')
  BY <1>4, QueueTimeoutInv, CancelLeasedRunInv, CancelWaitingRunInv, ReachQueueDeadlineInv DEF Inv
<1>5. CASE SettleTerminatingBatch
  BY <1>5, SettleTerminatingBatchInv
<1>6. CASE PauseBatch
  BY <1>6, PauseBatchInv
<1>7. CASE ResumeBatch
  BY <1>7, ResumeBatchInv DEF Inv
<1>8. CASE TerminateBatch
  BY <1>8, TerminateBatchInv DEF Inv
<1>9. CASE db' = db
  BY <1>9, StillBatch, StillAttempt
<1> QED BY <1>1, <1>2, <1>3, <1>4, <1>5, <1>6, <1>7, <1>8, <1>9 DEF Next

\* The inductive invariant holds in every reachable database.
THEOREM AlwaysInv == Spec => []Inv(db)
<1>1. Init => Inv(db)
  BY InitInv
<1>2. Inv(db) /\ [Next]_db => Inv(db)'
  BY NextInv
<1> QED BY <1>1, <1>2, PTL DEF Spec

\* No transaction writes a row the schema does not allow (all repositories).
THEOREM TypeCorrect == Spec => []TypeOK
<1>1. Inv(db) => TypeOK
  BY DEF Inv, Consistent, TypeOK
<1> QED BY <1>1, AlwaysInv, PTL

\* Leases: claim, renewLease, completeAttempt, recoverExpired, cancelRun and
\* terminateBatch never leave an active lease on anything but the latest
\* attempt of a running run.
THEOREM LeasesSafe == Spec => []LeaseCoversRunningRun
<1>1. Inv(db) => LeaseCoversRunningRun
  <2> SUFFICES ASSUME Inv(db), NEW a \in Attempts, db.attempt[a].lease = "active"
               PROVE  /\ IsLatest(db, a)
                      /\ db.run[a[1]].status = "running" /\ db.attempt[a].status = "running"
                      /\ db.attempt[a].assignment \in {"claimed", "running"}
    BY DEF LeaseCoversRunningRun
  <2>1. /\ db.attempt[a].status = "running"
        /\ db.attempt[a].assignment \in {"claimed", "running"}
    BY InvFacts DEF RowShape, AttemptRow, NoAttempt, RunInFlight, AttemptTerminal
  <2>2. /\ a[1] \in Runs /\ a[2] \in AttemptNumbers
        /\ db.attempt[<<a[1], a[2]>>].status = "running"
    BY <2>1, AttemptPair
  <2>3. RowsAgree(db)
    BY DEF Inv, Consistent
  <2>4. a[2] = db.run[a[1]].attempts /\ db.run[a[1]].status \in RunInFlight
    BY <2>2, <2>3 DEF RowsAgree, RunInFlight
  <2>5. db.run[a[1]].status = "running"
    BY <2>2, <2>3, <2>4 DEF RowsAgree
  <2> QED BY <2>1, <2>4, <2>5 DEF IsLatest
<1> QED BY <1>1, AlwaysInv, PTL

\* A run in flight and its attempts agree, whatever ended the earlier ones.
THEOREM RunsAndAttemptsAgree == Spec => []RunMatchesAttempts
<1>1. Inv(db) => RunMatchesAttempts
  BY DEF Inv, Consistent, RowsAgree, RunMatchesAttempts
<1> QED BY <1>1, AlwaysInv, PTL

\* A report that came too late (completeAttempt) never decides an attempt.
THEOREM ReceiptsTrue == Spec => []ReceiptMatchesAttempt
<1>1. Inv(db) => ReceiptMatchesAttempt
  <2> SUFFICES ASSUME Inv(db), NEW a \in Attempts
               PROVE  /\ db.attempt[a].receipt = "accepted" <=>
                            db.attempt[a].assignment = "completed"
                      /\ db.attempt[a].receipt = "accepted" => db.attempt[a].lease = "released"
    BY DEF ReceiptMatchesAttempt
  <2> QED
    BY InvFacts DEF RowShape, AttemptRow, NoAttempt, RunInFlight, AttemptTerminal
<1> QED BY <1>1, AlwaysInv, PTL

\* updateBatchStatus: a batch is closed exactly when all of its runs are over.
THEOREM ClosesWhenSettled == Spec => []ClosedIffSettled
<1>1. Inv(db) => ClosedIffSettled
  BY DEF Inv, AllSettled, ClosedIffSettled
<1> QED BY <1>1, AlwaysInv, PTL

\* terminateWaitingRuns: after a termination only claimed work is left open.
THEOREM TerminationSafe == Spec => []TerminationLeavesClaimedWork
<1>1. Inv(db) => TerminationLeavesClaimedWork
  BY DEF Inv, TerminationLeavesClaimedWork
<1> QED BY <1>1, AlwaysInv, PTL

\* cancelRun: an accepted cancellation decides how the run ends.
THEOREM CancellationSafe == Spec => []CancellationDecides
<1>1. Init => CancellationDecides
  BY DEF Init, CreatedRun, CancellationDecides
<1>2. ASSUME Inv(db), CancellationDecides, [Next]_db
      PROVE  CancellationDecides'
  <2>1. CASE Moves(db, db')
    BY <1>2, <2>1 DEF Moves, RunStep, Honoured, CancellationDecides
  <2>2. ASSUME NEW D \in SUBSET Runs, Reserves(db, db', D)
        PROVE  CancellationDecides'
    BY <1>2, <2>2 DEF Reserves, CancellationDecides
  <2> QED BY <1>2, <2>1, <2>2, NextInv
<1>3. Inv(db) /\ CancellationDecides /\ [Next]_db => CancellationDecides'
  BY <1>2
<1> QED BY <1>1, <1>3, AlwaysInv, PTL DEF Spec

\* advanceRoundIfIdle and retryQueueTiming: no run starts a round early.
THEOREM RoundsInOrder == Spec => []RoundBarrier
<1>1. Inv(db) => RoundBarrier
  BY DEF Inv, Consistent, RoundsAgree, RoundBarrier
<1> QED BY <1>1, AlwaysInv, PTL
=============================================================================
