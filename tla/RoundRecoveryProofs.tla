--------------------------- MODULE RoundRecoveryProofs ---------------------------
(***************************************************************************)
(* Proofs about RoundRecovery.  Two families of steps write db: those of   *)
(* ExecutionControl, of which only the rounds matter here and RoundMove    *)
(* says what they may do to them, and the writes of the recovery workers.  *)
(* Both keep the invariant of ExecutionControl, so what was proved there   *)
(* of the batch holds with the workers running as well.                    *)
(***************************************************************************)
EXTENDS RoundRecovery, ExecutionControlProofs, FiniteSetTheorems

-----------------------------------------------------------------------------
(* What a transaction of ExecutionControl does to the rounds: it makes t   *)
(* of s with RoundMove(s, t).                                              *)

\* No run leaves the terminal statuses; one that waits for a round goes on
\* waiting, and only one in flight may begin to.
HeldKept(s, t) ==
  \A r \in Runs :
    /\ t.run[r] \in RunRow
    /\ t.run[r].status \notin RunTerminal =>
         /\ s.run[r].status \notin RunTerminal
         /\ \/ t.run[r].held = s.run[r].held
            \/ /\ s.run[r].status \in RunInFlight
               /\ t.run[r].held \in {0, s.batch.round + 1}

RoundQuiet(s, t) ==
  /\ t.batch.round = s.batch.round /\ t.batch.terminating = s.batch.terminating
  /\ t.recovery = s.recovery
  /\ HeldKept(s, t)

\* Every open run waits for a later round.
AllHeld(s) == \A r \in Runs : s.run[r].status \notin RunTerminal => s.run[r].held # 0

\* The round is over and its Jenkins steps become pending.
RoundAwaits(s, t) ==
  /\ t.batch.round = s.batch.round /\ t.batch.terminating = s.batch.terminating
  /\ \A p \in RecoverySteps :
       \/ t.recovery[p] = s.recovery[p]
       \/ s.recovery[p] = "idle" /\ t.recovery[p] = "pending" /\ AfterRound[p] = s.batch.round
  /\ AllHeld(t)

\* The round is over, and so is every step behind it.
RoundReleases(s, t) ==
  /\ t.batch.round = s.batch.round + 1 /\ t.batch.terminating = s.batch.terminating
  /\ t.recovery = s.recovery
  /\ \A p \in StepsAfter(s.batch.round) : s.recovery[p] = "succeeded"

RoundTerminates(s, t) ==
  /\ t.batch.round = s.batch.round
  /\ \A p \in RecoverySteps :
       t.recovery[p] = IF s.recovery[p] \in {"idle"} \cup RecoveryActive
                       THEN "cancelled" ELSE s.recovery[p]

RoundMove(s, t) ==
  RoundQuiet(s, t) \/ RoundAwaits(s, t) \/ RoundReleases(s, t) \/ RoundTerminates(s, t)

\* A database record, whatever its rows hold.
Shaped(s) ==
  s \in [run : {s.run}, attempt : {s.attempt},
         batch : [status : {s.batch.status}, terminating : {s.batch.terminating},
                  paused : {s.batch.paused}, round : {s.batch.round}],
         recovery : {s.recovery}]

WithRound(s, f, k) == [s EXCEPT !.run = f, !.batch.round = k]

\* A record with another round and other runs is a record still.
LEMMA Reshaped ==
  ASSUME NEW m, Shaped(m), NEW f, NEW k, NEW t, t = WithRound(m, f, k)
  PROVE  /\ t.recovery = m.recovery /\ Shaped(t)
         /\ t.batch.round = k /\ t.batch.terminating = m.batch.terminating
<1> DEFINE b == [m.batch EXCEPT !.round = k]
<1>1. b \in [status : {m.batch.status}, terminating : {m.batch.terminating},
             paused : {m.batch.paused}, round : {k}]
  BY DEF Shaped
<1> HIDE DEF b
<1>2. t = [m EXCEPT !.run = f, !.batch = b]
  BY DEF Shaped, WithRound, b
<1>3. t.run = f /\ t.attempt = m.attempt /\ t.batch = b /\ t.recovery = m.recovery
  BY <1>2 DEF Shaped
<1>4. t \in [run : {f}, attempt : {m.attempt}, batch : {b}, recovery : {m.recovery}]
  BY <1>2 DEF Shaped
<1>5. b.round = k /\ b.terminating = m.batch.terminating
  BY <1>1
<1>6. Shaped(t)
  BY <1>1, <1>3, <1>4 DEF Shaped
<1> QED BY <1>3, <1>5, <1>6

\* Every held run waits for the next round (retryQueueTiming), inside a transaction too.
LEMMA HeldNext ==
  ASSUME NEW s, Consistent(s), NEW m, RoundQuiet(s, m), HeldRuns(m) # {}
  PROVE  NextHeldRound(m) = s.batch.round + 1
<1>1. s.batch.round \in Nat /\ s.batch.round + 1 \in Nat
  BY DEF Consistent, Database
<1>2. \A r \in HeldRuns(m) : m.run[r].held = s.batch.round + 1
  <2> SUFFICES ASSUME NEW r \in Runs, m.run[r].status = "queued", m.run[r].held > 0
               PROVE  m.run[r].held = s.batch.round + 1
    BY DEF HeldRuns
  <2>1. m.run[r].status \notin RunTerminal
    BY DEF RunTerminal
  <2>2. /\ s.run[r].status \notin RunTerminal
        /\ \/ m.run[r].held = s.run[r].held
           \/ m.run[r].held \in {0, s.batch.round + 1}
    BY <2>1 DEF RoundQuiet, HeldKept
  <2>3. s.run[r].held # 0 => s.run[r].held = s.batch.round + 1
    BY <2>2 DEF Consistent, RoundsAgree
  <2> QED BY <2>2, <2>3
<1>3. {m.run[r].held : r \in HeldRuns(m)} = {s.batch.round + 1}
  BY <1>2
<1>4. s.batch.round + 1 <= s.batch.round + 1
  BY <1>1
<1>5. \A r \in HeldRuns(m) : s.batch.round + 1 <= m.run[r].held
  BY <1>2, <1>4
<1>6. \A k \in {m.run[r].held : r \in HeldRuns(m)} : k = s.batch.round + 1
  BY <1>3
<1>7. s.batch.round + 1 \in {m.run[r].held : r \in HeldRuns(m)}
  BY <1>3
<1> QED BY <1>5, <1>6, <1>7 DEF NextHeldRound

\* advanceRoundIfIdle waits for the steps of the round, or releases the next.
LEMMA AdvanceMoves ==
  ASSUME NEW s, Consistent(s), NEW m, Shaped(m), RoundQuiet(s, m)
  PROVE  Shaped(AdvanceRoundIfIdle(m)) /\ RoundMove(s, AdvanceRoundIfIdle(m))
<1> DEFINE t == AdvanceRoundIfIdle(m)
<1>1. CASE RetryMode # "round" \/ ~RoundIdle(m)
  <2>1. t = m
    BY <1>1 DEF AdvanceRoundIfIdle
  <2> QED BY <2>1 DEF RoundMove
<1>2. CASE RetryMode = "round" /\ RoundIdle(m)
  <2> DEFINE k == NextHeldRound(m)
             v == [p \in RecoverySteps |->
                     IF p \in StepsAfter(k - 1) /\ m.recovery[p] = "idle" THEN "pending"
                     ELSE m.recovery[p]]
  <2>1. k = s.batch.round + 1 /\ k - 1 = s.batch.round
    <3>1. k = s.batch.round + 1
      BY <1>2, HeldNext DEF RoundIdle
    <3>2. s.batch.round \in Nat
      BY DEF Consistent, Database
    <3> QED BY <3>1, <3>2
  <2>2. /\ m.batch.round = s.batch.round /\ m.batch.terminating = s.batch.terminating
        /\ m.recovery = s.recovery
    BY DEF RoundQuiet
  <2>3. CASE \E p \in StepsAfter(k - 1) : m.recovery[p] = "idle"
    <3>1. t = [m EXCEPT !.recovery = v]
      BY <1>2, <2>3, Zenon DEF AdvanceRoundIfIdle
    <3>2. AllHeld(m)
      <4> SUFFICES ASSUME NEW r \in Runs, m.run[r].status \notin RunTerminal
                   PROVE  m.run[r].held # 0
        BY DEF AllHeld
      <4>1. m.run[r].status = "queued"
        <5>1. m.run[r].status \in RunStatuses
          BY DEF RoundQuiet, HeldKept, RunRow, RunStatuses
        <5>2. m.run[r].status \notin RunInFlight
          BY <1>2 DEF RoundIdle, RunsIn
        <5> QED BY <5>1, <5>2 DEF RunStatuses
      <4> QED BY <1>2, <4>1 DEF RoundIdle, Schedulable
    <3>3. /\ t.batch = m.batch /\ t.recovery = v /\ t.run = m.run /\ Shaped(t)
      <4> HIDE DEF v, t
      <4> QED BY <3>1 DEF Shaped
    <3>4. AllHeld(t)
      BY <3>2, <3>3 DEF AllHeld
    <3>5. \A p \in RecoverySteps :
            \/ t.recovery[p] = s.recovery[p]
            \/ s.recovery[p] = "idle" /\ t.recovery[p] = "pending" /\ AfterRound[p] = s.batch.round
      <4> HIDE DEF t, k
      <4> QED BY <2>1, <2>2, <3>3 DEF StepsAfter
    <3>6. RoundAwaits(s, t)
      BY <2>2, <3>3, <3>4, <3>5 DEF RoundAwaits
    <3> QED BY <3>3, <3>6 DEF RoundMove
  <2>4. CASE /\ ~\E p \in StepsAfter(k - 1) : m.recovery[p] = "idle"
             /\ \E p \in StepsAfter(k - 1) : m.recovery[p] # "succeeded"
    <3>1. t = m
      BY <1>2, <2>4 DEF AdvanceRoundIfIdle
    <3> QED BY <3>1 DEF RoundMove
  <2>5. CASE \A p \in StepsAfter(k - 1) : m.recovery[p] = "succeeded"
    <3>1. t = ReleaseRound(m, k)
      BY <1>2, <2>5 DEF AdvanceRoundIfIdle
    <3>2. /\ t.recovery = m.recovery /\ Shaped(t)
          /\ t.batch.round = k /\ t.batch.terminating = m.batch.terminating
      <4> DEFINE f == [r \in Runs |-> IF m.run[r].status = "queued" /\ m.run[r].held <= k
                                     THEN [m.run[r] EXCEPT !.held = 0, !.queueDue = FALSE]
                                     ELSE m.run[r]]
      <4>1. t = WithRound(m, f, k)
        BY <3>1 DEF ReleaseRound, WithRound
      <4> HIDE DEF f, t, k
      <4> QED BY <4>1, Reshaped
    <3>3. t.batch.round = s.batch.round + 1 /\ t.batch.terminating = s.batch.terminating
      BY <2>1, <2>2, <3>2
    <3>4. \A p \in StepsAfter(s.batch.round) : s.recovery[p] = "succeeded"
      BY <2>1, <2>2, <2>5
    <3>5. RoundReleases(s, t)
      BY <2>2, <3>2, <3>3, <3>4 DEF RoundReleases
    <3> QED BY <3>2, <3>5 DEF RoundMove
  <2> QED BY <2>3, <2>4, <2>5
<1> QED BY <1>1, <1>2
\* Only the runs, the steps and the round of the batch count.
LEMMA SameMove ==
  ASSUME NEW s, NEW t, RoundMove(s, t), NEW u, u.run = t.run, u.recovery = t.recovery,
         u.batch.round = t.batch.round, u.batch.terminating = t.batch.terminating
  PROVE  RoundMove(s, u)
<1>1. HeldKept(s, t) => HeldKept(s, u)
  BY DEF HeldKept
<1>2. AllHeld(t) => AllHeld(u)
  BY DEF AllHeld
<1>3. RoundQuiet(s, t) => RoundQuiet(s, u)
  BY <1>1 DEF RoundQuiet
<1>4. RoundAwaits(s, t) => RoundAwaits(s, u)
  BY <1>2 DEF RoundAwaits
<1>5. RoundReleases(s, t) => RoundReleases(s, u)
  BY DEF RoundReleases
<1>6. RoundTerminates(s, t) => RoundTerminates(s, u)
  BY DEF RoundTerminates
<1> QED BY <1>3, <1>4, <1>5, <1>6 DEF RoundMove

\* terminateWaitingRuns starts nothing.
LEMMA TerminateQuiet ==
  ASSUME NEW s, NEW m, Shaped(m), RoundQuiet(s, m)
  PROVE  Shaped(TerminateWaitingRuns(m)) /\ RoundQuiet(s, TerminateWaitingRuns(m))
<1> DEFINE Over(r) == RunEnded(m.run[r], "cancelled", "cancelled", "cancelled")
           Cut(r) == [Over(r) EXCEPT !.cancel = TRUE]
           Kept(r) == m.run[r].status \in RunTerminal \/ HasProtectedAttempt(m, r)
           f == [r \in Runs |-> IF Kept(r) THEN m.run[r] ELSE Cut(r)]
           g == [a \in Attempts |-> WaitingClosed(m.attempt[a])]
           t == TerminateWaitingRuns(m)
<1>1. t = [m EXCEPT !.attempt = g, !.run = f]
  BY DEF TerminateWaitingRuns
<1>2. \A r \in Runs : m.run[r] \in RunRow
  BY DEF RoundQuiet, HeldKept
<1>3. \A r \in Runs : Cut(r) \in RunRow /\ Cut(r).status \in RunTerminal
  <2> SUFFICES ASSUME NEW r \in Runs
               PROVE  Cut(r) \in RunRow /\ Cut(r).status \in RunTerminal
    OBVIOUS
  <2>1. Over(r) \in RunRow /\ Over(r).status = "cancelled"
    BY <1>2, RunCancelled
  <2> HIDE DEF Over
  <2> QED BY <2>1 DEF RunRow, RunTerminal
<1> HIDE DEF Cut, Kept, g, t
<1>4. t.run = f /\ t.batch = m.batch /\ t.recovery = m.recovery /\ Shaped(t)
  <2> HIDE DEF f
  <2> QED BY <1>1 DEF Shaped
<1>5. \A r \in Runs : \/ t.run[r] = m.run[r]
                      \/ t.run[r] \in RunRow /\ t.run[r].status \in RunTerminal
  BY <1>3, <1>4
<1>6. HeldKept(s, t)
  BY <1>2, <1>5 DEF RoundQuiet, HeldKept
<1>7. RoundQuiet(s, t)
  BY <1>4, <1>6 DEF RoundQuiet
<1> QED BY <1>4, <1>7 DEF t

\* updateBatchStatus ends a transaction that did not touch the rounds.
LEMMA UpdateRounds ==
  ASSUME NEW s, Consistent(s), NEW m, Shaped(m), RoundQuiet(s, m)
  PROVE  RoundMove(s, UpdateBatchStatus(m))
<1> DEFINE s1 == IF m.batch.terminating THEN TerminateWaitingRuns(m)
                 ELSE IF m.batch.paused THEN m ELSE AdvanceRoundIfIdle(m)
           t == [s1 EXCEPT !.batch.status = AggregateStatus(s1)]
<1>1. Shaped(s1) /\ RoundMove(s, s1)
  BY TerminateQuiet, AdvanceMoves DEF RoundMove
<1>2. UpdateBatchStatus(m) = m \/ UpdateBatchStatus(m) = t
  BY DEF UpdateBatchStatus
<1> HIDE DEF s1
<1>3. /\ t.run = s1.run /\ t.recovery = s1.recovery
      /\ t.batch.round = s1.batch.round /\ t.batch.terminating = s1.batch.terminating
  BY <1>1 DEF Shaped
<1> HIDE DEF t
<1>4. RoundMove(s, t)
  BY <1>1, <1>3, SameMove
<1> QED BY <1>2, <1>4 DEF RoundMove
-----------------------------------------------------------------------------
(* The actions of ExecutionControl.                                        *)

\* What the actions below read of a database the invariant holds of.
LEMMA InvRows ==
  ASSUME Inv(db)
  PROVE  /\ Consistent(db) /\ db \in Database /\ Shaped(db)
         /\ \A r \in Runs : /\ db.run[r] \in RunRow
                            /\ db.run[r].status \in RunInFlight => db.run[r].held = 0
<1>1. Consistent(db) /\ db \in Database
  BY DEF Inv, Consistent
<1>2. Shaped(db)
  BY <1>1 DEF Database, Shaped
<1>3. \A r \in Runs : /\ db.run[r] \in RunRow
                      /\ db.run[r].status \in RunInFlight => db.run[r].held = 0
  BY <1>1 DEF Consistent, Database, RoundsAgree, RunInFlight, RunTerminal
<1> QED BY <1>1, <1>2, <1>3

\* A transaction that neither starts nor ends the waiting of a run.
LEMMA StillRounds ==
  ASSUME Inv(db), NEW t, t.recovery = db.recovery,
         t.batch.round = db.batch.round, t.batch.terminating = db.batch.terminating,
         \A r \in Runs : /\ t.run[r] \in RunRow /\ t.run[r].held = db.run[r].held
                         /\ t.run[r].status \notin RunTerminal =>
                              db.run[r].status \notin RunTerminal
  PROVE  RoundQuiet(db, t)
  BY DEF RoundQuiet, HeldKept

\* The same of a transaction that writes the row of one run, to be aggregated
\* or not; the attempts it writes do not count.
LEMMA RowRounds ==
  ASSUME Inv(db), NEW r \in Runs, NEW row \in RunRow,
         row.status \notin RunTerminal =>
           /\ db.run[r].status \notin RunTerminal
           /\ \/ row.held = db.run[r].held
              \/ /\ db.run[r].status \in RunInFlight
                 /\ row.held \in {0, db.batch.round + 1},
         NEW t, Shaped(t), t.run = [db.run EXCEPT ![r] = row], t.recovery = db.recovery,
         t.batch = db.batch
  PROVE  RoundQuiet(db, t) /\ RoundMove(db, UpdateBatchStatus(t))
<1>1. \A q \in Runs : t.run[q] = IF q = r THEN row ELSE db.run[q]
  BY InvRows DEF Database
<1>2. HeldKept(db, t)
  BY <1>1, InvRows DEF HeldKept
<1>3. RoundQuiet(db, t)
  BY <1>2 DEF RoundQuiet
<1> QED BY <1>3, InvRows, UpdateRounds

\* Requests about one attempt (renewLease, declareArtifacts, a late report)
\* and its deadlines leave the rounds alone.
LEMMA AttemptRounds ==
  ASSUME Inv(db), NEW a \in Attempts,
         \/ RenewLease(a) \/ DeclareArtifacts(a) \/ CompleteLate(a)
         \/ \E d \in Deadlines : ReachDeadline(a, d)
  PROVE  RoundMove(db, db')
<1>1. db'.run = db.run /\ db'.batch = db.batch /\ db'.recovery = db.recovery
  BY InvRows DEF Database, RenewLease, DeclareArtifacts, CompleteLate, ReachDeadline
<1> QED BY <1>1, InvRows, StillRounds DEF RoundMove

\* The end of an attempt puts its run back for the next round, or ends it.
LEMMA ConcludeRounds ==
  ASSUME Inv(db), NEW a \in Attempts, db.run[a[1]].status \in RunInFlight, NEW row,
         NEW o \in AttemptTerminal, NEW c \in CodeClasses,
         db.run[a[1]].cancel => o # "succeeded"
  PROVE  RoundMove(db, Conclude(db, a, row, o, c))
<1> DEFINE r == a[1]
           next == RunAfter(db, r, o, c)
           t == [db EXCEPT !.attempt[a] = row, !.run[r] = next]
<1>1. r \in Runs
  BY AttemptPair
<1>2. Conclude(db, a, row, o, c) = UpdateBatchStatus(t)
  BY DEF Conclude
<1> HIDE DEF r
<1>3. /\ next \in RunRow
      /\ next.status \in {"queued"} \cup RunTerminal
      /\ next.status = "queued" => next.held \in {0, db.batch.round + 1}
  BY <1>1, InvRows, RunAfterRow DEF r
<1> HIDE DEF next
<1>4. /\ Shaped(t) /\ t.run = [db.run EXCEPT ![r] = next]
      /\ t.recovery = db.recovery /\ t.batch = db.batch
  BY InvRows DEF Database, Shaped
<1>5. db.run[r].status \in RunInFlight /\ db.run[r].status \notin RunTerminal
  BY DEF r, RunInFlight, RunTerminal
<1> HIDE DEF t
<1>6. RoundMove(db, UpdateBatchStatus(t))
  BY <1>1, <1>3, <1>4, <1>5, RowRounds
<1> QED BY <1>2, <1>6

\* completeAttempt and recoverExpired.
LEMMA EndRounds ==
  ASSUME Inv(db), NEW a \in Attempts,
         \/ \E result \in Results : CompleteAccepted(a, result)
         \/ ExpireLeased(a) \/ ExpireUnclaimed(a)
  PROVE  RoundMove(db, db')
<1>1. ASSUME NEW result \in Results, CompleteAccepted(a, result)
      PROVE  RoundMove(db, db')
  <2> DEFINE res == EffectiveResult(db, a, result)
             row == [Ended(db.attempt[a], res.status, res.code, "completed", "released")
                       EXCEPT !.receipt = "accepted"]
  <2>1. db' = Conclude(db, a, row, res.status, res.code) /\ db.run[a[1]].status \in RunInFlight
    BY <1>1 DEF CompleteAccepted
  <2>2. result.status \in AttemptTerminal /\ result.code \in CodeClasses
    BY ControlAssumption DEF AllResults, AttemptTerminal, CodeClasses
  <2>3. /\ res.status \in AttemptTerminal /\ res.code \in CodeClasses
        /\ db.run[a[1]].cancel => res.status # "succeeded"
    BY <2>2, Words DEF EffectiveResult
  <2> HIDE DEF res, row
  <2> QED BY <2>1, <2>3, ConcludeRounds
<1>2. ASSUME NEW l, NEW c \in {"abnormal", "runner"},
             db' = ExpireAttempt(a, l, c), db.run[a[1]].status \in RunInFlight
      PROVE  RoundMove(db, db')
  <2>1. "timed_out" \in AttemptTerminal /\ c \in CodeClasses
    BY DEF AttemptTerminal, CodeClasses
  <2> QED BY <1>2, <2>1, ConcludeRounds DEF ExpireAttempt
<1>3. CASE ExpireLeased(a)
  BY <1>2, <1>3 DEF ExpireLeased, ExpirationCode
<1>4. CASE ExpireUnclaimed(a)
  BY <1>2, <1>4 DEF ExpireUnclaimed, RunInFlight
<1> QED BY <1>1, <1>3, <1>4
\* The queue timeout of a run, its cancellation, and its queue deadline.
LEMMA RunRounds ==
  ASSUME Inv(db), NEW r \in Runs,
         QueueTimeout(r) \/ CancelLeasedRun(r) \/ CancelWaitingRun(r) \/ ReachQueueDeadline(r)
  PROVE  RoundMove(db, db')
<1> DEFINE failed == RunEnded(db.run[r], "failed", "timed_out", "abnormal")
           ended == RunEnded(db.run[r], "cancelled", "cancelled", "cancelled")
           run == [ended EXCEPT !.cancel = TRUE]
           a == Latest(db, r)
<1>1. db.run[r] \in RunRow /\ db \in Database /\ Shaped(db)
  BY InvRows
<1>2. failed \in RunRow /\ failed.status \in RunTerminal
  <2>1. /\ "failed" \in RunStatuses /\ "timed_out" \in AttemptTerminal
        /\ "abnormal" \in CodeClasses
    BY Words
  <2>2. failed \in RunRow /\ failed.status = "failed"
    BY <1>1, <2>1, RunEndedType
  <2> QED BY <2>2 DEF RunTerminal
<1>3. run \in RunRow /\ run.status \in RunTerminal
  <2>1. ended \in RunRow /\ ended.status = "cancelled"
    BY <1>1, RunCancelled
  <2> HIDE DEF ended
  <2> QED BY <2>1 DEF RunRow, RunTerminal
<1> HIDE DEF run
<1>4. CASE QueueTimeout(r)
  <2> DEFINE t == [db EXCEPT !.run[r] = failed]
  <2>1. db' = UpdateBatchStatus(t)
    BY <1>4 DEF QueueTimeout
  <2> HIDE DEF failed
  <2>2. /\ Shaped(t) /\ t.run = [db.run EXCEPT ![r] = failed]
        /\ t.recovery = db.recovery /\ t.batch = db.batch
    BY <1>1 DEF Database, Shaped
  <2> HIDE DEF t
  <2> QED BY <1>2, <2>1, <2>2, RowRounds
<1>5. CASE CancelWaitingRun(r)
  <2>1. PICK g : db' = UpdateBatchStatus([db EXCEPT !.run[r] = run, !.attempt = g])
    <3>1. CASE db.run[r].attempts = 0
      <4>1. db' = UpdateBatchStatus([db EXCEPT !.run[r] = run])
        BY <1>5, <3>1 DEF CancelWaitingRun, run
      <4>2. [db EXCEPT !.run[r] = run] = [db EXCEPT !.run[r] = run, !.attempt = db.attempt]
        BY <1>1 DEF Database
      <4> QED BY <4>1, <4>2
    <3>2. CASE db.run[r].attempts # 0
      <4> DEFINE row   == db.attempt[a]
                 open  == db.run[r].attempts # 0 /\ row.assignment \in AssignmentOpen
                 lea   == IF open /\ row.lease = "active" THEN "revoked" ELSE row.lease
                 asg   == IF open THEN "cancelled" ELSE row.assignment
                 cut   == [row EXCEPT !.cancel = open \/ @]
                 new   == IF row.status \in AttemptTerminal
                          THEN [cut EXCEPT !.assignment = asg, !.lease = lea]
                          ELSE Ended(cut, "cancelled", "cancelled", asg, lea)
      <4>1. db' = UpdateBatchStatus([db EXCEPT !.run[r] = run, !.attempt[a] = new])
        BY <1>5, <3>2 DEF CancelWaitingRun, run
      <4> HIDE DEF new, a
      <4>2. [db EXCEPT !.run[r] = run, !.attempt[a] = new] =
              [db EXCEPT !.run[r] = run, !.attempt = [db.attempt EXCEPT ![a] = new]]
        BY <1>1 DEF Database
      <4> QED BY <4>1, <4>2
    <3> QED BY <3>1, <3>2
  <2> DEFINE t == [db EXCEPT !.run[r] = run, !.attempt = g]
  <2>2. /\ Shaped(t) /\ t.run = [db.run EXCEPT ![r] = run]
        /\ t.recovery = db.recovery /\ t.batch = db.batch
    BY <1>1 DEF Database, Shaped
  <2>3. db' = UpdateBatchStatus(t)
    BY <2>1
  <2> HIDE DEF t
  <2> QED BY <1>3, <2>2, <2>3, RowRounds
<1>6. CASE CancelLeasedRun(r)
  <2> DEFINE row == [db.run[r] EXCEPT !.cancel = TRUE]
  <2>1. row \in RunRow /\ row.held = db.run[r].held /\ row.status = db.run[r].status
    BY <1>1 DEF RunRow
  <2>2. /\ db'.run = [db.run EXCEPT ![r] = row]
        /\ db'.recovery = db.recovery /\ db'.batch = db.batch
    BY <1>1, <1>6 DEF CancelLeasedRun, Database
  <2> HIDE DEF row
  <2>3. \A q \in Runs : db'.run[q] = IF q = r THEN row ELSE db.run[q]
    BY <1>1, <2>2 DEF Database
  <2> QED BY <2>1, <2>2, <2>3, InvRows, StillRounds DEF RoundMove
<1>7. CASE ReachQueueDeadline(r)
  <2> DEFINE row == [db.run[r] EXCEPT !.queueDue = TRUE]
  <2>1. row \in RunRow /\ row.held = db.run[r].held /\ row.status = db.run[r].status
    BY <1>1 DEF RunRow
  <2>2. /\ db'.run = [db.run EXCEPT ![r] = row]
        /\ db'.recovery = db.recovery /\ db'.batch = db.batch
    BY <1>1, <1>7 DEF ReachQueueDeadline, Database
  <2> HIDE DEF row
  <2>3. \A q \in Runs : db'.run[q] = IF q = r THEN row ELSE db.run[q]
    BY <1>1, <2>2 DEF Database
  <2> QED BY <2>1, <2>2, <2>3, InvRows, StillRounds DEF RoundMove
<1> QED BY <1>4, <1>5, <1>6, <1>7

\* A transaction that rewrites the rows of the runs and is aggregated.
LEMMA RunsRounds ==
  ASSUME Inv(db), NEW f, NEW g, NEW paused,
         \A r \in Runs : /\ f[r] \in RunRow /\ f[r].held = db.run[r].held
                         /\ f[r].status \notin RunTerminal => db.run[r].status \notin RunTerminal
  PROVE  RoundMove(db, UpdateBatchStatus(
           [db EXCEPT !.run = f, !.attempt = g, !.batch.paused = paused]))
<1> DEFINE t == [db EXCEPT !.run = f, !.attempt = g, !.batch.paused = paused]
<1>1. /\ Shaped(t) /\ t.run = f /\ t.recovery = db.recovery
      /\ t.batch.round = db.batch.round /\ t.batch.terminating = db.batch.terminating
  BY InvRows DEF Database, Shaped
<1> HIDE DEF t
<1>2. RoundQuiet(db, t)
  BY <1>1, StillRounds
<1>3. RoundMove(db, UpdateBatchStatus(t))
  BY <1>1, <1>2, InvRows, UpdateRounds
<1> QED BY <1>3 DEF t
\* claimAssignments: only runs that wait for their machine start.
LEMMA ClaimRounds ==
  ASSUME Inv(db), NEW S \in SUBSET Attempts, Claim(S)
  PROVE  RoundMove(db, db')
<1> DEFINE Started(r) == [db.run[r] EXCEPT !.status = "running"]
           f == [r \in Runs |-> IF db.run[r].status = "assigned" /\ \E a \in S : a[1] = r
                                THEN Started(r) ELSE db.run[r]]
           g == [a \in Attempts |->
                   IF a \notin S THEN db.attempt[a]
                   ELSE [db.attempt[a] EXCEPT !.assignment = "claimed", !.lease = "active",
                           !.status = IF @ = "assigned" THEN "running" ELSE @]]
           t == [db EXCEPT !.attempt = g, !.run = f]
<1>1. db' = UpdateBatchStatus(t)
  BY DEF Claim
<1> HIDE DEF g
<1>2. \A r \in Runs : Started(r) \in RunRow /\ Started(r).held = db.run[r].held
  BY InvRows DEF RunRow, RunInFlight
<1> HIDE DEF Started
<1>3. \A r \in Runs : /\ f[r] \in RunRow /\ f[r].held = db.run[r].held
                      /\ f[r].status \notin RunTerminal => db.run[r].status \notin RunTerminal
  BY <1>2, InvRows DEF RunTerminal
<1> HIDE DEF f
<1>4. t = [db EXCEPT !.run = f, !.attempt = g, !.batch.paused = db.batch.paused]
  BY InvRows DEF Database
<1> HIDE DEF t
<1> QED BY <1>1, <1>3, <1>4, RunsRounds

\* changeBatchScheduling: resuming gives every run a fresh queue window.
LEMMA ResumeRounds ==
  ASSUME Inv(db), ResumeBatch
  PROVE  RoundMove(db, db')
<1> DEFINE Fresh(r) == [db.run[r] EXCEPT !.queueDue = FALSE]
           f == [r \in Runs |-> Fresh(r)]
           t == [db EXCEPT !.batch.paused = FALSE, !.run = f]
<1>1. db' = UpdateBatchStatus(t)
  BY DEF ResumeBatch
<1>2. \A r \in Runs : /\ Fresh(r) \in RunRow /\ Fresh(r).held = db.run[r].held
                      /\ Fresh(r).status = db.run[r].status
  BY InvRows DEF RunRow
<1> HIDE DEF Fresh
<1>3. \A r \in Runs : /\ f[r] \in RunRow /\ f[r].held = db.run[r].held
                      /\ f[r].status \notin RunTerminal => db.run[r].status \notin RunTerminal
  BY <1>2
<1> HIDE DEF f
<1>4. t = [db EXCEPT !.run = f, !.attempt = db.attempt, !.batch.paused = FALSE]
  BY InvRows DEF Database
<1> HIDE DEF t
<1> QED BY <1>1, <1>3, <1>4, RunsRounds

\* changeBatchScheduling and the scan of terminating batches.
LEMMA BatchRounds ==
  ASSUME Inv(db), PauseBatch \/ SettleTerminatingBatch
  PROVE  RoundMove(db, db')
<1>1. CASE PauseBatch
  <2>1. /\ db'.run = db.run /\ db'.recovery = db.recovery
        /\ db'.batch.round = db.batch.round /\ db'.batch.terminating = db.batch.terminating
    BY <1>1, InvRows DEF PauseBatch, Database
  <2> QED BY <2>1, InvRows, StillRounds DEF RoundMove
<1>2. CASE SettleTerminatingBatch
  <2>1. RoundQuiet(db, db)
    BY InvRows, StillRounds
  <2> QED BY <1>2, <2>1, InvRows, UpdateRounds DEF SettleTerminatingBatch
<1> QED BY <1>1, <1>2

\* A reservation takes runs that no longer wait for their round.
LEMMA ReserveRounds ==
  ASSUME Inv(db), NEW D \in SUBSET Runs, ReserveAssignments(D)
  PROVE  RoundMove(db, db')
<1> DEFINE Taken(r) == [db.run[r] EXCEPT !.status = "assigned", !.attempts = @ + 1]
           f == [r \in Runs |-> IF r \in D THEN Taken(r) ELSE db.run[r]]
           g == Reserve(db, D).attempt
           st == SchedulingStatus(Reserve(db, D))
<1>1. Reserve(db, D) = [db EXCEPT !.run = f, !.attempt = g]
  BY InvRows DEF Reserve, Database
<1>2. db' = [Reserve(db, D) EXCEPT !.batch.status = st]
  BY DEF ReserveAssignments
<1>3. \A r \in Runs : Taken(r) \in RunRow /\ Taken(r).held = db.run[r].held
  <2>1. ASSUME NEW row \in RunRow
        PROVE  LET next == [row EXCEPT !.status = "assigned", !.attempts = @ + 1]
               IN  next \in RunRow /\ next.held = row.held
    <3> DEFINE taken == [row EXCEPT !.status = "assigned"]
               n == row.attempts + 1
    <3>1. taken \in RunRow /\ taken.held = row.held /\ n \in Nat
      BY DEF RunRow, RunInFlight
    <3>2. [row EXCEPT !.status = "assigned", !.attempts = @ + 1] = [taken EXCEPT !.attempts = n]
      BY DEF RunRow
    <3> HIDE DEF taken, n
    <3> QED BY <3>1, <3>2 DEF RunRow
  <2> QED BY <2>1, InvRows
<1>4. \A r \in D : db.run[r].status \notin RunTerminal
  BY DEF ReserveAssignments, Reservable, Schedulable, RunTerminal
<1> HIDE DEF Taken, g, st
<1>5. \A r \in Runs : /\ f[r] \in RunRow /\ f[r].held = db.run[r].held
                      /\ f[r].status \notin RunTerminal => db.run[r].status \notin RunTerminal
  BY <1>3, <1>4, InvRows
<1> HIDE DEF f
<1>6. /\ db'.run = f /\ db'.recovery = db.recovery
      /\ db'.batch.round = db.batch.round /\ db'.batch.terminating = db.batch.terminating
  BY <1>1, <1>2, InvRows DEF Database
<1> QED BY <1>5, <1>6, StillRounds DEF RoundMove

\* terminateBatch cancels what the rounds still wait for.
LEMMA TerminateRounds ==
  ASSUME Inv(db), TerminateBatch
  PROVE  RoundMove(db, db')
<1> DEFINE v == [p \in RecoverySteps |->
                  IF db.recovery[p] \in {"idle"} \cup RecoveryActive
                  THEN "cancelled" ELSE db.recovery[p]]
           t == [db EXCEPT !.batch.terminating = TRUE, !.recovery = v]
           m == TerminateWaitingRuns(t)
<1>1. db' = UpdateBatchStatus(m)
  BY DEF TerminateBatch
<1>2. /\ Shaped(t) /\ t.recovery = v /\ t.batch.round = db.batch.round
      /\ t.batch.terminating = TRUE /\ t.run = db.run
  <2> HIDE DEF v
  <2> QED BY InvRows DEF Database, Shaped
<1>3. RoundQuiet(t, t)
  BY <1>2, InvRows DEF RoundQuiet, HeldKept
<1> HIDE DEF t
<1>4. Shaped(m) /\ RoundQuiet(t, m)
  BY <1>2, <1>3, TerminateQuiet
<1> HIDE DEF m
<1>5. m.batch.terminating
  BY <1>2, <1>4 DEF RoundQuiet
<1> DEFINE u == TerminateWaitingRuns(m)
           w == [u EXCEPT !.batch.status = AggregateStatus(u)]
<1>6. Shaped(u) /\ RoundQuiet(t, u)
  BY <1>4, TerminateQuiet
<1>7. db' = m \/ db' = w
  BY <1>1, <1>5 DEF UpdateBatchStatus
<1> HIDE DEF u
<1>8. w.recovery = u.recovery /\ w.batch.round = u.batch.round
  BY <1>6 DEF Shaped
<1> HIDE DEF w
<1>9. db'.recovery = v /\ db'.batch.round = db.batch.round
  BY <1>2, <1>4, <1>6, <1>7, <1>8 DEF RoundQuiet
<1> QED BY <1>9 DEF RoundMove, RoundTerminates

\* Every transaction of the repositories moves the rounds as RoundMove says.
LEMMA NextRounds ==
  ASSUME Inv(db), Next
  PROVE  RoundMove(db, db')
<1>1. CASE \E D \in SUBSET Runs : ReserveAssignments(D)
  BY <1>1, ReserveRounds
<1>2. CASE \E S \in SUBSET {a \in Attempts : db.attempt[a].assignment = "pending"} : Claim(S)
  BY <1>2, ClaimRounds
<1>3. ASSUME NEW a \in Attempts,
             \/ RenewLease(a)
             \/ DeclareArtifacts(a)
             \/ \E result \in Results : CompleteAccepted(a, result)
             \/ CompleteLate(a)
             \/ ExpireLeased(a)
             \/ ExpireUnclaimed(a)
             \/ \E d \in Deadlines : ReachDeadline(a, d)
      PROVE  RoundMove(db, db')
  BY <1>3, AttemptRounds, EndRounds
<1>4. ASSUME NEW r \in Runs,
             \/ QueueTimeout(r)
             \/ CancelLeasedRun(r)
             \/ CancelWaitingRun(r)
             \/ ReachQueueDeadline(r)
      PROVE  RoundMove(db, db')
  BY <1>4, RunRounds
<1>5. CASE SettleTerminatingBatch \/ PauseBatch
  BY <1>5, BatchRounds
<1>6. CASE ResumeBatch
  BY <1>6, ResumeRounds
<1>7. CASE TerminateBatch
  BY <1>7, TerminateRounds
<1> QED BY <1>1, <1>2, <1>3, <1>4, <1>5, <1>6, <1>7 DEF Next
-----------------------------------------------------------------------------
(* The invariant of the rounds.                                            *)

AwaitedStatuses == {"pending", "polling", "waiting"}

\* Steps are awaited after the batch's own round only, and then nothing else is
\* left to do in it.
StepsAwaited(s) ==
  \A p \in RecoverySteps : s.recovery[p] \in AwaitedStatuses =>
    AfterRound[p] = s.batch.round /\ AllHeld(s)

\* ReleaseGate without the shapes of the rows.
GateHolds(s) ==
  \A p \in RecoverySteps :
    /\ AfterRound[p] < s.batch.round => s.recovery[p] \in {"succeeded", "releasing", "cancelled"}
    /\ s.recovery[p] = "releasing" =>
         /\ AfterRound[p] < s.batch.round
         /\ \A q \in StepsAfter(AfterRound[p]) \ {p} : s.recovery[q] = "succeeded"

\* EndingsStand, with the round in which the batch ended.
EndingsKept(s) ==
  /\ \A p \in RecoverySteps : s.recovery[p] = "failed" =>
       s.batch.status \in BatchTerminal /\ AfterRound[p] = s.batch.round
  /\ s.batch.terminating => \A p \in RecoverySteps : s.recovery[p] \in RecoveryClosed

RoundsSound(s) == Inv(s) /\ StepsAwaited(s) /\ GateHolds(s) /\ EndingsKept(s)

\* Rounds and their ends are numbers.
LEMMA RoundNumbers ==
  ASSUME NEW s, Consistent(s)
  PROVE  /\ s.batch.round \in Nat \ {0}
         /\ \A p \in RecoverySteps : AfterRound[p] \in Nat \ {0}
  BY ControlAssumption DEF Consistent, Database

\* A transaction of ExecutionControl keeps what holds of the rounds.
LEMMA MoveSound ==
  ASSUME NEW s, RoundsSound(s), NEW t, Inv(t), RoundMove(s, t),
         s.batch.status \in BatchTerminal => t.batch.status = s.batch.status
  PROVE  RoundsSound(t)
<1> USE DEF AwaitedStatuses, RecoveryClosed
<1>1. /\ s.batch.round \in Nat
      /\ \A p \in RecoverySteps : AfterRound[p] \in Nat
  BY RoundNumbers DEF RoundsSound, Inv
<1>2. StepsAwaited(s) /\ GateHolds(s) /\ EndingsKept(s)
  BY DEF RoundsSound
<1>3. CASE RoundQuiet(s, t)
  <2>1. \A r \in Runs : /\ s.run[r].status \in RunInFlight => s.run[r].held = 0
                        /\ t.run[r].status \notin RunTerminal => s.run[r].status \notin RunTerminal
    BY <1>3 DEF RoundsSound, Inv, Consistent, RoundsAgree, RunInFlight, RunTerminal,
                RoundQuiet, HeldKept
  <2>2. AllHeld(s) => AllHeld(t)
    BY <1>3, <2>1 DEF AllHeld, RoundQuiet, HeldKept
  <2>3. StepsAwaited(t)
    BY <1>2, <1>3, <2>2 DEF StepsAwaited, RoundQuiet
  <2>4. GateHolds(t)
    BY <1>2, <1>3 DEF GateHolds, RoundQuiet
  <2>5. EndingsKept(t)
    BY <1>2, <1>3 DEF EndingsKept, RoundQuiet
  <2> QED BY <2>3, <2>4, <2>5 DEF RoundsSound
<1>4. CASE RoundAwaits(s, t)
  <2>1. /\ t.batch.round = s.batch.round /\ t.batch.terminating = s.batch.terminating
        /\ AllHeld(t)
        /\ \A p \in RecoverySteps :
             \/ t.recovery[p] = s.recovery[p]
             \/ /\ s.recovery[p] = "idle" /\ t.recovery[p] = "pending"
                /\ AfterRound[p] = s.batch.round
    BY <1>4 DEF RoundAwaits
  <2>2. StepsAwaited(t)
    BY <1>2, <2>1 DEF StepsAwaited
  <2>3. GateHolds(t)
    BY <1>1, <1>2, <2>1 DEF GateHolds, StepsAfter
  <2>4. EndingsKept(t)
    BY <1>2, <2>1 DEF EndingsKept
  <2> QED BY <2>2, <2>3, <2>4 DEF RoundsSound
<1>5. CASE RoundReleases(s, t)
  <2>1. /\ t.batch.round = s.batch.round + 1 /\ t.batch.terminating = s.batch.terminating
        /\ t.recovery = s.recovery
        /\ \A p \in RecoverySteps : AfterRound[p] = s.batch.round => s.recovery[p] = "succeeded"
    BY <1>5 DEF RoundReleases, StepsAfter
  <2>2. StepsAwaited(t)
    BY <1>2, <2>1 DEF StepsAwaited
  <2>3. GateHolds(t)
    BY <1>1, <1>2, <2>1 DEF GateHolds
  <2>4. EndingsKept(t)
    BY <1>2, <2>1 DEF EndingsKept
  <2> QED BY <2>2, <2>3, <2>4 DEF RoundsSound
<1>6. CASE RoundTerminates(s, t)
  <2>1. /\ t.batch.round = s.batch.round
        /\ \A p \in RecoverySteps :
             t.recovery[p] = IF s.recovery[p] \in {"idle"} \cup RecoveryActive
                             THEN "cancelled" ELSE s.recovery[p]
    BY <1>6 DEF RoundTerminates
  <2>2. \A p \in RecoverySteps :
          /\ t.recovery[p] \in RecoveryClosed
          /\ t.recovery[p] # "cancelled" => t.recovery[p] = s.recovery[p]
    <3>1. \A p \in RecoverySteps :
            s.recovery[p] \in {"idle", "succeeded", "failed", "cancelled"} \cup RecoveryActive
      BY DEF RoundsSound, Inv, Consistent, Database
    <3> QED BY <2>1, <3>1
  <2>3. StepsAwaited(t)
    BY <2>2 DEF StepsAwaited
  <2>4. GateHolds(t)
    BY <1>2, <2>1, <2>2 DEF GateHolds, StepsAfter, RecoveryActive
  <2>5. EndingsKept(t)
    BY <1>2, <2>1, <2>2 DEF EndingsKept
  <2> QED BY <2>3, <2>4, <2>5 DEF RoundsSound
<1> QED BY <1>3, <1>4, <1>5, <1>6 DEF RoundMove

\* A request, a scan or a pass of the scheduler keeps what holds of the rounds.
LEMMA ControlSound ==
  ASSUME RoundsSound(db), [Next]_db
  PROVE  RoundsSound(db')
<1>1. CASE db' = db
  BY <1>1 DEF RoundsSound, StepsAwaited, GateHolds, EndingsKept
<1>2. CASE Next
  <2>1. Inv(db') /\ (Moves(db, db') \/ \E D \in SUBSET Runs : Reserves(db, db', D))
    BY <1>2, NextInv DEF RoundsSound
  <2>2. db.batch.status \in BatchTerminal => db'.batch.status = db.batch.status
    BY <2>1 DEF Moves, BatchStep, Reserves, BatchOpen, BatchTerminal
  <2>3. RoundMove(db, db')
    BY <1>2, NextRounds DEF RoundsSound
  <2> QED BY <2>1, <2>2, <2>3, MoveSound
<1> QED BY <1>1, <1>2
-----------------------------------------------------------------------------
(* The writes of the recovery workers, as functions of the database.       *)

\* The status of a step is no business of ExecutionControl's invariant.
LEMMA RecoveryStatusInv ==
  ASSUME NEW s, Inv(s), NEW p \in RecoverySteps,
         NEW st \in {"idle", "succeeded", "failed", "cancelled"} \cup RecoveryActive,
         NEW t, t = [s EXCEPT !.recovery[p] = st]
  PROVE  /\ Inv(t) /\ t.run = s.run /\ t.batch = s.batch
         /\ \A q \in RecoverySteps : t.recovery[q] = IF q = p THEN st ELSE s.recovery[q]
<1>1. /\ t \in Database /\ t.run = s.run /\ t.attempt = s.attempt /\ t.batch = s.batch
      /\ t.recovery = [s.recovery EXCEPT ![p] = st]
  BY DEF Inv, Consistent, Database
<1>2. \A q \in RecoverySteps : t.recovery[q] = IF q = p THEN st ELSE s.recovery[q]
  BY <1>1 DEF Inv, Consistent, Database
<1>3. RowsAgree(t) /\ RoundsAgree(t) /\ DueAgrees(t)
  BY <1>1 DEF Inv, Consistent, RowsAgree, RoundsAgree, DueAgrees
<1>4. Consistent(t)
  BY <1>1, <1>3 DEF Inv, Consistent
<1>5. Inv(t)
  BY <1>1, <1>4 DEF Inv, AllSettled
<1> QED BY <1>1, <1>2, <1>5

\* markPolling and markWaiting move a step that is still awaited.
LEMMA MarkSound ==
  ASSUME NEW s, RoundsSound(s), NEW p \in RecoverySteps, s.recovery[p] \in AwaitedStatuses,
         NEW st \in {"polling", "waiting"}
  PROVE  RoundsSound([s EXCEPT !.recovery[p] = st])
<1> DEFINE t == [s EXCEPT !.recovery[p] = st]
<1>1. /\ Inv(t) /\ t.run = s.run /\ t.batch = s.batch
      /\ \A q \in RecoverySteps : t.recovery[q] = IF q = p THEN st ELSE s.recovery[q]
  BY RecoveryStatusInv DEF RoundsSound, RecoveryActive
<1> HIDE DEF t
<1>2. AfterRound[p] = s.batch.round /\ s.batch.round \in Nat
  BY RoundNumbers DEF RoundsSound, Inv, StepsAwaited
<1>3. StepsAwaited(t)
  BY <1>1 DEF RoundsSound, StepsAwaited, AwaitedStatuses, AllHeld
<1>4. GateHolds(t)
  BY <1>1, <1>2 DEF RoundsSound, GateHolds, StepsAfter, AwaitedStatuses
<1>5. EndingsKept(t)
  BY <1>1 DEF RoundsSound, EndingsKept, AwaitedStatuses, RecoveryClosed
<1> QED BY <1>1, <1>3, <1>4, <1>5 DEF RoundsSound, t

\* A step that has waited, or has released its round, succeeds.
LEMMA SucceedSound ==
  ASSUME NEW s, RoundsSound(s), NEW p \in RecoverySteps, s.recovery[p] \in {"waiting", "releasing"}
  PROVE  RoundsSound([s EXCEPT !.recovery[p] = "succeeded"])
<1> DEFINE t == [s EXCEPT !.recovery[p] = "succeeded"]
<1>1. /\ Inv(t) /\ t.run = s.run /\ t.batch = s.batch
      /\ \A q \in RecoverySteps : t.recovery[q] = IF q = p THEN "succeeded" ELSE s.recovery[q]
  BY RecoveryStatusInv DEF RoundsSound
<1> HIDE DEF t
<1>2. StepsAwaited(t)
  BY <1>1 DEF RoundsSound, StepsAwaited, AwaitedStatuses, AllHeld
<1>3. GateHolds(t)
  BY <1>1 DEF RoundsSound, GateHolds, StepsAfter
<1>4. EndingsKept(t)
  BY <1>1 DEF RoundsSound, EndingsKept, RecoveryClosed
<1> QED BY <1>1, <1>2, <1>3, <1>4 DEF RoundsSound, t

\* completeWaitingStep: the last step of a round releases the next one.
LEMMA ReleaseSound ==
  ASSUME NEW s, RoundsSound(s), NEW p \in RecoverySteps, s.recovery[p] = "waiting",
         \A q \in StepsAfter(AfterRound[p]) \ {p} : s.recovery[q] = "succeeded"
  PROVE  RoundsSound(ReleaseRound([s EXCEPT !.recovery[p] = "releasing"], AfterRound[p] + 1))
<1> DEFINE u == [s EXCEPT !.recovery[p] = "releasing"]
           k == AfterRound[p] + 1
           t == ReleaseRound(u, k)
<1>1. /\ Inv(u) /\ u.run = s.run /\ u.batch = s.batch
      /\ \A q \in RecoverySteps : u.recovery[q] = IF q = p THEN "releasing" ELSE s.recovery[q]
  BY RecoveryStatusInv DEF RoundsSound, RecoveryActive
<1> HIDE DEF u
<1>2. AfterRound[p] = s.batch.round /\ AllHeld(s) /\ s.batch.round \in Nat
  BY RoundNumbers DEF RoundsSound, Inv, StepsAwaited, AwaitedStatuses
<1>3. k \in Nat \ {0} /\ k = u.batch.round + 1 /\ k = s.batch.round + 1
  BY <1>1, <1>2
<1>4. \A r \in Runs : u.run[r].status \notin RunInFlight /\ ~Schedulable(u, r)
  BY <1>1, <1>2 DEF AllHeld, Schedulable, Inv, Consistent, RoundsAgree, RunInFlight, RunTerminal
<1> HIDE DEF k
<1>5. /\ Consistent(t) /\ t.batch = [u.batch EXCEPT !.round = k] /\ t.recovery = u.recovery
      /\ \A r \in Runs : t.run[r].status = u.run[r].status
  BY <1>1, <1>3, <1>4, ReleaseRoundConsistent DEF Inv
<1> HIDE DEF t
<1>6. /\ t.batch.status = s.batch.status /\ t.batch.terminating = s.batch.terminating
      /\ t.batch.round = s.batch.round + 1
  BY <1>1, <1>3, <1>5 DEF RoundsSound, Inv, Consistent, Database
<1>7. Inv(t)
  BY <1>1, <1>5, <1>6 DEF RoundsSound, Inv, AllSettled
<1>8. \A q \in RecoverySteps : AfterRound[q] = s.batch.round =>
        IF q = p THEN t.recovery[q] = "releasing" ELSE s.recovery[q] = "succeeded"
  BY <1>1, <1>2, <1>5 DEF StepsAfter
<1>9. \A q \in RecoverySteps : q # p => t.recovery[q] = s.recovery[q]
  BY <1>1, <1>5
<1>10. t.recovery[p] = "releasing" /\ \A q \in RecoverySteps : AfterRound[q] \in Nat
  BY <1>1, <1>5, RoundNumbers DEF RoundsSound, Inv
<1>11. StepsAwaited(t)
  BY <1>8, <1>9, <1>10 DEF RoundsSound, StepsAwaited, AwaitedStatuses
<1>12. GateHolds(t)
  <2> SUFFICES ASSUME NEW q \in RecoverySteps
               PROVE  /\ AfterRound[q] < t.batch.round =>
                           t.recovery[q] \in {"succeeded", "releasing", "cancelled"}
                      /\ t.recovery[q] = "releasing" =>
                           /\ AfterRound[q] < t.batch.round
                           /\ \A x \in StepsAfter(AfterRound[q]) \ {q} : t.recovery[x] = "succeeded"
    BY DEF GateHolds
  <2>1. CASE q = p
    BY <1>2, <1>6, <1>8, <1>9, <1>10, <2>1 DEF StepsAfter
  <2>2. CASE q # p
    <3>1. t.recovery[q] = s.recovery[q]
      BY <1>9, <2>2
    <3>2. CASE AfterRound[q] = s.batch.round
      BY <1>2, <1>6, <1>8, <2>2, <3>1, <3>2
    <3>3. CASE AfterRound[q] # s.batch.round
      <4>1. GateHolds(s)
        BY DEF RoundsSound
      <4>2. AfterRound[q] < t.batch.round => AfterRound[q] < s.batch.round
        BY <1>2, <1>6, <1>10, <3>3
      <4>3. \A x \in StepsAfter(AfterRound[q]) : x # p
        BY <1>2, <3>3 DEF StepsAfter
      <4>4. s.recovery[q] = "releasing" => AfterRound[q] < t.batch.round
        BY <1>2, <1>6, <1>10, <4>1 DEF GateHolds
      <4> QED BY <1>9, <3>1, <4>1, <4>2, <4>3, <4>4 DEF GateHolds, StepsAfter
    <3> QED BY <3>2, <3>3
  <2> QED BY <2>1, <2>2
<1>13. EndingsKept(t)
  <2>1. ~s.batch.terminating
    BY DEF RoundsSound, EndingsKept, RecoveryClosed
  <2> QED BY <1>6, <1>8, <1>9, <1>10, <2>1 DEF RoundsSound, EndingsKept
<1> QED BY <1>7, <1>11, <1>12, <1>13 DEF RoundsSound, t, u, k
\* fail: the runs behind the step end with it, and they are all that is open.
LEMMA FailSound ==
  ASSUME NEW s, RoundsSound(s), NEW p \in RecoverySteps, s.recovery[p] \in AwaitedStatuses
  PROVE  RoundsSound(Failed(s, p))
<1> DEFINE Over(r) == RunEnded(s.run[r], "failed", "failed", "abnormal")
           Cut(r) == [Over(r) EXCEPT !.held = 0]
           f == [r \in Runs |-> IF r \in HeldRuns(s) THEN Cut(r) ELSE s.run[r]]
           v == [s.recovery EXCEPT ![p] = "failed"]
           st == IF s.batch.status \in BatchTerminal THEN s.batch.status ELSE "failed"
           t == Failed(s, p)
<1>1. /\ Inv(s) /\ Consistent(s) /\ s \in Database /\ \A r \in Runs : s.run[r] \in RunRow
      /\ AfterRound[p] = s.batch.round /\ AllHeld(s)
  BY DEF RoundsSound, Inv, Consistent, Database, StepsAwaited
<1>2. t = [s EXCEPT !.recovery = v, !.run = f, !.batch = [s.batch EXCEPT !.status = st]]
  BY <1>1 DEF Failed, Database
<1>3. \A r \in Runs : /\ Cut(r) \in RunRow /\ Cut(r).status = "failed"
                      /\ Cut(r).attempts = s.run[r].attempts
                      /\ ~Cut(r).queueDue
  <2> SUFFICES ASSUME NEW r \in Runs
               PROVE  /\ Cut(r) \in RunRow /\ Cut(r).status = "failed"
                      /\ Cut(r).attempts = s.run[r].attempts
                      /\ ~Cut(r).queueDue
    OBVIOUS
  <2>1. /\ Over(r) \in RunRow /\ Over(r).status = "failed"
        /\ Over(r).attempts = s.run[r].attempts
    <3>1. /\ "failed" \in RunStatuses /\ "failed" \in AttemptTerminal
          /\ "abnormal" \in CodeClasses
      BY Words DEF AttemptTerminal
    <3> QED BY <1>1, <3>1, RunEndedType
  <2>2. ~Over(r).queueDue
    BY <1>1, RunEndedDue
  <2> HIDE DEF Over
  <2> QED BY <2>1, <2>2 DEF RunRow
<1> HIDE DEF Cut
<1>4. /\ f \in [Runs -> RunRow] /\ st \in BatchStatuses /\ st \in BatchTerminal
      /\ s.batch.status \in BatchTerminal => st = s.batch.status
      /\ v \in [RecoverySteps ->
                  {"idle", "succeeded", "failed", "cancelled"} \cup RecoveryActive]
  BY <1>1, <1>3 DEF Database, BatchStatuses, BatchTerminal
<1>5. \A q \in RecoverySteps : v[q] = IF q = p THEN "failed" ELSE s.recovery[q]
  BY <1>1 DEF Database
<1>6. \A r \in Runs : f[r] = IF r \in HeldRuns(s) THEN Cut(r) ELSE s.run[r]
  OBVIOUS
<1> HIDE DEF f, v, st, t
<1>7. /\ t \in Database /\ t.run = f /\ t.attempt = s.attempt /\ t.recovery = v
      /\ t.batch.status = st /\ t.batch.round = s.batch.round
      /\ t.batch.terminating = s.batch.terminating
  <2> DEFINE b == [s.batch EXCEPT !.status = st]
  <2>1. /\ b \in [status : BatchOpen \cup BatchTerminal, terminating : BOOLEAN,
                  paused : BOOLEAN, round : Nat \ {0}]
        /\ b.status = st /\ b.round = s.batch.round /\ b.terminating = s.batch.terminating
    BY <1>1, <1>4 DEF Database, BatchStatuses
  <2>2. t = [s EXCEPT !.recovery = v, !.run = f, !.batch = b]
    BY <1>2
  <2> HIDE DEF b
  <2> QED BY <1>1, <1>4, <2>1, <2>2 DEF Database
<1>8. \A r \in Runs : /\ r \in HeldRuns(s) \/ s.run[r].status \in RunTerminal
                      /\ r \in HeldRuns(s) => s.run[r].status = "queued"
  <2> SUFFICES ASSUME NEW r \in Runs, s.run[r].status \notin RunTerminal
               PROVE  r \in HeldRuns(s)
    BY DEF HeldRuns
  <2>1. s.run[r].held # 0 /\ s.run[r].held \in Nat
    BY <1>1 DEF AllHeld, RunRow
  <2>2. s.run[r].status = "queued"
    BY <1>1, <2>1 DEF Consistent, RoundsAgree
  <2> QED BY <2>1, <2>2 DEF HeldRuns
<1>9. \A r \in Runs : /\ t.run[r].status \in RunTerminal
                      /\ t.run[r].attempts = s.run[r].attempts
                      /\ s.run[r].status \notin RunInFlight
                      /\ ~t.run[r].queueDue
  <2>1. DueAgrees(s)
    BY <1>1 DEF Consistent
  <2> QED BY <1>3, <1>6, <1>7, <1>8, <2>1 DEF DueAgrees, RunTerminal, RunInFlight
<1>10. RowsAgree(t)
  BY <1>1, <1>7, <1>9 DEF Consistent, RowsAgree, RunTerminal, RunInFlight
<1>11. RoundsAgree(t) /\ DueAgrees(t)
  BY <1>9 DEF RoundsAgree, DueAgrees
<1>12. Consistent(t)
  BY <1>1, <1>7, <1>10, <1>11 DEF Consistent
<1>13. Inv(t)
  BY <1>4, <1>7, <1>9, <1>12 DEF Inv, AllSettled
<1>14. StepsAwaited(t)
  BY <1>5, <1>7, <1>9 DEF RoundsSound, StepsAwaited, AwaitedStatuses, AllHeld
<1>15. GateHolds(t)
  <2>1. s.recovery[p] # "succeeded" /\ ~(AfterRound[p] < t.batch.round)
    BY <1>1, <1>7, RoundNumbers DEF AwaitedStatuses
  <2> QED BY <1>5, <1>7, <2>1 DEF RoundsSound, GateHolds, StepsAfter
<1>16. EndingsKept(t)
  BY <1>1, <1>4, <1>5, <1>7 DEF RoundsSound, EndingsKept, RecoveryClosed
<1> QED BY <1>13, <1>14, <1>15, <1>16 DEF RoundsSound, t

-----------------------------------------------------------------------------
(* Every step of the control plane and of the workers.                     *)

\* The rounds of a batch that has just been created.
LEMMA InitSound ==
  ASSUME Init
  PROVE  RoundsSound(db)
<1>1. Inv(db)
  BY InitInv
<1>2. /\ db.batch.round = 1 /\ ~db.batch.terminating
      /\ \A p \in RecoverySteps : db.recovery[p] = "idle" /\ AfterRound[p] \in Nat \ {0}
  BY ControlAssumption DEF Init
<1>3. StepsAwaited(db) /\ GateHolds(db) /\ EndingsKept(db)
  BY <1>2 DEF StepsAwaited, GateHolds, EndingsKept, AwaitedStatuses
<1> QED BY <1>1, <1>3 DEF RoundsSound

\* A worker writes only what it may, whatever it read when it claimed the step.
LEMMA TaskSound ==
  ASSUME RoundsSound(db), NEW w \in Workers, NEW p \in RecoverySteps, TaskStep(w, p)
  PROVE  RoundsSound(db')
<1> USE DEF Expected, Holds, AwaitedStatuses
<1>1. CASE Mark(w, p)
  <2>1. PICK st \in {"polling", "waiting"} : db' = [db EXCEPT !.recovery[p] = st]
    BY <1>1 DEF Mark
  <2>2. db.recovery[p] \in AwaitedStatuses
    BY <1>1 DEF Mark
  <2> QED BY <2>1, <2>2, MarkSound
<1>2. CASE CompleteWaitingStep(w, p)
  <2>1. db.recovery[p] = "waiting"
    BY <1>2 DEF CompleteWaitingStep
  <2>2. CASE db' = [db EXCEPT !.recovery[p] = "succeeded"]
    BY <2>1, <2>2, SucceedSound
  <2>3. CASE /\ LastOfRound(p)
             /\ db' = ReleaseRound([db EXCEPT !.recovery[p] = "releasing"], AfterRound[p] + 1)
    BY <2>1, <2>3, ReleaseSound DEF LastOfRound
  <2> QED BY <1>2, <2>2, <2>3 DEF CompleteWaitingStep
<1>3. CASE Schedule(w, p)
  <2>1. db' = db \/ \E D \in SUBSET Runs : ReserveAssignments(D)
    BY <1>3 DEF Schedule
  <2>2. [Next]_db
    BY <2>1 DEF Next
  <2> QED BY <2>2, ControlSound
<1>4. CASE CompleteRoundRelease(w, p)
  BY <1>4, SucceedSound DEF CompleteRoundRelease
<1>5. CASE Fail(w, p)
  <2>1. db.recovery[p] \in AwaitedStatuses
    BY <1>5 DEF Fail
  <2> QED BY <1>5, <2>1, FailSound DEF Fail
<1>6. CASE \/ Trigger(w, p) \/ InspectUndecided(w, p) \/ InspectDecided(w, p)
           \/ DeferPollingFailure(w, p) \/ RetryRoundRelease(w, p) \/ ClaimLost(w, p)
  <2>1. db' = db
    BY <1>6 DEF Trigger, InspectUndecided, InspectDecided, DeferPollingFailure,
                RetryRoundRelease, ClaimLost
  <2> QED BY <2>1, ControlSound
<1> QED BY <1>1, <1>2, <1>3, <1>4, <1>5, <1>6 DEF TaskStep

\* Every step keeps what holds of the rounds.
LEMMA RecoverySound ==
  ASSUME RoundsSound(db), [RecoveryNext]_vars
  PROVE  RoundsSound(db')
<1>1. CASE ControlStep
  BY <1>1, ControlSound DEF ControlStep
<1>2. ASSUME NEW w \in Workers, NEW p \in RecoverySteps, TaskStep(w, p)
      PROVE  RoundsSound(db')
  BY <1>2, TaskSound
<1>3. CASE UNCHANGED db
  BY <1>3, ControlSound
<1>4. ASSUME NEW w \in Workers,
             ClaimDue(w) \/ Crash(w) \/ \E p \in RecoverySteps : Throws(w, p)
      PROVE  UNCHANGED db
  BY <1>4 DEF ClaimDue, Crash, Throws
<1>5. ASSUME NEW p \in RecoverySteps, LeaseLapses(p) \/ StepComesDue(p)
      PROVE  UNCHANGED db
  BY <1>5 DEF LeaseLapses, StepComesDue
<1> QED BY <1>1, <1>2, <1>3, <1>4, <1>5 DEF RecoveryNext, vars

-----------------------------------------------------------------------------
(* Leases and tasks.  A poll that fails is counted in the row of the step, *)
(* but the worker decides by the count it read when it claimed the step.   *)

MostFailures == MaxPollFailures + Cardinality(Workers)

LeaseRow == [owner : {"none"} \cup {Name[w] : w \in Workers}, lapsed : BOOLEAN,
             due : BOOLEAN, failures : 0 .. MostFailures]

TaskRow == [at : TaskSteps, failures : 0 .. MostFailures]

\* The workers that would still count another failure of step p.
Counting(t, p) ==
  {w \in Workers : t[w][p].at # "none" /\ t[w][p].failures < MaxPollFailures}

\* Each of them may add one to the count, and no other worker does.
TasksSound(l, t) ==
  /\ l \in [RecoverySteps -> LeaseRow]
  /\ t \in [Workers -> [RecoverySteps -> TaskRow]]
  /\ \A p \in RecoverySteps :
       /\ l[p].failures + Cardinality(Counting(t, p)) <= MostFailures
       /\ \A w \in Workers : t[w][p].at = "defer" => t[w][p].failures < MaxPollFailures

\* Worker w is done with step p, or has something else to do with it.
Goes(t, u, w, p) ==
  \E row \in TaskRow :
    /\ u = [t EXCEPT ![w][p] = row]
    /\ row.at # "none" => row.failures = t[w][p].failures
    /\ row.at = "defer" => row.failures < MaxPollFailures

\* Two bounds, added.
LEMMA SumBound ==
  ASSUME NEW a \in Nat, NEW b \in Nat, NEW c \in Nat, NEW d \in Nat, a < c, b <= d
  PROVE  a + b <= c + d
  OBVIOUS

\* A set of workers is no larger than one that includes it.
LEMMA CountWorkers ==
  ASSUME NEW S \in SUBSET Workers, NEW T \in SUBSET S
  PROVE  /\ Cardinality(T) \in Nat /\ Cardinality(S) \in Nat
         /\ Cardinality(T) <= Cardinality(S)
         /\ Cardinality(S) <= Cardinality(Workers) /\ Cardinality(Workers) \in Nat
         /\ T # S => Cardinality(T) + 1 <= Cardinality(S)
<1>1. IsFiniteSet(S) /\ IsFiniteSet(T) /\ IsFiniteSet(Workers)
  BY RecoveryAssumption, FS_Subset
<1>2. /\ Cardinality(T) \in Nat /\ Cardinality(S) \in Nat /\ Cardinality(Workers) \in Nat
      /\ Cardinality(T) <= Cardinality(S) /\ Cardinality(S) <= Cardinality(Workers)
  BY <1>1, FS_Subset, FS_CardinalityType
<1>3. T # S => Cardinality(T) # Cardinality(S)
  BY <1>1, FS_Subset
<1> QED BY <1>2, <1>3

\* The counts are numbers.
LEMMA MostFailuresNat == MostFailures \in Nat /\ MaxPollFailures <= MostFailures
  BY CountWorkers, RecoveryAssumption DEF MostFailures

\* The rows of sound leases and tasks.
LEMMA TaskRows ==
  ASSUME NEW l, NEW t, TasksSound(l, t)
  PROVE  /\ \A p \in RecoverySteps : /\ l[p] \in LeaseRow /\ l[p].failures \in Nat
                                    /\ l[p].failures \in 0 .. MostFailures
         /\ \A w \in Workers, p \in RecoverySteps : t[w][p] \in TaskRow
<1>1. \A row \in LeaseRow : row.failures \in 0 .. MostFailures /\ row.failures \in Nat
  BY MostFailuresNat DEF LeaseRow
<1> QED BY <1>1 DEF TasksSound

\* What a worker does with a step it has claimed leaves the counts in bounds.
LEMMA GoesSound ==
  ASSUME NEW l, NEW t, TasksSound(l, t), NEW w \in Workers, NEW p \in RecoverySteps,
         t[w][p].at # "none", NEW u, Goes(t, u, w, p),
         NEW row \in LeaseRow, row.failures <= l[p].failures, NEW m, m = [l EXCEPT ![p] = row]
  PROVE  TasksSound(m, u)
<1>1. PICK new \in TaskRow :
        /\ u = [t EXCEPT ![w][p] = new]
        /\ new.at # "none" => new.failures = t[w][p].failures
        /\ new.at = "defer" => new.failures < MaxPollFailures
  BY DEF Goes
<1>2. /\ u \in [Workers -> [RecoverySteps -> TaskRow]]
      /\ \A v \in Workers, q \in RecoverySteps :
           u[v][q] = IF v = w /\ q = p THEN new ELSE t[v][q]
  BY <1>1 DEF TasksSound
<1>3. m \in [RecoverySteps -> LeaseRow] /\ \A q \in RecoverySteps : m[q].failures <= l[q].failures
  BY DEF TasksSound, LeaseRow
<1>4. \A q \in RecoverySteps, v \in Workers :
        u[v][q].at = "defer" => u[v][q].failures < MaxPollFailures
  BY <1>1, <1>2 DEF TasksSound
<1>5. \A q \in RecoverySteps : Counting(u, q) \subseteq Counting(t, q)
  BY <1>1, <1>2 DEF Counting
<1>6. ASSUME NEW q \in RecoverySteps
      PROVE  m[q].failures + Cardinality(Counting(u, q)) <= MostFailures
  <2>1. /\ Cardinality(Counting(u, q)) <= Cardinality(Counting(t, q))
        /\ Cardinality(Counting(u, q)) \in Nat /\ Cardinality(Counting(t, q)) \in Nat
    <3>1. Counting(t, q) \in SUBSET Workers
      BY DEF Counting
    <3> QED BY <1>5, <3>1, CountWorkers
  <2>2. m[q].failures \in Nat /\ l[q].failures \in Nat /\ m[q].failures <= l[q].failures
    BY <1>3 DEF TasksSound, LeaseRow
  <2>3. l[q].failures + Cardinality(Counting(t, q)) <= MostFailures
    BY DEF TasksSound
  <2> QED BY <2>1, <2>2, <2>3, MostFailuresNat
<1> QED BY <1>2, <1>3, <1>4, <1>6 DEF TasksSound

\* A failed poll that is counted takes the worker that counted it away.
LEMMA DeferSound ==
  ASSUME NEW l, NEW t, TasksSound(l, t), NEW w \in Workers, NEW p \in RecoverySteps,
         t[w][p].at = "defer", NEW u, u = [t EXCEPT ![w][p] = NoTask],
         NEW m, m = [l EXCEPT ![p] = [Free EXCEPT !.failures = l[p].failures + 1]]
  PROVE  TasksSound(m, u)
<1>1. NoTask \in TaskRow /\ MostFailures \in Nat
  BY MostFailuresNat DEF NoTask, TaskRow, TaskSteps
<1>2. /\ u \in [Workers -> [RecoverySteps -> TaskRow]]
      /\ \A v \in Workers, q \in RecoverySteps :
           u[v][q] = IF v = w /\ q = p THEN NoTask ELSE t[v][q]
  BY <1>1 DEF TasksSound
<1>3. \A q \in RecoverySteps : /\ Counting(t, q) \in SUBSET Workers
                               /\ Counting(u, q) \in SUBSET Counting(t, q)
  BY <1>2 DEF Counting, NoTask
<1>4. w \in Counting(t, p) /\ w \notin Counting(u, p)
  BY <1>2 DEF Counting, NoTask, TasksSound
<1>5. \A q \in RecoverySteps : /\ Cardinality(Counting(u, q)) <= Cardinality(Counting(t, q))
                               /\ Cardinality(Counting(u, q)) \in Nat
                               /\ Cardinality(Counting(t, q)) \in Nat
  BY <1>3, CountWorkers
<1>6. Cardinality(Counting(u, p)) + 1 <= Cardinality(Counting(t, p))
  BY <1>3, <1>4, CountWorkers
<1>7. /\ \A q \in RecoverySteps : l[q] \in LeaseRow /\ l[q].failures \in Nat
      /\ \A q \in RecoverySteps : l[q].failures + Cardinality(Counting(t, q)) <= MostFailures
  BY DEF TasksSound, LeaseRow
<1> DEFINE n == l[p].failures + 1
           row == [Free EXCEPT !.failures = n]
<1>8. n \in 0 .. MostFailures /\ n + Cardinality(Counting(u, p)) <= MostFailures
  <2>1. ASSUME NEW a \in Nat, NEW b \in Nat, NEW k \in Nat, NEW x \in Nat,
               b + 1 <= a, x + a <= k
        PROVE  x + 1 \in 0 .. k /\ (x + 1) + b <= k
    BY <2>1
  <2> QED BY <1>1, <1>5, <1>6, <1>7, <2>1
<1> HIDE DEF n
<1>9. row \in LeaseRow /\ row.failures = n
  BY <1>8 DEF Free, LeaseRow
<1>10. m = [l EXCEPT ![p] = row]
  BY DEF n
<1> HIDE DEF row
<1>11. /\ m \in [RecoverySteps -> LeaseRow]
       /\ \A q \in RecoverySteps : m[q] = IF q = p THEN row ELSE l[q]
  BY <1>9, <1>10 DEF TasksSound
<1>12. ASSUME NEW q \in RecoverySteps
       PROVE  /\ m[q].failures + Cardinality(Counting(u, q)) <= MostFailures
              /\ \A v \in Workers : u[v][q].at = "defer" => u[v][q].failures < MaxPollFailures
  <2>1. CASE q = p
    BY <1>2, <1>8, <1>9, <1>11, <2>1 DEF TasksSound, NoTask
  <2>2. CASE q # p
    <3>1. m[q] = l[q] /\ \A v \in Workers : u[v][q] = t[v][q]
      BY <1>2, <1>11, <2>2
    <3>2. Counting(u, q) = Counting(t, q)
      BY <3>1 DEF Counting
    <3> QED BY <3>1, <3>2 DEF TasksSound
  <2> QED BY <2>1, <2>2
<1> QED BY <1>2, <1>11, <1>12 DEF TasksSound
\* A lease that is taken, given back, runs out or comes due counts nothing.
LEMMA LeasesSound ==
  ASSUME NEW l, NEW t, TasksSound(l, t), NEW m \in [RecoverySteps -> LeaseRow],
         \A p \in RecoverySteps : m[p].failures = l[p].failures
  PROVE  TasksSound(m, t)
  BY DEF TasksSound

\* Worker w takes the steps S, and begins with first.
TakenLeases(l, w, S) ==
  [p \in RecoverySteps |->
     IF p \in S THEN [l[p] EXCEPT !.owner = Name[w], !.lapsed = FALSE] ELSE l[p]]

TakenTasks(l, t, w, S, first) ==
  [t EXCEPT ![w] = [p \in RecoverySteps |->
     IF p \in S THEN [at |-> first[p], failures |-> l[p].failures] ELSE t[w][p]]]

\* claimDue: the worker reads the counts of the steps it takes.
LEMMA ClaimSound ==
  ASSUME NEW l, NEW t, TasksSound(l, t), NEW w \in Workers, NEW S \in SUBSET RecoverySteps,
         \A p \in S : t[w][p].at = "none",
         NEW first, \A p \in S : first[p] \in TaskSteps \ {"defer"},
         NEW m, m = TakenLeases(l, w, S), NEW u, u = TakenTasks(l, t, w, S, first)
  PROVE  TasksSound(m, u)
<1> DEFINE Taken(p) == [l[p] EXCEPT !.owner = Name[w], !.lapsed = FALSE]
           New(p) == [at |-> first[p], failures |-> l[p].failures]
           x == [p \in RecoverySteps |-> IF p \in S THEN New(p) ELSE t[w][p]]
<1>1. /\ \A p \in RecoverySteps : /\ l[p] \in LeaseRow /\ l[p].failures \in Nat
                                   /\ l[p].failures \in 0 .. MostFailures
      /\ \A v \in Workers, p \in RecoverySteps : t[v][p] \in TaskRow
  BY TaskRows
<1>2. \A p \in RecoverySteps : Taken(p) \in LeaseRow /\ Taken(p).failures = l[p].failures
  BY <1>1 DEF LeaseRow
<1>3. \A p \in S : /\ New(p) \in TaskRow /\ New(p).at # "defer"
                   /\ New(p).failures = l[p].failures
  BY <1>1 DEF TaskRow
<1> HIDE DEF Taken, New
<1>4. m \in [RecoverySteps -> LeaseRow] /\ \A p \in RecoverySteps : m[p].failures = l[p].failures
  BY <1>1, <1>2 DEF Taken, TakenLeases
<1>5. x \in [RecoverySteps -> TaskRow] /\ u = [t EXCEPT ![w] = x]
  BY <1>1, <1>3 DEF New, TakenTasks
<1>6. \A p \in RecoverySteps : x[p] = IF p \in S THEN New(p) ELSE t[w][p]
  OBVIOUS
<1> HIDE DEF x
<1>7. /\ u \in [Workers -> [RecoverySteps -> TaskRow]]
      /\ \A v \in Workers, p \in RecoverySteps :
           u[v][p] = IF v = w /\ p \in S THEN New(p) ELSE t[v][p]
  BY <1>5, <1>6 DEF TasksSound
<1>8. \A p \in RecoverySteps, v \in Workers :
        u[v][p].at = "defer" => u[v][p].failures < MaxPollFailures
  BY <1>3, <1>7 DEF TasksSound
<1>9. ASSUME NEW p \in RecoverySteps
      PROVE  l[p].failures + Cardinality(Counting(u, p)) <= MostFailures
  <2>1. CASE p \in S /\ l[p].failures < MaxPollFailures
    <3>1. Counting(u, p) \in SUBSET Workers
      BY DEF Counting
    <3>2. /\ Cardinality(Counting(u, p)) \in Nat /\ Cardinality(Workers) \in Nat
          /\ Cardinality(Counting(u, p)) <= Cardinality(Workers)
      BY <3>1, CountWorkers
    <3>3. MaxPollFailures \in Nat
      BY RecoveryAssumption
    <3> QED BY <1>1, <2>1, <3>2, <3>3, SumBound DEF MostFailures
  <2>2. CASE ~(p \in S /\ l[p].failures < MaxPollFailures)
    <3>1. Counting(u, p) = Counting(t, p)
      BY <1>3, <1>7, <2>2 DEF Counting
    <3> QED BY <3>1 DEF TasksSound
  <2> QED BY <2>1, <2>2
<1> QED BY <1>4, <1>7, <1>8, <1>9 DEF TasksSound

\* A process that dies takes its tasks with it, and none of its leases.
LEMMA CrashSound ==
  ASSUME NEW l, NEW t, TasksSound(l, t), NEW w \in Workers,
         NEW u, u = [t EXCEPT ![w] = [p \in RecoverySteps |-> NoTask]]
  PROVE  TasksSound(l, u)
<1>1. NoTask \in TaskRow /\ MostFailures \in Nat
  BY MostFailuresNat DEF NoTask, TaskRow, TaskSteps
<1>2. /\ u \in [Workers -> [RecoverySteps -> TaskRow]]
      /\ \A v \in Workers, p \in RecoverySteps : u[v][p] = IF v = w THEN NoTask ELSE t[v][p]
  BY <1>1 DEF TasksSound
<1>3. \A p \in RecoverySteps : /\ Counting(t, p) \in SUBSET Workers
                               /\ Counting(u, p) \in SUBSET Counting(t, p)
  BY <1>2 DEF Counting, NoTask
<1>4. ASSUME NEW p \in RecoverySteps
      PROVE  l[p].failures + Cardinality(Counting(u, p)) <= MostFailures
  <2>1. /\ Cardinality(Counting(u, p)) <= Cardinality(Counting(t, p))
        /\ Cardinality(Counting(u, p)) \in Nat /\ Cardinality(Counting(t, p)) \in Nat
    BY <1>3, CountWorkers
  <2>2. l[p].failures \in Nat /\ l[p].failures + Cardinality(Counting(t, p)) <= MostFailures
    BY DEF TasksSound, LeaseRow
  <2> QED BY <1>1, <2>1, <2>2
<1>5. \A p \in RecoverySteps, v \in Workers :
        u[v][p].at = "defer" => u[v][p].failures < MaxPollFailures
  BY <1>2 DEF TasksSound, NoTask
<1> QED BY <1>2, <1>4, <1>5 DEF TasksSound

\* Where a worker goes next is recorded as Goes says.
LEMMA GotoGoes ==
  ASSUME TasksSound(lease, task), NEW w \in Workers, NEW p \in RecoverySteps,
         NEW at \in TaskSteps, at = "defer" => task[w][p].failures < MaxPollFailures,
         Goto(w, p, at)
  PROVE  Goes(task, task', w, p)
<1>1. task[w][p] \in TaskRow
  BY DEF TasksSound
<1>2. CASE at = "none"
  <2>1. NoTask \in TaskRow
    BY MostFailuresNat DEF NoTask, TaskRow, TaskSteps
  <2>2. task' = [task EXCEPT ![w][p] = NoTask]
    BY <1>2 DEF Goto
  <2> QED BY <2>1, <2>2 DEF Goes, NoTask
<1>3. CASE at # "none"
  <2> DEFINE row == [task[w][p] EXCEPT !.at = at]
  <2>1. task' = [task EXCEPT ![w][p] = row]
    BY <1>3 DEF Goto
  <2>2. row \in TaskRow /\ row.at = at /\ row.failures = task[w][p].failures
    BY <1>1 DEF TaskRow
  <2> HIDE DEF row
  <2> QED BY <2>1, <2>2 DEF Goes
<1> QED BY <1>2, <1>3

\* The catch blocks count a failed poll only below the limit.
LEMMA ErrorPathDefers ==
  ASSUME NEW t
  PROVE  /\ ErrorPath(t) \in TaskSteps
         /\ ErrorPath(t) = "defer" => t.failures < MaxPollFailures
  BY DEF ErrorPath, TaskSteps, Expected

\* A write that succeeded, its event perhaps lost.
LEMMA RecordedGoes ==
  ASSUME TasksSound(lease, task), NEW w \in Workers, NEW p \in RecoverySteps, Recorded(w, p)
  PROVE  Goes(task, task', w, p)
<1>1. /\ "none" \in TaskSteps /\ "none" # "defer"
      /\ "fail" \in TaskSteps /\ "fail" # "defer"
  BY DEF TaskSteps, Expected
<1>2. PICK at \in TaskSteps : /\ at = "defer" => task[w][p].failures < MaxPollFailures
                              /\ Goto(w, p, at)
  BY <1>1, ErrorPathDefers DEF Recorded
<1> QED BY <1>2, GotoGoes
\* A worker that works on a step, and what it leaves of the lease.
LEMMA WorkSound ==
  ASSUME TasksSound(lease, task), NEW w \in Workers, NEW p \in RecoverySteps,
         task[w][p].at # "none", Goes(task, task', w, p),
         \/ lease' = lease
         \/ lease' = [lease EXCEPT ![p] = Free]
         \/ lease' = [lease EXCEPT ![p].owner = "none", ![p].lapsed = FALSE]
         \/ lease' = [lease EXCEPT ![p].owner = "none", ![p].lapsed = FALSE, ![p].due = FALSE]
  PROVE  TasksSound(lease', task')
<1> DEFINE old == lease[p]
           given == [old EXCEPT !.owner = "none", !.lapsed = FALSE]
           late == [old EXCEPT !.owner = "none", !.lapsed = FALSE, !.due = FALSE]
<1>1. old \in LeaseRow /\ old.failures \in Nat /\ lease \in [RecoverySteps -> LeaseRow]
  BY DEF TasksSound, LeaseRow
<1>2. Free \in LeaseRow /\ Free.failures <= old.failures
  BY <1>1, MostFailuresNat DEF Free, LeaseRow
<1>3. given \in LeaseRow /\ given.failures = old.failures
  <2> HIDE DEF old
  <2> QED BY <1>1 DEF LeaseRow
<1>4. late \in LeaseRow /\ late.failures = old.failures
  <2> HIDE DEF old
  <2> QED BY <1>1 DEF LeaseRow
<1>5. /\ lease = [lease EXCEPT ![p] = old]
      /\ [lease EXCEPT ![p].owner = "none", ![p].lapsed = FALSE] = [lease EXCEPT ![p] = given]
      /\ [lease EXCEPT ![p].owner = "none", ![p].lapsed = FALSE, ![p].due = FALSE] =
           [lease EXCEPT ![p] = late]
  BY <1>1
<1> HIDE DEF given, late
<1>6. PICK row \in LeaseRow : /\ row.failures <= lease[p].failures
                              /\ lease' = [lease EXCEPT ![p] = row]
  BY <1>1, <1>2, <1>3, <1>4, <1>5
<1> QED BY <1>6, GoesSound

\* Every task of a worker, and the error that may interrupt it.
LEMMA TaskTyped ==
  ASSUME TasksSound(lease, task), NEW w \in Workers, NEW p \in RecoverySteps,
         TaskStep(w, p) \/ Throws(w, p)
  PROVE  TasksSound(lease', task')
<1> USE DEF Expected
<1>1. /\ TaskSteps = {"none", "trigger", "inspect", "schedule", "markTriggered", "markRunning",
                      "markWaiting", "reject", "fail", "defer", "resume", "completeRelease",
                      "retryRelease"}
      /\ \A t : /\ ErrorPath(t) \in TaskSteps
                /\ ErrorPath(t) = "defer" => t.failures < MaxPollFailures
  BY ErrorPathDefers DEF TaskSteps
<1>2. ASSUME NEW at \in TaskSteps, Goto(w, p, at),
             at = "defer" => task[w][p].failures < MaxPollFailures
      PROVE  Goes(task, task', w, p)
  BY <1>2, GotoGoes
<1>3. CASE Trigger(w, p)
  <2>1. task[w][p].at # "none" /\ lease' = lease
    BY <1>3 DEF Trigger
  <2>2. PICK at \in {"markTriggered", "fail"} : Goto(w, p, at)
    BY <1>3 DEF Trigger
  <2> QED BY <1>1, <1>2, <2>1, <2>2, WorkSound
<1>4. CASE InspectUndecided(w, p)
  <2>1. task[w][p].at # "none" /\ lease' = lease
    BY <1>4 DEF InspectUndecided
  <2>2. PICK at \in {"markRunning", ErrorPath(task[w][p])} : Goto(w, p, at)
    BY <1>4 DEF InspectUndecided
  <2> QED BY <1>1, <1>2, <2>1, <2>2, WorkSound
<1>5. CASE InspectDecided(w, p)
  <2>1. task[w][p].at # "none" /\ lease' = lease
    BY <1>5 DEF InspectDecided
  <2>2. PICK at \in {"markWaiting", "reject"} : Goto(w, p, at)
    BY <1>5 DEF InspectDecided
  <2> QED BY <1>1, <1>2, <2>1, <2>2, WorkSound
<1>6. CASE Mark(w, p)
  <2>1. task[w][p].at # "none" /\ lease' = [lease EXCEPT ![p] = Free] /\ Recorded(w, p)
    BY <1>6 DEF Mark
  <2> QED BY <2>1, RecordedGoes, WorkSound
<1>7. CASE DeferPollingFailure(w, p)
  <2>1. /\ task[w][p].at = "defer" /\ Recorded(w, p)
        /\ lease' = [lease EXCEPT ![p] = [Free EXCEPT !.failures = lease[p].failures + 1]]
    BY <1>7 DEF DeferPollingFailure
  <2>2. ErrorPath(task[w][p]) = "none"
    BY <2>1 DEF ErrorPath
  <2>3. Goto(w, p, "none")
    BY <2>1, <2>2 DEF Recorded
  <2>4. task' = [task EXCEPT ![w][p] = NoTask]
    BY <2>3 DEF Goto
  <2> QED BY <2>1, <2>4, DeferSound
<1>8. CASE CompleteWaitingStep(w, p)
  <2>1. task[w][p].at # "none"
    BY <1>8 DEF CompleteWaitingStep
  <2>2. CASE Recorded(w, p) /\ lease' = [lease EXCEPT ![p].owner = "none", ![p].lapsed = FALSE]
    BY <2>1, <2>2, RecordedGoes, WorkSound
  <2>3. CASE Goto(w, p, "schedule") /\ lease' = lease
    BY <1>1, <1>2, <2>1, <2>3, WorkSound
  <2> QED BY <1>8, <2>2, <2>3 DEF CompleteWaitingStep
<1>9. CASE Schedule(w, p)
  <2>1. task[w][p].at # "none" /\ lease' = lease /\ Goto(w, p, "completeRelease")
    BY <1>9 DEF Schedule
  <2> QED BY <1>1, <1>2, <2>1, WorkSound
<1>10. CASE CompleteRoundRelease(w, p) \/ Fail(w, p)
  <2>1. /\ task[w][p].at # "none" /\ Recorded(w, p)
        /\ lease' = [lease EXCEPT ![p].owner = "none", ![p].lapsed = FALSE]
    BY <1>10 DEF CompleteRoundRelease, Fail
  <2> QED BY <2>1, RecordedGoes, WorkSound
<1>11. CASE RetryRoundRelease(w, p)
  <2>1. /\ task[w][p].at # "none" /\ Goto(w, p, "none")
        /\ lease' = [lease EXCEPT ![p].owner = "none", ![p].lapsed = FALSE, ![p].due = FALSE]
    BY <1>11 DEF RetryRoundRelease
  <2> QED BY <1>1, <1>2, <2>1, WorkSound
<1>12. CASE ClaimLost(w, p)
  <2>1. task[w][p].at # "none" /\ lease' = lease /\ Goto(w, p, "none")
    BY <1>12 DEF ClaimLost
  <2> QED BY <1>1, <1>2, <2>1, WorkSound
<1>13. CASE Throws(w, p)
  <2>1. task[w][p].at # "none" /\ lease' = lease /\ Goto(w, p, ErrorPath(task[w][p]))
    BY <1>13 DEF Throws
  <2> QED BY <1>1, <1>2, <2>1, WorkSound
<1> QED
  BY <1>3, <1>4, <1>5, <1>6, <1>7, <1>8, <1>9, <1>10, <1>11, <1>12, <1>13 DEF TaskStep
\* The counters of the model.
CountersTyped ==
  rebuilds \in [RecoverySteps -> 0 .. MaxRebuilds] /\ disturbances \in 0 .. MaxDisturbances

LEMMA CountersKept ==
  ASSUME CountersTyped, [RecoveryNext]_vars
  PROVE  CountersTyped'
<1> USE DEF CountersTyped
<1>1. MaxRebuilds \in Nat /\ MaxDisturbances \in Nat
  BY RecoveryAssumption
<1>2. Disturb => disturbances' \in 0 .. MaxDisturbances
  BY <1>1 DEF Disturb
<1>3. \A p \in RecoverySteps : MoreRebuilds(p) \in [RecoverySteps -> 0 .. MaxRebuilds]
  BY <1>1 DEF MoreRebuilds
<1>4. ASSUME NEW w \in Workers, NEW p \in RecoverySteps, TaskStep(w, p) \/ Throws(w, p)
      PROVE  CountersTyped'
  <2>1. CASE Trigger(w, p)
    <3>1. UNCHANGED disturbances /\ rebuilds' \in {rebuilds, MoreRebuilds(p)}
      BY <2>1 DEF Trigger
    <3> QED BY <1>3, <3>1
  <2>2. CASE Mark(w, p) \/ DeferPollingFailure(w, p) \/ CompleteRoundRelease(w, p) \/ Fail(w, p)
    BY <1>2, <2>2 DEF Mark, DeferPollingFailure, CompleteRoundRelease, Fail, Recorded
  <2>3. CASE CompleteWaitingStep(w, p)
    BY <1>2, <2>3 DEF CompleteWaitingStep, Recorded
  <2>4. CASE Throws(w, p)
    BY <1>2, <2>4 DEF Throws
  <2>5. CASE \/ InspectUndecided(w, p) \/ InspectDecided(w, p) \/ Schedule(w, p)
             \/ RetryRoundRelease(w, p) \/ ClaimLost(w, p)
    BY <2>5 DEF InspectUndecided, InspectDecided, Schedule, RetryRoundRelease, ClaimLost
  <2> QED BY <1>4, <2>1, <2>2, <2>3, <2>4, <2>5 DEF TaskStep
<1>5. ASSUME NEW w \in Workers, ClaimDue(w) \/ Crash(w)
      PROVE  CountersTyped'
  BY <1>2, <1>5 DEF ClaimDue, Crash
<1>6. ASSUME NEW p \in RecoverySteps, LeaseLapses(p) \/ StepComesDue(p)
      PROVE  CountersTyped'
  BY <1>6 DEF LeaseLapses, StepComesDue
<1>7. CASE ControlStep \/ UNCHANGED vars
  BY <1>7 DEF ControlStep, vars
<1> QED BY <1>4, <1>5, <1>6, <1>7 DEF RecoveryNext

\* Every step leaves rows and tasks that the next one can read.
LEMMA TasksKept ==
  ASSUME TasksSound(lease, task), [RecoveryNext]_vars
  PROVE  TasksSound(lease', task')
<1> DEFINE Lapsed(row) == [row EXCEPT !.lapsed = TRUE]
           Called(row) == [row EXCEPT !.due = TRUE]
           Given(row) == [row EXCEPT !.owner = "none", !.lapsed = FALSE]
           Keeps(row, new) == new \in LeaseRow /\ new.failures = row.failures
<1>1. \A p \in RecoverySteps : lease[p] \in LeaseRow
  BY TaskRows
<1>2. \A row \in LeaseRow : Keeps(row, row) /\ Keeps(row, Lapsed(row))
                           /\ Keeps(row, Called(row)) /\ Keeps(row, Given(row))
  BY DEF LeaseRow
<1> HIDE DEF Lapsed, Called, Given
<1>3. ASSUME task' = task, lease' \in [RecoverySteps -> {lease'[p] : p \in RecoverySteps}],
             \A p \in RecoverySteps : lease'[p] \in
               {lease[p], Lapsed(lease[p]), Called(lease[p]), Given(lease[p])}
      PROVE  TasksSound(lease', task')
  <2>1. /\ lease' \in [RecoverySteps -> LeaseRow]
        /\ \A p \in RecoverySteps : lease'[p].failures = lease[p].failures
    BY <1>1, <1>2, <1>3
  <2> QED BY <1>3, <2>1, LeasesSound
<1>4. CASE \/ ControlStep
           \/ \E p \in RecoverySteps : LeaseLapses(p) \/ StepComesDue(p)
  <2>1. CASE ControlStep
    BY <1>3, <2>1 DEF ControlStep, Called, Given
  <2>2. ASSUME NEW p \in RecoverySteps, LeaseLapses(p) \/ StepComesDue(p)
        PROVE  TasksSound(lease', task')
    <3>1. lease \in [RecoverySteps -> LeaseRow]
      BY DEF TasksSound
    <3>2. PICK row \in {Lapsed(lease[p]), Called(lease[p])} : lease' = [lease EXCEPT ![p] = row]
      BY <2>2 DEF LeaseLapses, StepComesDue, Lapsed, Called
    <3>3. /\ lease' \in [RecoverySteps -> {lease'[q] : q \in RecoverySteps}]
          /\ \A q \in RecoverySteps : lease'[q] = IF q = p THEN row ELSE lease[q]
      BY <3>1, <3>2
    <3>4. task' = task
      BY <2>2 DEF LeaseLapses, StepComesDue
    <3> QED BY <1>3, <3>2, <3>3, <3>4
  <2> QED BY <1>4, <2>1, <2>2
<1>5. ASSUME NEW w \in Workers, ClaimDue(w)
      PROVE  TasksSound(lease', task')
  <2> DEFINE S == {p \in RecoverySteps : Due(p) /\ task[w][p].at = "none"}
             first == [p \in RecoverySteps |-> FirstStep(db.recovery[p])]
  <2>1. \A p \in S : first[p] \in TaskSteps \ {"defer"} /\ task[w][p].at = "none"
    BY DEF Due, RecoveryActive, FirstStep, TaskSteps, Expected
  <2>2. lease' = TakenLeases(lease, w, S) /\ task' = TakenTasks(lease, task, w, S, first)
    BY <1>5 DEF ClaimDue, TakenLeases, TakenTasks
  <2>3. S \in SUBSET RecoverySteps
    OBVIOUS
  <2> HIDE DEF S, first
  <2> QED BY <2>1, <2>2, <2>3, ClaimSound
<1>6. ASSUME NEW w \in Workers, Crash(w)
      PROVE  TasksSound(lease', task')
  BY <1>6, CrashSound DEF Crash
<1>7. ASSUME NEW w \in Workers, NEW p \in RecoverySteps, TaskStep(w, p) \/ Throws(w, p)
      PROVE  TasksSound(lease', task')
  BY <1>7, TaskTyped
<1>8. CASE UNCHANGED vars
  BY <1>8 DEF vars
<1> QED BY <1>4, <1>5, <1>6, <1>7, <1>8 DEF RecoveryNext

\* Rows and tasks as the first migration and a fresh process leave them.
LEMMA InitTasks ==
  ASSUME RecoveryInit
  PROVE  TasksSound(lease, task) /\ CountersTyped
<1>1. NoTask \in TaskRow /\ Free \in LeaseRow /\ MostFailures \in Nat
  BY MostFailuresNat DEF NoTask, TaskRow, TaskSteps, Free, LeaseRow
<1>2. /\ lease \in [RecoverySteps -> LeaseRow]
      /\ task \in [Workers -> [RecoverySteps -> TaskRow]]
      /\ \A p \in RecoverySteps : lease[p].failures = 0
      /\ \A w \in Workers, p \in RecoverySteps : task[w][p].at = "none"
  BY <1>1 DEF RecoveryInit, Free, NoTask
<1>3. \A p \in RecoverySteps : Counting(task, p) = {}
  BY <1>2 DEF Counting
<1>4. \A p \in RecoverySteps : Cardinality(Counting(task, p)) = 0
  BY <1>3, FS_EmptySet
<1>5. TasksSound(lease, task)
  <2>1. ASSUME NEW p \in RecoverySteps
        PROVE  lease[p].failures + Cardinality(Counting(task, p)) <= MostFailures
    <3>1. lease[p].failures = 0 /\ Cardinality(Counting(task, p)) = 0
      BY <1>2, <1>4
    <3>2. 0 + 0 <= MostFailures
      BY <1>1
    <3> QED BY <3>1, <3>2
  <2> QED BY <1>2, <2>1 DEF TasksSound
<1>6. CountersTyped
  BY RecoveryAssumption DEF RecoveryInit, CountersTyped
<1> QED BY <1>5, <1>6

-----------------------------------------------------------------------------
(* The theorems.                                                           *)

RecoveryInv == RoundsSound(db) /\ TasksSound(lease, task) /\ CountersTyped

\* The inductive invariant holds in every reachable state.
THEOREM AlwaysRecoveryInv == RecoverySpec => []RecoveryInv
<1>1. RecoveryInit => RecoveryInv
  BY InitSound, InitTasks DEF RecoveryInit, RecoveryInv
<1>2. RecoveryInv /\ [RecoveryNext]_vars => RecoveryInv'
  BY RecoverySound, TasksKept, CountersKept DEF RecoveryInv
<1> QED BY <1>1, <1>2, PTL DEF RecoverySpec

\* advanceRoundIfIdle, completeWaitingStep and dueRows: whatever the workers
\* still do, no round begins before every Jenkins step in front of it succeeded.
THEOREM RoundsGated == RecoverySpec => []ReleaseGate
<1>1. RecoveryInv => ReleaseGate
  <2> SUFFICES ASSUME RecoveryInv
               PROVE  ReleaseGate
    OBVIOUS
  <2>1. RecoveryTypeOK
    BY DEF RecoveryInv, RoundsSound, Inv, Consistent, TasksSound, CountersTyped, LeaseRow,
           TaskRow, MostFailures, RecoveryTypeOK
  <2>2. GateHolds(db)
    BY DEF RecoveryInv, RoundsSound
  <2> QED BY <2>1, <2>2 DEF ReleaseGate, GateHolds
<1> QED BY <1>1, AlwaysRecoveryInv, PTL

\* fail and terminateBatch: what ended a batch has ended its recovery, and no
\* worker reopens a step or releases the round afterwards.
THEOREM EndingsFinal == RecoverySpec => []EndingsStand
<1>1. RecoveryInv => EndingsStand
  <2> SUFFICES ASSUME RecoveryInv
               PROVE  EndingsStand
    OBVIOUS
  <2>1. EndingsKept(db) /\ Inv(db)
    BY DEF RecoveryInv, RoundsSound
  <2>2. db.batch.status \in BatchTerminal => HeldRuns(db) = {}
    BY <2>1 DEF Inv, AllSettled, HeldRuns, RunTerminal
  <2>3. \A p \in RecoverySteps : AfterRound[p] = db.batch.round => db.batch.round <= AfterRound[p]
    BY <2>1, RoundNumbers DEF Inv
  <2> QED BY <2>1, <2>2, <2>3 DEF EndingsStand, EndingsKept
<1> QED BY <1>1, AlwaysRecoveryInv, PTL

\* The workers' writes leave standing what ExecutionControl promises of the batch
\* and its runs: it closes when they are all over, and no round starts early.
THEOREM ControlStands ==
  RecoverySpec => [](TypeOK /\ ClosedIffSettled /\ RoundBarrier /\ TerminationLeavesClaimedWork)
<1>1. RecoveryInv => TypeOK /\ ClosedIffSettled /\ RoundBarrier /\ TerminationLeavesClaimedWork
  BY DEF RecoveryInv, RoundsSound, Inv, Consistent, TypeOK, AllSettled, ClosedIffSettled,
         RoundsAgree, RoundBarrier, TerminationLeavesClaimedWork
<1> QED BY <1>1, AlwaysRecoveryInv, PTL
-----------------------------------------------------------------------------
(* Rebuilds, when no worker outlives its lease and no two share a name.    *)

KeepsItsLease == ~Stalls /\ \A v, w \in Workers : Name[v] = Name[w] => v = w

IsOwner(row, w) == row.owner = Name[w] /\ ~row.lapsed

\* A step with status st, of which row is the lease, at[w] what worker w does
\* with it, n the rebuilds Jenkins was asked for and d all disturbances so far.
\* Only the owner of a pending step is about to ask for a rebuild, and then
\* every earlier one was lost in a disturbance.
StepCounted(st, row, at, n, d) ==
  /\ n \in Nat /\ d \in Nat
  /\ \A w \in Workers :
       /\ at[w] = "trigger" =>
            /\ \/ st = "pending" /\ IsOwner(row, w)
               \/ st = "cancelled"
            /\ n <= d
            /\ \A v \in Workers : at[v] = "trigger" => v = w
       /\ row.lapsed /\ row.owner = Name[w] => at[w] = "none"
  /\ n <= d + 1
  /\ st = "idle" => n <= d
  /\ st = "pending" =>
       \/ n <= d
       \/ \E w \in Workers : IsOwner(row, w) /\ at[w] \in {"markTriggered", "fail"}

TasksOf(t, p) == [w \in Workers |-> t[w][p].at]

Counted(s, l, t, n, d) ==
  \A p \in RecoverySteps : StepCounted(s.recovery[p], l[p], TasksOf(t, p), n[p], d)

\* What happens elsewhere may only be a disturbance.
LEMMA CountedElsewhere ==
  ASSUME NEW st, NEW row, NEW at, NEW n, NEW d, StepCounted(st, row, at, n, d),
         NEW e \in {d, d + 1}
  PROVE  StepCounted(st, row, at, n, e)
<1>1. \A x \in Nat : x <= d => x <= e
  BY DEF StepCounted
<1>2. e \in Nat /\ d + 1 \in Nat /\ (n <= d + 1 => n <= e + 1)
  BY DEF StepCounted
<1> QED BY <1>1, <1>2 DEF StepCounted

\* A task that goes on without writing the row.
LEMMA CountedTask ==
  ASSUME NEW st, NEW row, NEW at, NEW n, NEW d, StepCounted(st, row, at, n, d),
         NEW w \in Workers, at[w] # "none", NEW x, x # "trigger",
         NEW bt, \A v \in Workers : bt[v] = IF v = w THEN x ELSE at[v],
         NEW e \in {d, d + 1},
         st = "pending" /\ IsOwner(row, w) /\ at[w] \in {"markTriggered", "fail"} =>
           x \in {"markTriggered", "fail"} \/ e = d + 1
  PROVE  StepCounted(st, row, bt, n, e)
<1>1. \A y \in Nat : y <= d => y <= e
  BY DEF StepCounted
<1>2. e \in Nat /\ (n <= d + 1 => n <= e + 1) /\ (e = d + 1 => n <= e)
  BY DEF StepCounted
<1>3. \A v \in Workers : bt[v] = "trigger" => at[v] = "trigger"
  OBVIOUS
<1>4. \A v \in Workers : row.lapsed /\ row.owner = Name[v] => bt[v] = "none"
  BY DEF StepCounted
<1>5. st = "pending" =>
        \/ n <= e
        \/ \E v \in Workers : IsOwner(row, v) /\ bt[v] \in {"markTriggered", "fail"}
  <2> SUFFICES ASSUME st = "pending", ~(n <= e)
               PROVE  \E v \in Workers : IsOwner(row, v) /\ bt[v] \in {"markTriggered", "fail"}
    OBVIOUS
  <2>1. PICK v \in Workers : IsOwner(row, v) /\ at[v] \in {"markTriggered", "fail"}
    BY <1>1 DEF StepCounted
  <2> QED BY <1>2, <2>1 DEF StepCounted
<1>6. \A v \in Workers : bt[v] = "trigger" =>
        /\ \/ st = "pending" /\ IsOwner(row, v)
           \/ st = "cancelled"
        /\ n <= e
        /\ \A u \in Workers : bt[u] = "trigger" => u = v
  BY <1>1, <1>3 DEF StepCounted
<1>7. n \in Nat /\ n <= e + 1 /\ (st = "idle" => n <= e)
  BY <1>1, <1>2 DEF StepCounted
<1> QED BY <1>2, <1>4, <1>5, <1>6, <1>7 DEF StepCounted

\* A worker that gives a step back with what it has found out.
LEMMA CountedWrite ==
  ASSUME KeepsItsLease,
         NEW st, NEW row, NEW at, NEW n, NEW d, StepCounted(st, row, at, n, d),
         NEW w \in Workers, row.owner = Name[w], st # "cancelled", NEW x, x # "trigger",
         NEW bt, \A v \in Workers : bt[v] = IF v = w THEN x ELSE at[v],
         NEW e \in {d, d + 1}, NEW new, ~new.lapsed, NEW tt, tt \notin {"idle", "pending"}
  PROVE  StepCounted(tt, new, bt, n, e)
<1>1. \A v \in Workers : bt[v] # "trigger"
  BY DEF StepCounted, KeepsItsLease, IsOwner
<1>2. e \in Nat /\ n \in Nat /\ n <= e + 1
  BY DEF StepCounted
<1> QED BY <1>1, <1>2 DEF StepCounted

\* A worker that hands over to the scheduler keeps its lease.
LEMMA CountedHandover ==
  ASSUME NEW row, NEW at, NEW n, NEW d, StepCounted("waiting", row, at, n, d),
         NEW w \in Workers, at[w] # "none", NEW x, x # "trigger",
         NEW bt, \A v \in Workers : bt[v] = IF v = w THEN x ELSE at[v]
  PROVE  StepCounted("releasing", row, bt, n, d)
  BY DEF StepCounted

\* The request that starts a rebuild.
LEMMA CountedTrigger ==
  ASSUME KeepsItsLease,
         NEW st, NEW row, NEW at, NEW n, NEW d, StepCounted(st, row, at, n, d),
         NEW w \in Workers, at[w] = "trigger", NEW x \in {"markTriggered", "fail"},
         NEW bt, \A v \in Workers : bt[v] = IF v = w THEN x ELSE at[v],
         NEW m \in {n, n + 1}
  PROVE  StepCounted(st, row, bt, m, d)
<1>1. /\ n \in Nat /\ d \in Nat /\ n <= d
      /\ (st = "pending" /\ IsOwner(row, w)) \/ st = "cancelled"
      /\ \A v \in Workers : at[v] = "trigger" => v = w
  BY DEF StepCounted
<1>2. m \in Nat /\ m <= d + 1
  BY <1>1
<1>3. \A v \in Workers : bt[v] # "trigger"
  BY <1>1
<1>4. \A v \in Workers : row.lapsed /\ row.owner = Name[v] => bt[v] = "none"
  BY <1>1 DEF StepCounted
<1>5. st = "pending" => \E v \in Workers : IsOwner(row, v) /\ bt[v] \in {"markTriggered", "fail"}
  BY <1>1
<1> QED BY <1>1, <1>2, <1>3, <1>4, <1>5 DEF StepCounted

\* A claim of a step that nobody holds.
LEMMA CountedClaim ==
  ASSUME KeepsItsLease, NEW st \in RecoveryActive, NEW row, NEW at, NEW n, NEW d,
         StepCounted(st, row, at, n, d),
         row.owner = "none" \/ row.lapsed, NEW w \in Workers, at[w] = "none",
         NEW bt, \A v \in Workers : bt[v] = IF v = w THEN FirstStep(st) ELSE at[v],
         NEW new, new.owner = Name[w], ~new.lapsed
  PROVE  StepCounted(st, new, bt, n, d)
<1>1. \A v \in Workers : ~IsOwner(row, v)
  BY RecoveryAssumption DEF IsOwner
<1>2. \A v \in Workers : at[v] # "trigger"
  BY <1>1 DEF StepCounted, RecoveryActive
<1>3. st = "pending" => n <= d
  BY <1>1 DEF StepCounted
<1>4. FirstStep(st) = "trigger" => st = "pending"
  BY DEF FirstStep, RecoveryActive
<1>5. \A v \in Workers : bt[v] = "trigger" => v = w /\ st = "pending"
  BY <1>2, <1>4
<1>6. IsOwner(new, w)
  BY DEF IsOwner
<1> QED BY <1>3, <1>5, <1>6 DEF StepCounted

\* The death of a process is a disturbance.
LEMMA CountedCrash ==
  ASSUME NEW st, NEW row, NEW at, NEW n, NEW d, StepCounted(st, row, at, n, d),
         NEW w \in Workers, NEW bt, \A v \in Workers : bt[v] = IF v = w THEN "none" ELSE at[v]
  PROVE  StepCounted(st, row, bt, n, d + 1)
<1>1. n \in Nat /\ d + 1 \in Nat /\ n <= d + 1 /\ n <= (d + 1) + 1
  BY DEF StepCounted
<1> QED BY <1>1 DEF StepCounted

\* A lease runs out only on a worker that is done.
LEMMA CountedLapse ==
  ASSUME NEW st, NEW row, NEW at, NEW n, NEW d, StepCounted(st, row, at, n, d),
         \A w \in Workers : Name[w] = row.owner => at[w] = "none",
         NEW new, new.owner = row.owner
  PROVE  StepCounted(st, new, at, n, d)
<1>1. \A w \in Workers : IsOwner(row, w) => at[w] = "none"
  BY DEF IsOwner
<1> QED BY <1>1 DEF StepCounted

\* The control plane: a step becomes pending or is cancelled.
LEMMA CountedControl ==
  ASSUME NEW st, NEW row, NEW at, NEW n, NEW d, StepCounted(st, row, at, n, d), NEW tt, NEW new,
         \/ tt = st /\ new.owner = row.owner /\ new.lapsed = row.lapsed
         \/ /\ st = "idle" /\ tt = "pending"
            /\ new.owner = row.owner /\ new.lapsed = row.lapsed
         \/ tt = "cancelled" /\ ~new.lapsed
  PROVE  StepCounted(tt, new, at, n, d)
<1>1. CASE tt = st /\ new.owner = row.owner /\ new.lapsed = row.lapsed
  BY <1>1 DEF StepCounted, IsOwner
<1>2. CASE st = "idle" /\ tt = "pending" /\ new.owner = row.owner /\ new.lapsed = row.lapsed
  BY <1>2 DEF StepCounted
<1>3. CASE tt = "cancelled" /\ ~new.lapsed
  BY <1>3 DEF StepCounted
<1> QED BY <1>1, <1>2, <1>3
\* Worker w goes on to x in its work on step p.
WorkMoves(t, u, w, p, x) ==
  /\ \A q \in RecoverySteps \ {p} : TasksOf(u, q) = TasksOf(t, q)
  /\ \A v \in Workers : TasksOf(u, p)[v] = IF v = w THEN x ELSE TasksOf(t, p)[v]

LEMMA GotoMoves ==
  ASSUME TasksSound(lease, task), NEW w \in Workers, NEW p \in RecoverySteps, NEW x,
         Goto(w, p, x)
  PROVE  WorkMoves(task, task', w, p, x)
<1> DEFINE row == IF x = "none" THEN NoTask ELSE [task[w][p] EXCEPT !.at = x]
<1>1. task \in [Workers -> [RecoverySteps -> TaskRow]] /\ task[w][p] \in TaskRow
  BY DEF TasksSound
<1>2. task' = [task EXCEPT ![w][p] = row]
  BY DEF Goto
<1>3. row.at = x
  BY <1>1 DEF NoTask, TaskRow
<1> HIDE DEF row
<1>4. \A v \in Workers, q \in RecoverySteps :
        task'[v][q] = IF v = w /\ q = p THEN row ELSE task[v][q]
  BY <1>1, <1>2
<1> QED BY <1>3, <1>4 DEF WorkMoves, TasksOf

\* An error never leads back to the request for a rebuild.
LEMMA ErrorPathForward == \A t : ErrorPath(t) # "trigger"
  BY DEF ErrorPath

LEMMA RecordedMoves ==
  ASSUME TasksSound(lease, task), NEW w \in Workers, NEW p \in RecoverySteps, Recorded(w, p)
  PROVE  /\ disturbances' \in {disturbances, disturbances + 1}
         /\ \E x : x # "trigger" /\ WorkMoves(task, task', w, p, x)
<1>1. disturbances' \in {disturbances, disturbances + 1}
  BY DEF Recorded, Disturb
<1>2. PICK x : x # "trigger" /\ Goto(w, p, x)
  BY ErrorPathForward DEF Recorded
<1> QED BY <1>1, <1>2, GotoMoves

\* What the scheduler and fail do to the steps.
LEMMA ReserveKeepsSteps ==
  ASSUME NEW D \in SUBSET Runs, ReserveAssignments(D)
  PROVE  db'.recovery = db.recovery
<1>1. \A f, g, s : [s EXCEPT !.run = f, !.attempt = g].recovery = s.recovery
  OBVIOUS
<1>2. Reserve(db, D).recovery = db.recovery
  BY <1>1 DEF Reserve
<1>3. \A s, st : [s EXCEPT !.batch.status = st].recovery = s.recovery
  OBVIOUS
<1> QED BY <1>2, <1>3 DEF ReserveAssignments

LEMMA FailedSteps ==
  ASSUME db \in Database, NEW p \in RecoverySteps
  PROVE  Failed(db, p).recovery = [db.recovery EXCEPT ![p] = "failed"]
<1>1. ASSUME NEW s \in Database, NEW v, NEW f, NEW st
      PROVE  [s EXCEPT !.recovery = v, !.run = f, !.batch.status = st].recovery = v
  BY DEF Database
<1> QED BY <1>1 DEF Failed

\* Every task of a worker, and the error that may interrupt it.
LEMMA CountedWork ==
  ASSUME KeepsItsLease, RecoveryInv, Counted(db, lease, task, rebuilds, disturbances),
         NEW w \in Workers, NEW p \in RecoverySteps, TaskStep(w, p) \/ Throws(w, p)
  PROVE  Counted(db', lease', task', rebuilds', disturbances')
<1> DEFINE st == db.recovery[p]
           at == TasksOf(task, p)
           bt == TasksOf(task', p)
           Alone == \A q \in RecoverySteps \ {p} :
                      /\ db'.recovery[q] = db.recovery[q] /\ lease'[q] = lease[q]
                      /\ rebuilds'[q] = rebuilds[q]
           Goal == Counted(db', lease', task', rebuilds', disturbances')
<1>1. /\ db \in Database /\ TasksSound(lease, task)
      /\ lease \in [RecoverySteps -> LeaseRow]
      /\ rebuilds \in [RecoverySteps -> 0 .. MaxRebuilds]
      /\ db = [db EXCEPT !.recovery = db.recovery]
      /\ db.recovery \in [RecoverySteps -> {db.recovery[q] : q \in RecoverySteps}]
  BY DEF RecoveryInv, RoundsSound, Inv, Consistent, TasksSound, CountersTyped, Database
<1>2. StepCounted(st, lease[p], at, rebuilds[p], disturbances) /\ at[w] = task[w][p].at
  BY DEF Counted, TasksOf
<1>3. ASSUME NEW x, NEW e \in {disturbances, disturbances + 1}, disturbances' = e,
             WorkMoves(task, task', w, p, x), Alone,
             StepCounted(db'.recovery[p], lease'[p], bt, rebuilds'[p], e)
      PROVE  Goal
  <2>1. ASSUME NEW q \in RecoverySteps \ {p}
        PROVE  StepCounted(db'.recovery[q], lease'[q], TasksOf(task', q), rebuilds'[q], e)
    <3>1. StepCounted(db.recovery[q], lease[q], TasksOf(task, q), rebuilds[q], disturbances)
      BY DEF Counted
    <3>2. StepCounted(db.recovery[q], lease[q], TasksOf(task, q), rebuilds[q], e)
      BY <1>3, <3>1, CountedElsewhere
    <3> QED BY <1>3, <3>2 DEF WorkMoves
  <2> QED BY <1>3, <2>1 DEF Counted
<1>4. ASSUME NEW x, WorkMoves(task, task', w, p, x)
      PROVE  \A v \in Workers : bt[v] = IF v = w THEN x ELSE at[v]
  BY <1>4 DEF WorkMoves
<1> HIDE DEF at, bt
\* The row stays as it is.
<1>5. ASSUME NEW x, x # "trigger", NEW e \in {disturbances, disturbances + 1}, disturbances' = e,
             Goto(w, p, x), at[w] # "none",
             db'.recovery = db.recovery, lease' = lease, rebuilds' = rebuilds,
             st = "pending" /\ IsOwner(lease[p], w) /\ at[w] \in {"markTriggered", "fail"} =>
               x \in {"markTriggered", "fail"} \/ e = disturbances + 1
      PROVE  Goal
  <2>1. WorkMoves(task, task', w, p, x)
    BY <1>1, <1>5, GotoMoves
  <2>2. StepCounted(st, lease[p], bt, rebuilds[p], e)
    BY <1>2, <1>4, <1>5, <2>1, CountedTask
  <2> QED BY <1>3, <1>5, <2>1, <2>2
\* The row is given back.
<1>6. ASSUME Holds(w, p), st # "cancelled",
             Recorded(w, p) \/ (Goto(w, p, "none") /\ UNCHANGED disturbances),
             Alone, rebuilds' = rebuilds, ~lease'[p].lapsed,
             db'.recovery[p] \notin {"idle", "pending"}
      PROVE  Goal
  <2>1. PICK x : x # "trigger" /\ WorkMoves(task, task', w, p, x)
    BY <1>1, <1>6, RecordedMoves, GotoMoves
  <2>2. PICK e \in {disturbances, disturbances + 1} : disturbances' = e
    BY <1>6 DEF Recorded, Disturb
  <2>3. st # "cancelled" /\ lease[p].owner = Name[w]
    BY <1>6 DEF Holds
  <2> DEFINE tt == db'.recovery[p]
             new == lease'[p]
  <2>4. tt \notin {"idle", "pending"} /\ ~new.lapsed
    BY <1>6
  <2>5. \A v \in Workers : bt[v] = IF v = w THEN x ELSE at[v]
    BY <1>4, <2>1
  <2>6. StepCounted(tt, new, bt, rebuilds[p], e)
    <3> HIDE DEF tt, new, st
    <3> QED BY <1>2, <2>1, <2>3, <2>4, <2>5, CountedWrite
  <2> QED BY <1>3, <1>6, <2>1, <2>2, <2>6
<1>7. CASE Trigger(w, p)
  <2>1. at[w] = "trigger" /\ db' = db /\ lease' = lease /\ disturbances' = disturbances
    BY <1>2, <1>7 DEF Trigger
  <2>2. PICK x \in {"markTriggered", "fail"} : Goto(w, p, x)
    BY <1>7 DEF Trigger
  <2>3. WorkMoves(task, task', w, p, x)
    BY <1>1, <2>2, GotoMoves
  <2>4. /\ rebuilds'[p] \in {rebuilds[p], rebuilds[p] + 1}
        /\ \A q \in RecoverySteps \ {p} : rebuilds'[q] = rebuilds[q]
    BY <1>1, <1>7 DEF Trigger, MoreRebuilds
  <2>5. StepCounted(st, lease[p], bt, rebuilds'[p], disturbances)
    BY <1>2, <1>4, <2>1, <2>3, <2>4, CountedTrigger
  <2> QED BY <1>3, <2>1, <2>3, <2>4, <2>5
<1>8. CASE InspectUndecided(w, p) \/ InspectDecided(w, p)
  <2>1. PICK x : x # "trigger" /\ Goto(w, p, x)
    BY <1>8, ErrorPathForward DEF InspectUndecided, InspectDecided
  <2>2. /\ at[w] = "inspect" /\ db' = db /\ lease' = lease /\ rebuilds' = rebuilds
        /\ disturbances' = disturbances
    BY <1>2, <1>8 DEF InspectUndecided, InspectDecided
  <2> QED BY <1>5, <2>1, <2>2
<1>9. CASE Mark(w, p)
  <2>1. PICK new \in {"polling", "waiting"} : db' = [db EXCEPT !.recovery[p] = new]
    BY <1>9 DEF Mark
  <2>2. lease' = [lease EXCEPT ![p] = Free]
    BY <1>9 DEF Mark
  <2>3. /\ Alone /\ db'.recovery[p] \notin {"idle", "pending"} /\ ~lease'[p].lapsed
        /\ rebuilds' = rebuilds
    BY <1>1, <1>9, <2>1, <2>2 DEF Mark, Database, Free
  <2>4. st # "cancelled"
    BY <1>9 DEF Mark, Holds, Expected
  <2> QED BY <1>6, <1>9, <2>3, <2>4 DEF Mark
<1>10. CASE DeferPollingFailure(w, p)
  <2>1. /\ Holds(w, p) /\ db'.recovery = db.recovery /\ st = "polling"
        /\ rebuilds' = rebuilds
    BY <1>10 DEF DeferPollingFailure, Holds, Expected
  <2>2. Alone /\ ~lease'[p].lapsed
    BY <1>1, <1>10, <2>1 DEF DeferPollingFailure, Free
  <2> QED BY <1>6, <1>10, <2>1, <2>2 DEF DeferPollingFailure
<1>11. CASE CompleteWaitingStep(w, p)
  <2>1. /\ st = "waiting" /\ at[w] = "resume" /\ Holds(w, p) /\ rebuilds' = rebuilds
    BY <1>2, <1>11 DEF CompleteWaitingStep, Holds, Expected
  <2>2. CASE /\ db' = [db EXCEPT !.recovery[p] = "succeeded"]
             /\ lease' = [lease EXCEPT ![p].owner = "none", ![p].lapsed = FALSE]
             /\ Recorded(w, p)
    <3>1. Alone /\ ~lease'[p].lapsed /\ db'.recovery[p] = "succeeded"
      BY <1>1, <2>1, <2>2 DEF LeaseRow, Database
    <3> QED BY <1>6, <2>1, <2>2, <3>1
  <2>3. CASE /\ db' = ReleaseRound([db EXCEPT !.recovery[p] = "releasing"], AfterRound[p] + 1)
             /\ Goto(w, p, "schedule") /\ lease' = lease /\ disturbances' = disturbances
    <3> DEFINE u == [db EXCEPT !.recovery[p] = "releasing"]
    <3>1. Inv(u) /\ \A q \in RecoverySteps :
                      u.recovery[q] = IF q = p THEN "releasing" ELSE db.recovery[q]
      BY <2>1, RecoveryStatusInv DEF RecoveryInv, RoundsSound, RecoveryActive
    <3>2. u \in Database
      BY <3>1 DEF Inv, Consistent
    <3> HIDE DEF u
    <3>3. db'.recovery = u.recovery
      BY <2>3, <3>2, ReleaseSettles DEF u
    <3>4. WorkMoves(task, task', w, p, "schedule")
      BY <1>1, <2>3, GotoMoves
    <3>5. StepCounted("releasing", lease[p], bt, rebuilds[p], disturbances)
      BY <1>2, <1>4, <2>1, <3>4, CountedHandover
    <3> QED BY <1>3, <2>1, <2>3, <3>1, <3>3, <3>4, <3>5
  <2> QED BY <1>11, <2>2, <2>3 DEF CompleteWaitingStep
<1>12. CASE Schedule(w, p)
  <2>1. /\ at[w] = "schedule" /\ Goto(w, p, "completeRelease") /\ lease' = lease
        /\ rebuilds' = rebuilds /\ disturbances' = disturbances
    BY <1>2, <1>12 DEF Schedule
  <2>2. \A D \in SUBSET Runs : ReserveAssignments(D) => db'.recovery = db.recovery
    BY ReserveKeepsSteps
  <2>3. db'.recovery = db.recovery
    BY <1>12, <2>2 DEF Schedule
  <2> QED BY <1>5, <2>1, <2>3
<1>13. CASE CompleteRoundRelease(w, p) \/ Fail(w, p)
  <2>1. PICK new \in {"succeeded", "failed"} : db'.recovery = [db.recovery EXCEPT ![p] = new]
    <3>1. CompleteRoundRelease(w, p) => db'.recovery = [db.recovery EXCEPT ![p] = "succeeded"]
      BY <1>1 DEF CompleteRoundRelease, Database
    <3>2. Fail(w, p) => db'.recovery = [db.recovery EXCEPT ![p] = "failed"]
      BY <1>1, FailedSteps DEF Fail
    <3> QED BY <1>13, <3>1, <3>2
  <2>2. lease' = [lease EXCEPT ![p].owner = "none", ![p].lapsed = FALSE]
    BY <1>13 DEF CompleteRoundRelease, Fail
  <2>3. ~lease'[p].lapsed /\ Alone /\ rebuilds' = rebuilds
    BY <1>1, <1>13, <2>1, <2>2 DEF CompleteRoundRelease, Fail, LeaseRow
  <2>4. st # "cancelled"
    BY <1>13 DEF CompleteRoundRelease, Fail, Holds, Expected
  <2>5. db'.recovery[p] \notin {"idle", "pending"}
    BY <1>1, <2>1
  <2> QED BY <1>6, <1>13, <2>3, <2>4, <2>5 DEF CompleteRoundRelease, Fail
<1>14. CASE RetryRoundRelease(w, p)
  <2>1. /\ Holds(w, p) /\ db' = db /\ st = "releasing" /\ rebuilds' = rebuilds
    BY <1>2, <1>14 DEF RetryRoundRelease, Holds, Expected
  <2>2. Alone /\ ~lease'[p].lapsed
    BY <1>1, <1>14, <2>1 DEF RetryRoundRelease, LeaseRow
  <2> QED BY <1>6, <1>14, <2>1, <2>2 DEF RetryRoundRelease
<1>15. CASE ClaimLost(w, p)
  <2>1. /\ at[w] \in DOMAIN Expected /\ at[w] # "none" /\ Goto(w, p, "none")
        /\ db' = db /\ lease' = lease /\ rebuilds' = rebuilds /\ disturbances' = disturbances
    BY <1>2, <1>15 DEF ClaimLost, Expected
  <2>2. ~(st = "pending" /\ IsOwner(lease[p], w) /\ at[w] \in {"markTriggered", "fail"})
    BY <1>2, <1>15 DEF ClaimLost, Holds, Expected, IsOwner
  <2> QED BY <1>5, <2>1, <2>2
<1>16. CASE Throws(w, p)
  <2>1. /\ at[w] # "none" /\ Goto(w, p, ErrorPath(task[w][p])) /\ ErrorPath(task[w][p]) # "trigger"
        /\ db' = db /\ lease' = lease /\ rebuilds' = rebuilds
        /\ disturbances' = disturbances + 1
    BY <1>2, <1>16, ErrorPathForward DEF Throws, Disturb, Expected
  <2> QED BY <1>5, <2>1
<1> QED
  BY <1>7, <1>8, <1>9, <1>10, <1>11, <1>12, <1>13, <1>14, <1>15, <1>16 DEF TaskStep
\* Every step keeps the count.
LEMMA CountKept ==
  ASSUME KeepsItsLease, RecoveryInv, Counted(db, lease, task, rebuilds, disturbances),
         [RecoveryNext]_vars
  PROVE  Counted(db', lease', task', rebuilds', disturbances')
<1>1. /\ TasksSound(lease, task) /\ Inv(db) /\ lease \in [RecoverySteps -> LeaseRow]
      /\ task \in [Workers -> [RecoverySteps -> TaskRow]]
  BY DEF RecoveryInv, RoundsSound, TasksSound
<1>2. \A p \in RecoverySteps :
        StepCounted(db.recovery[p], lease[p], TasksOf(task, p), rebuilds[p], disturbances)
  BY DEF Counted
\* Only the row of a step changes.
<1>3. ASSUME task' = task, rebuilds' = rebuilds, disturbances' = disturbances,
             \A p \in RecoverySteps :
               StepCounted(db'.recovery[p], lease'[p], TasksOf(task, p), rebuilds[p], disturbances)
      PROVE  Counted(db', lease', task', rebuilds', disturbances')
  BY <1>3 DEF Counted
<1>4. CASE ControlStep
  <2>1. RoundMove(db, db')
    BY <1>1, <1>4, NextRounds DEF ControlStep
  <2>2. ASSUME NEW p \in RecoverySteps
        PROVE  \/ db'.recovery[p] = db.recovery[p]
               \/ db.recovery[p] = "idle" /\ db'.recovery[p] = "pending"
               \/ db.recovery[p] # "cancelled" /\ db'.recovery[p] = "cancelled"
    BY <2>1 DEF RoundMove, RoundQuiet, RoundAwaits, RoundReleases, RoundTerminates, RecoveryActive
  <2>3. ASSUME NEW p \in RecoverySteps
        PROVE  \/ /\ db'.recovery[p] = db.recovery[p]
                  /\ lease'[p].owner = lease[p].owner /\ lease'[p].lapsed = lease[p].lapsed
               \/ /\ db.recovery[p] = "idle" /\ db'.recovery[p] = "pending"
                  /\ lease'[p].owner = lease[p].owner /\ lease'[p].lapsed = lease[p].lapsed
               \/ db'.recovery[p] = "cancelled" /\ ~lease'[p].lapsed
    <3> DEFINE row == lease[p]
               a == db.recovery[p]
               b == db'.recovery[p]
    <3>1. row \in LeaseRow
      BY <1>1
    <3>2. \/ b # "pending" \/ a = "pending" \/ lease'[p] = [row EXCEPT !.due = TRUE]
      BY <1>4 DEF ControlStep
    <3>3. \/ b # "cancelled" \/ a = "cancelled"
          \/ lease'[p] = [row EXCEPT !.owner = "none", !.lapsed = FALSE]
      BY <1>4 DEF ControlStep
    <3>4. a = b => lease'[p] = row
      BY <1>4 DEF ControlStep
    <3>5. \/ b = a
          \/ a = "idle" /\ b = "pending"
          \/ a # "cancelled" /\ b = "cancelled"
      BY <2>2
    <3> HIDE DEF row, a, b
    <3>6. /\ [row EXCEPT !.due = TRUE].owner = row.owner
          /\ [row EXCEPT !.due = TRUE].lapsed = row.lapsed
          /\ [row EXCEPT !.owner = "none", !.lapsed = FALSE].lapsed = FALSE
      BY <3>1 DEF LeaseRow
    <3>7. \/ b = a /\ lease'[p] = row
          \/ /\ a = "idle" /\ b = "pending"
             /\ lease'[p].owner = row.owner /\ lease'[p].lapsed = row.lapsed
          \/ b = "cancelled" /\ ~lease'[p].lapsed
      BY <3>2, <3>3, <3>4, <3>5, <3>6
    <3> QED BY <3>7 DEF row, a, b
  <2>4. ASSUME NEW p \in RecoverySteps
        PROVE  StepCounted(db'.recovery[p], lease'[p], TasksOf(task, p), rebuilds[p], disturbances)
    BY <1>2, <2>3, CountedControl
  <2> QED BY <1>3, <1>4, <2>4 DEF ControlStep
<1>5. ASSUME NEW p \in RecoverySteps, LeaseLapses(p)
      PROVE  Counted(db', lease', task', rebuilds', disturbances')
  <2>1. \A w \in Workers : Name[w] = lease[p].owner => TasksOf(task, p)[w] = "none"
    BY <1>5 DEF LeaseLapses, KeepsItsLease, TasksOf
  <2>2. /\ lease'[p].owner = lease[p].owner
        /\ \A q \in RecoverySteps \ {p} : lease'[q] = lease[q]
    BY <1>1, <1>5 DEF LeaseLapses, LeaseRow
  <2>3. StepCounted(db.recovery[p], lease'[p], TasksOf(task, p), rebuilds[p], disturbances)
    BY <1>2, <2>1, <2>2, CountedLapse
  <2> QED BY <1>2, <1>3, <1>5, <2>2, <2>3 DEF LeaseLapses
<1>6. ASSUME NEW p \in RecoverySteps, StepComesDue(p)
      PROVE  Counted(db', lease', task', rebuilds', disturbances')
  <2>1. /\ lease'[p].owner = lease[p].owner /\ lease'[p].lapsed = lease[p].lapsed
        /\ \A q \in RecoverySteps \ {p} : lease'[q] = lease[q]
    BY <1>1, <1>6 DEF StepComesDue, LeaseRow
  <2>2. StepCounted(db.recovery[p], lease'[p], TasksOf(task, p), rebuilds[p], disturbances)
    BY <1>2, <2>1, CountedControl
  <2> QED BY <1>2, <1>3, <1>6, <2>1, <2>2 DEF StepComesDue
<1>7. ASSUME NEW w \in Workers, ClaimDue(w)
      PROVE  Counted(db', lease', task', rebuilds', disturbances')
  <2> DEFINE S == {p \in RecoverySteps : Due(p) /\ task[w][p].at = "none"}
  <2>1. /\ \A p \in S : /\ db.recovery[p] \in RecoveryActive
                        /\ lease[p].owner = "none" \/ lease[p].lapsed
                        /\ TasksOf(task, p)[w] = "none"
        /\ S \in SUBSET RecoverySteps
    BY DEF Due, Unleased, TasksOf
  <2>2. /\ db' = db /\ rebuilds' = rebuilds /\ disturbances' = disturbances
        /\ lease' = [p \in RecoverySteps |->
                       IF p \in S THEN [lease[p] EXCEPT !.owner = Name[w], !.lapsed = FALSE]
                       ELSE lease[p]]
        /\ task' = [task EXCEPT ![w] = [p \in RecoverySteps |->
                       IF p \in S
                       THEN [at |-> FirstStep(db.recovery[p]), failures |-> lease[p].failures]
                       ELSE task[w][p]]]
    BY <1>7 DEF ClaimDue
  <2> HIDE DEF S
  <2>3. ASSUME NEW p \in S
        PROVE  StepCounted(db.recovery[p], lease'[p], TasksOf(task', p), rebuilds[p], disturbances)
    <3>1. lease'[p].owner = Name[w] /\ ~lease'[p].lapsed
      BY <1>1, <2>1, <2>2 DEF LeaseRow
    <3>2. \A v \in Workers : TasksOf(task', p)[v] =
            IF v = w THEN FirstStep(db.recovery[p]) ELSE TasksOf(task, p)[v]
      BY <1>1, <2>1, <2>2 DEF TasksOf
    <3>3. p \in RecoverySteps
      BY <2>1
    <3> QED BY <1>2, <2>1, <3>1, <3>2, <3>3, CountedClaim
  <2>4. ASSUME NEW p \in RecoverySteps \ S
        PROVE  StepCounted(db.recovery[p], lease'[p], TasksOf(task', p), rebuilds[p], disturbances)
    <3>1. lease'[p] = lease[p] /\ TasksOf(task', p) = TasksOf(task, p)
      BY <1>1, <2>2 DEF TasksOf
    <3> QED BY <1>2, <3>1
  <2> QED BY <2>1, <2>2, <2>3, <2>4 DEF Counted
<1>8. ASSUME NEW w \in Workers, Crash(w)
      PROVE  Counted(db', lease', task', rebuilds', disturbances')
  <2>1. /\ db' = db /\ lease' = lease /\ rebuilds' = rebuilds /\ disturbances' = disturbances + 1
    BY <1>8 DEF Crash, Disturb
  <2>2. \A p \in RecoverySteps, v \in Workers :
          TasksOf(task', p)[v] = IF v = w THEN "none" ELSE TasksOf(task, p)[v]
    BY <1>1, <1>8 DEF Crash, TasksOf, NoTask
  <2>3. ASSUME NEW p \in RecoverySteps
        PROVE  StepCounted(db.recovery[p], lease[p], TasksOf(task', p), rebuilds[p],
                           disturbances + 1)
    BY <1>2, <2>2, CountedCrash
  <2> QED BY <2>1, <2>3 DEF Counted
<1>9. ASSUME NEW w \in Workers, NEW p \in RecoverySteps, TaskStep(w, p) \/ Throws(w, p)
      PROVE  Counted(db', lease', task', rebuilds', disturbances')
  BY <1>9, CountedWork
<1>10. CASE UNCHANGED vars
  BY <1>2, <1>3, <1>10 DEF vars
<1> QED BY <1>4, <1>5, <1>6, <1>7, <1>8, <1>9, <1>10 DEF RecoveryNext

LEMMA InitCounted ==
  ASSUME RecoveryInit
  PROVE  Counted(db, lease, task, rebuilds, disturbances)
<1>1. ASSUME NEW p \in RecoverySteps
      PROVE  /\ ~lease[p].lapsed /\ rebuilds[p] = 0 /\ disturbances = 0
             /\ \A w \in Workers : TasksOf(task, p)[w] = "none"
  BY DEF RecoveryInit, Free, NoTask, TasksOf
<1> QED BY <1>1 DEF Counted, StepCounted

\* The rows, the tasks and what was asked of Jenkins, together.
CountInv == RecoveryInv /\ Counted(db, lease, task, rebuilds, disturbances)

LEMMA CountInvInit == RecoveryInit => CountInv
  BY InitSound, InitTasks, InitCounted DEF RecoveryInit, RecoveryInv, CountInv

LEMMA CountInvNext ==
  ASSUME KeepsItsLease, CountInv, [RecoveryNext]_vars
  PROVE  CountInv'
<1>1. RecoveryInv'
  BY RecoverySound, TasksKept, CountersKept DEF CountInv, RecoveryInv
<1>2. Counted(db', lease', task', rebuilds', disturbances')
  BY CountKept DEF CountInv
<1> QED BY <1>1, <1>2 DEF CountInv

\* trigger and its retries: Jenkins is asked for more than one rebuild of a step
\* only when a crash or a database error hid that it had been asked before, as
\* long as no worker outlives its lease and no two share a name.
THEOREM RebuiltOnce == KeepsItsLease => (RecoverySpec => []RebuildOnce)
<1> SUFFICES ASSUME KeepsItsLease
             PROVE  RecoverySpec => []RebuildOnce
  OBVIOUS
<1>1. CountInv /\ [RecoveryNext]_vars => CountInv'
  BY CountInvNext
<1>2. CountInv => RebuildOnce
  BY DEF CountInv, Counted, StepCounted, RebuildOnce
<1> QED BY CountInvInit, <1>1, <1>2, PTL DEF RecoverySpec

\* processClaim: once the build is known to have succeeded no worker asks for
\* another, restarts during the handover included, under the same conditions.
THEOREM LeftAloneAfterSuccess == KeepsItsLease => (RecoverySpec => NoRebuildAfterSuccess)
<1> SUFFICES ASSUME KeepsItsLease
             PROVE  RecoverySpec => NoRebuildAfterSuccess
  OBVIOUS
<1> DEFINE LeftAlone == \A p \in RecoverySteps :
             db.recovery[p] \in {"waiting", "releasing", "succeeded"} => rebuilds'[p] = rebuilds[p]
<1>1. CountInv /\ [RecoveryNext]_vars => CountInv'
  BY CountInvNext
<1>2. ASSUME CountInv, RecoveryNext
      PROVE  LeftAlone
  <2>1. ASSUME NEW w \in Workers, NEW p \in RecoverySteps, Trigger(w, p)
        PROVE  LeftAlone
    <3>1. db.recovery[p] \in {"pending", "cancelled"}
      BY <1>2, <2>1 DEF CountInv, Counted, StepCounted, TasksOf, Trigger
    <3>2. \A q \in RecoverySteps \ {p} : rebuilds'[q] = rebuilds[q]
      BY <1>2, <2>1 DEF CountInv, RecoveryInv, CountersTyped, Trigger, MoreRebuilds
    <3> QED BY <3>1, <3>2
  <2>2. CASE rebuilds' = rebuilds
    BY <2>2
  <2>3. ASSUME NEW w \in Workers, NEW p \in RecoverySteps, TaskStep(w, p)
        PROVE  Trigger(w, p) \/ rebuilds' = rebuilds
    BY <2>3 DEF TaskStep, InspectUndecided, InspectDecided, Mark, DeferPollingFailure,
                CompleteWaitingStep, Schedule, CompleteRoundRelease, RetryRoundRelease, Fail,
                ClaimLost
  <2> QED BY <1>2, <2>1, <2>2, <2>3
             DEF RecoveryNext, ControlStep, ClaimDue, Crash, Throws, LeaseLapses, StepComesDue
<1>3. CountInv /\ [RecoveryNext]_vars => [LeftAlone]_vars
  BY <1>2
<1> QED BY CountInvInit, <1>1, <1>3, PTL DEF RecoverySpec, NoRebuildAfterSuccess
=============================================================================
