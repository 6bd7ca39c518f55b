------------------------- MODULE PostgresControlProofs -------------------------
(***************************************************************************)
(* Proofs about PostgresControl.  What is committed, and what the holder   *)
(* of the batch's lock sees, are both Consistent in the sense of           *)
(* ExecutionControlProofs; a run's rows are judged one run at a time,      *)
(* because the transactions of different runs overlap.                     *)
(***************************************************************************)
EXTENDS PostgresControl, ControlStepProofs

\* Consistent, of the rows of one run.
FineAt(s, r) ==
  /\ \A n \in AttemptNumbers : RowShape(s.attempt[<<r, n>>])
  /\ s.run[r].attempts # 0 =>
       /\ s.run[r].attempts \in AttemptNumbers
       /\ s.attempt[<<r, s.run[r].attempts>>].status # "absent"
  /\ s.run[r].status \in RunInFlight =>
       /\ s.run[r].attempts \in AttemptNumbers
       /\ s.attempt[<<r, s.run[r].attempts>>].status = s.run[r].status
  /\ \A n \in AttemptNumbers : s.attempt[<<r, n>>].status \in RunInFlight =>
       n = s.run[r].attempts /\ s.run[r].status \in RunInFlight
  /\ s.run[r].status \notin RunTerminal =>
       IF s.run[r].held = 0 THEN RetryMode = "round" => s.run[r].round = s.batch.round
       ELSE /\ RetryMode = "round" /\ s.run[r].status = "queued"
            /\ s.run[r].held = s.batch.round + 1 /\ s.run[r].round = s.run[r].held
  /\ s.run[r].queueDue => s.run[r].status \notin RunTerminal

SameRows(s, t, r) ==
  /\ t.run[r] = s.run[r]
  /\ \A n \in AttemptNumbers : t.attempt[<<r, n>>] = s.attempt[<<r, n>>]

\* A change that moves neither the run nor its attempts.
Touches(s, t, r) ==
  /\ t.run[r].status = s.run[r].status /\ t.run[r].held = s.run[r].held
  /\ t.run[r].round = s.run[r].round /\ t.run[r].attempts = s.run[r].attempts
  /\ t.run[r].queueDue => s.run[r].queueDue \/ s.run[r].status = "queued"
  /\ \A n \in AttemptNumbers : /\ t.attempt[<<r, n>>].status = s.attempt[<<r, n>>].status
                               /\ RowShape(t.attempt[<<r, n>>])

\* The rows a transaction has written for a run and will commit or lose.
WriteSound(s, r, w) ==
  w.by # "nobody" =>
    /\ s.run[r].status \notin RunTerminal
    /\ w.by = "report" => s.run[r].status \in RunInFlight
    /\ w.run.attempts = s.run[r].attempts
    /\ w.run.status \in {"queued"} \cup RunTerminal
    /\ ~w.run.queueDue
    /\ w.run.status = "queued" =>
         /\ s.run[r].status \in RunInFlight
         /\ IF w.run.held = 0 THEN RetryMode = "round" => w.run.round = s.run[r].round
            ELSE /\ RetryMode = "round"
                 /\ w.run.held = s.run[r].round + 1 /\ w.run.round = w.run.held
    /\ RowShape(w.attempt)
    /\ s.run[r].attempts # 0 => w.attempt.status \in AttemptTerminal

\* AttemptStep, whatever the lease was that an attempt ended with.
AttemptKept(old, new) ==
  \/ /\ new.status = old.status /\ new.code = old.code /\ new.lease = old.lease
     /\ new.receipt = old.receipt \/ old.receipt = "none"
  \/ /\ old.status = "assigned" /\ new.status = "running"
     /\ new.lease = "active" /\ new.receipt = old.receipt
  \/ /\ old.status \in RunInFlight /\ new.status \in AttemptTerminal
     /\ new.receipt = old.receipt \/ old.receipt = "none"

\* What a step may do to the rows of one run: no attempt is rewritten that is
\* over, no run that is over, and none fails in the queue.
Carries(s, t, r) ==
  /\ \A n \in AttemptNumbers : AttemptKept(s.attempt[<<r, n>>], t.attempt[<<r, n>>])
  /\ t.run[r].attempts = s.run[r].attempts
  /\ s.run[r].status \in RunTerminal => t.run[r] = s.run[r]
  /\ s.run[r].status = "queued" => t.run[r].status # "failed"

\* The rows an open transaction has written carry those that are committed.
WriteKeeps(s, r, w) ==
  w.by # "nobody" =>
    /\ s.run[r].attempts # 0 => AttemptKept(s.attempt[<<r, s.run[r].attempts>>], w.attempt)
    /\ s.run[r].status = "queued" => w.run.status # "failed"

\* All that may happen to rows an open transaction has written: a deadline is
\* reached, the lease is renewed, or the run is asked to stop.
Lapsed(old, new) ==
  /\ new.status = old.status /\ new.code = old.code /\ new.lease = old.lease
  /\ new.receipt = old.receipt

Flagged(old, new) ==
  /\ new.status = old.status /\ new.attempts = old.attempts /\ new.held = old.held
  /\ new.round = old.round /\ new.queueDue = old.queueDue

\* The rows an attempt ends with, whatever else has happened to it.
Merged(old, new) ==
  /\ Lapsed(old, new)
  /\ RowShape(old) /\ old.status # "absent" => RowShape(new)

-----------------------------------------------------------------------------
(* The rows of one run.                                                    *)

\* A row that stays, and one that moves as ExecutionControl's transactions move it.
LEMMA StillKept ==
  ASSUME NEW row
  PROVE  AttemptKept(row, row)
  BY DEF AttemptKept

LEMMA StepIsKept ==
  ASSUME NEW old, NEW new, AttemptStep(old, new)
  PROVE  AttemptKept(old, new)
  BY DEF AttemptStep, Ends, AttemptKept

\* Consistency is a matter of each run and of the batch's round.
LEMMA FineEverywhere ==
  ASSUME NEW s
  PROVE  Consistent(s) <=> s \in Database /\ \A r \in Runs : FineAt(s, r)
  BY DEF Consistent, RowsAgree, RoundsAgree, DueAgrees, FineAt

\* Rows that nothing happens to.
LEMMA SameFine ==
  ASSUME NEW s, NEW t, NEW r \in Runs, FineAt(s, r), SameRows(s, t, r),
         t.batch.round = s.batch.round
  PROVE  FineAt(t, r)
  BY DEF FineAt, SameRows

\* A flag of the run, or columns of an attempt that say nothing of its state.
LEMMA TouchFine ==
  ASSUME NEW s, NEW t, NEW r \in Runs, FineAt(s, r), Touches(s, t, r),
         t.batch.round = s.batch.round
  PROVE  FineAt(t, r)
  BY DEF FineAt, Touches, RunTerminal

\* The rows of a run, as its open transaction has written them.
LEMMA WriteFine ==
  ASSUME NEW s, NEW t, NEW r \in Runs, NEW w, FineAt(s, r), w.by # "nobody",
         WriteSound(s, r, w), Flagged(w.run, t.run[r]), t.batch.round = s.batch.round,
         \A n \in AttemptNumbers :
           IF n = s.run[r].attempts THEN Merged(w.attempt, t.attempt[<<r, n>>])
           ELSE t.attempt[<<r, n>>] = s.attempt[<<r, n>>]
  PROVE  FineAt(t, r)
<1>1. \A n \in AttemptNumbers : n # 0
  BY ControlAssumption
<1>2. \A n \in AttemptNumbers : n = s.run[r].attempts =>
        /\ RowShape(t.attempt[<<r, n>>])
        /\ t.attempt[<<r, n>>].status = w.attempt.status /\ w.attempt.status \in AttemptTerminal
  BY <1>1 DEF WriteSound, Merged, Lapsed, AttemptTerminal
<1>3. \A n \in AttemptNumbers : RowShape(t.attempt[<<r, n>>])
  BY <1>2 DEF FineAt
<1>4. \A n \in AttemptNumbers : t.attempt[<<r, n>>].status \notin RunInFlight
  BY <1>2 DEF FineAt, AttemptTerminal, RunInFlight
<1>5. s.run[r].attempts # 0 =>
        /\ s.run[r].attempts \in AttemptNumbers
        /\ t.attempt[<<r, s.run[r].attempts>>].status # "absent"
  BY <1>2 DEF FineAt, AttemptTerminal
<1>6. /\ t.run[r].attempts = s.run[r].attempts /\ ~t.run[r].queueDue
      /\ t.run[r].status = w.run.status /\ w.run.status \notin RunInFlight
  BY DEF Flagged, WriteSound, RunInFlight, RunTerminal
<1>7. w.run.status \notin RunTerminal =>
        IF w.run.held = 0 THEN RetryMode = "round" => w.run.round = t.batch.round
        ELSE /\ RetryMode = "round" /\ w.run.status = "queued"
             /\ w.run.held = t.batch.round + 1 /\ w.run.round = w.run.held
  BY DEF FineAt, WriteSound, RunInFlight, RunTerminal
<1>8. t.run[r].held = w.run.held /\ t.run[r].round = w.run.round
  BY DEF Flagged
<1> QED BY <1>3, <1>4, <1>5, <1>6, <1>7, <1>8 DEF FineAt

-----------------------------------------------------------------------------
(* The settling transaction.                                               *)

BatchRow ==
  [status : BatchStatuses, terminating : BOOLEAN, paused : BOOLEAN, round : Nat \ {0}]

RecoveryRow == [RecoverySteps -> {"idle", "succeeded", "failed", "cancelled"} \cup RecoveryActive]

Enders == {<<"scan">>} \cup ({"report"} \X Attempts) \cup ({"close"} \X Runs)

\* Transactions that hold the batch and have written the rows of the runs F.
FencesOf(F) ==
  [phase : {"locked", "aggregated"}, by : Enders, stale : BOOLEAN,
   run : [F -> RunRow], attempt : [F \X AttemptNumbers -> AttemptRow],
   batch : BatchRow, recovery : RecoveryRow]

\* View, of a database and a transaction.
Seen(s, l) ==
  [run |-> Over(l.run, s.run), attempt |-> Over(l.attempt, s.attempt),
   batch |-> l.batch, recovery |-> l.recovery]

\* A closed batch has no open run.
ClosedSettled(s) == s.batch.status \in BatchTerminal => AllSettled(s)

\* The fence holds every run it has changed, so what it saw of them is still so.
FenceSound(s, w, l, ans) ==
  /\ DOMAIN l.run \subseteq Runs /\ l \in FencesOf(DOMAIN l.run)
  /\ Consistent(Seen(s, l)) /\ ClosedSettled(Seen(s, l))
  /\ s.batch.status \in BatchTerminal => l.batch.status \in BatchTerminal
  /\ \A r \in DOMAIN l.run :
       /\ w[r].by # "nobody" => l.by = <<"close", r>>
       /\ l.run[r].attempts = s.run[r].attempts
       /\ l.run[r].status \in RunInFlight => s.run[r].status \in RunInFlight
  /\ \A r \in Runs : l.by = <<"close", r>> =>
       w[r].by \in {"expiry", "cancel"} /\ r \in DOMAIN l.run
  /\ \A a \in Attempts : l.by = <<"report", a>> => ans[a] = "settle"

\* What the parts of a view are.
LEMMA SeenFacts ==
  ASSUME NEW s \in Database, NEW l, DOMAIN l.run \subseteq Runs, l \in FencesOf(DOMAIN l.run)
  PROVE  /\ Seen(s, l) \in Database
         /\ Seen(s, l).batch = l.batch /\ Seen(s, l).recovery = l.recovery
         /\ \A r \in Runs :
              Seen(s, l).run[r] = IF r \in DOMAIN l.run THEN l.run[r] ELSE s.run[r]
         /\ \A r \in Runs, n \in AttemptNumbers :
              Seen(s, l).attempt[<<r, n>>] =
                IF r \in DOMAIN l.run THEN l.attempt[<<r, n>>] ELSE s.attempt[<<r, n>>]
<1> DEFINE F == DOMAIN l.run
           f == Over(l.run, s.run)
           g == Over(l.attempt, s.attempt)
<1>1. /\ DOMAIN s.run = Runs /\ DOMAIN s.attempt = Attempts
      /\ DOMAIN l.attempt = F \X AttemptNumbers
      /\ \A r \in Runs : s.run[r] \in RunRow
      /\ \A a \in Attempts : s.attempt[a] \in AttemptRow
      /\ l.batch \in BatchRow /\ l.recovery \in RecoveryRow
  BY DEF Database, FencesOf
<1>2. /\ \A r \in F : l.run[r] \in RunRow
      /\ \A a \in F \X AttemptNumbers : l.attempt[a] \in AttemptRow
  BY DEF FencesOf
<1>3. f \in [Runs -> RunRow] /\ \A r \in Runs : f[r] = IF r \in F THEN l.run[r] ELSE s.run[r]
  BY <1>1, <1>2 DEF Over
<1>4. /\ g \in [Attempts -> AttemptRow]
      /\ \A a \in Attempts :
           g[a] = IF a \in F \X AttemptNumbers THEN l.attempt[a] ELSE s.attempt[a]
  BY <1>1, <1>2 DEF Over
<1>5. \A r \in Runs, n \in AttemptNumbers :
        g[<<r, n>>] = IF r \in F THEN l.attempt[<<r, n>>] ELSE s.attempt[<<r, n>>]
  BY <1>4 DEF Attempts
<1> HIDE DEF f, g, F
<1>6. Seen(s, l) = [run |-> f, attempt |-> g, batch |-> l.batch, recovery |-> l.recovery]
  BY DEF Seen, f, g
<1>7. Seen(s, l) \in Database
  BY <1>1, <1>3, <1>4, <1>6 DEF Database, BatchRow, RecoveryRow, BatchStatuses
<1> QED BY <1>3, <1>5, <1>6, <1>7 DEF F

\* The runs that are fenced and the others, seen through the fence.
LEMMA SeenRows ==
  ASSUME NEW s \in Database, NEW l, DOMAIN l.run \subseteq Runs, l \in FencesOf(DOMAIN l.run),
         NEW r \in Runs, r \notin DOMAIN l.run
  PROVE  SameRows(s, Seen(s, l), r)
  BY SeenFacts DEF SameRows

-----------------------------------------------------------------------------
(* Settled, inside a transaction.                                          *)

\* Every held run waits for the round after the batch's, so NextHeldRound - 1
\* is the round of the batch.
RoundSettled(s) ==
  RetryMode = "round" /\ RoundIdle(s) /\ ~s.batch.paused =>
    \E p \in StepsAfter(s.batch.round) : s.recovery[p] \notin {"idle", "succeeded"}

SettledIn(s) ==
  /\ AllSettled(s) => s.batch.status \in BatchTerminal
  /\ RoundSettled(s)

LEMMA SettledIsSettledIn ==
  ASSUME Consistent(db)
  PROVE  Settled <=> SettledIn(db)
<1>1. RoundIdle(db) => NextHeldRound(db) - 1 = db.batch.round
  <2> SUFFICES ASSUME RoundIdle(db)
               PROVE  NextHeldRound(db) - 1 = db.batch.round
    OBVIOUS
  <2>1. NextHeldRound(db) = db.batch.round + 1
    BY NextHeldRoundIsNext DEF RoundIdle
  <2>2. db.batch.round \in Nat
    BY DEF Consistent, Database
  <2> QED BY <2>1, <2>2
<1> QED BY <1>1 DEF Settled, SettledIn, RoundSettled, AllSettled

\* What RoundSettled reads.
LEMMA RoundSettledSame ==
  ASSUME NEW s, NEW t, RoundSettled(s),
         \A r \in Runs : t.run[r].status = s.run[r].status /\ t.run[r].held = s.run[r].held,
         t.batch.paused = s.batch.paused, t.batch.round = s.batch.round,
         t.recovery = s.recovery
  PROVE  RoundSettled(t)
  BY DEF RoundSettled, RoundIdle, RunsIn, Schedulable, HeldRuns

\* Work in flight will settle the batch, and a batch without open runs has no round left.
LEMMA WorkSettles ==
  ASSUME NEW s, NEW r \in Runs, s.run[r].status \in RunInFlight
  PROVE  SettledIn(s)
  BY DEF SettledIn, RoundSettled, RoundIdle, RunsIn, AllSettled, RunInFlight, RunTerminal

LEMMA AllSettledRound ==
  ASSUME NEW s, AllSettled(s)
  PROVE  RoundSettled(s)
  BY DEF RoundSettled, RoundIdle, AllSettled, HeldRuns, RunTerminal

\* After advancing, an idle round waits for its recovery.
LEMMA AdvanceRoundSettles ==
  ASSUME NEW s, Consistent(s)
  PROVE  RoundSettled(AdvanceRoundIfIdle(s))
<1> DEFINE k == NextHeldRound(s)
           steps == StepsAfter(k - 1)
           v == [p \in RecoverySteps |->
                  IF p \in steps /\ s.recovery[p] = "idle" THEN "pending" ELSE s.recovery[p]]
           u == [s EXCEPT !.recovery = v]
<1>1. CASE RetryMode # "round" \/ ~RoundIdle(s)
  BY <1>1 DEF AdvanceRoundIfIdle, RoundSettled
<1>2. CASE RetryMode = "round" /\ RoundIdle(s)
  <2>1. k = s.batch.round + 1 /\ s.batch.round \in Nat
    BY <1>2, NextHeldRoundIsNext DEF RoundIdle, Consistent, Database
  <2>2. k - 1 = s.batch.round /\ k \in Nat \ {0}
    BY <2>1
  <2>3. steps = StepsAfter(s.batch.round) /\ steps \subseteq RecoverySteps
    BY <2>2 DEF StepsAfter
  <2> HIDE DEF k
  <2>4. CASE \E p \in steps : s.recovery[p] = "idle"
    <3>1. AdvanceRoundIfIdle(s) = u
      BY <1>2, <2>4 DEF AdvanceRoundIfIdle, k
    <3>2. \E p \in steps : v[p] = "pending"
      BY <2>3, <2>4
    <3> HIDE DEF v, steps
    <3>3. u.recovery = v /\ u.batch = s.batch
      BY DEF Consistent, Database
    <3> QED BY <2>3, <3>1, <3>2, <3>3 DEF RoundSettled
  <2>5. CASE ~(\E p \in steps : s.recovery[p] = "idle") /\ \E p \in steps : s.recovery[p] # "succeeded"
    <3>1. AdvanceRoundIfIdle(s) = s
      BY <1>2, <2>5 DEF AdvanceRoundIfIdle, k
    <3> QED BY <2>3, <2>5, <3>1 DEF RoundSettled
  <2>6. CASE ~(\E p \in steps : s.recovery[p] = "idle") /\ ~\E p \in steps : s.recovery[p] # "succeeded"
    <3> DEFINE t == ReleaseRound(s, k)
    <3>1. AdvanceRoundIfIdle(s) = t
      BY <1>2, <2>6 DEF AdvanceRoundIfIdle, k
    <3>2. \A r \in Runs : s.run[r].status \notin RunInFlight /\ ~Schedulable(s, r)
      BY <1>2 DEF RoundIdle, RunsIn
    <3>3. /\ Consistent(t) /\ t.batch = [s.batch EXCEPT !.round = k]
          /\ \A r \in Runs : t.run[r].status = s.run[r].status
      BY <2>1, <2>2, <3>2, ReleaseRoundConsistent
    <3>4. t.batch.round = k
      BY <2>2, <3>3 DEF Consistent, Database
    <3> HIDE DEF t
    <3>5. PICK r \in Runs : s.run[r].status = "queued" /\ s.run[r].held > 0
      BY <1>2 DEF RoundIdle, HeldRuns
    <3>6. s.run[r].held = k
      BY <2>1, <3>5 DEF Consistent, RoundsAgree, RunTerminal, Database, RunRow
    <3>7. t.run[r].held = 0
      <4>1. k <= k
        BY <2>2
      <4>2. t.run[r] = [s.run[r] EXCEPT !.held = 0, !.queueDue = FALSE]
        BY <3>5, <3>6, <4>1 DEF t, ReleaseRound, Consistent, Database
      <4>3. s.run[r] \in RunRow
        BY DEF Consistent, Database
      <4> QED BY <4>2, <4>3 DEF RunRow
    <3>8. Schedulable(t, r)
      BY <3>3, <3>5, <3>7 DEF Schedulable
    <3> QED BY <3>1, <3>8 DEF RoundSettled, RoundIdle, t
  <2> QED BY <2>4, <2>5, <2>6
<1> QED BY <1>1, <1>2
\* Under the lock: rows closed by a termination, or the batch advanced.
LEMMA FencedFacts ==
  ASSUME NEW s, Consistent(s), ClosedSettled(s)
  PROVE  LET t == FencedOrAdvanced(s)
         IN  /\ Consistent(t) /\ ClosedSettled(t) /\ RoundSettled(t)
             /\ Settles(s, t) /\ t.batch.status = s.batch.status
<1> DEFINE t == FencedOrAdvanced(s)
<1>1. CASE s.batch.status \in BatchTerminal
  <2>1. t = s
    BY <1>1 DEF FencedOrAdvanced
  <2>2. AllSettled(s)
    BY <1>1 DEF ClosedSettled
  <2>3. RoundSettled(s)
    BY <2>2, AllSettledRound
  <2> HIDE DEF t
  <2> QED BY <2>1, <2>3 DEF Settles, t
<1>2. CASE s.batch.status \notin BatchTerminal /\ s.batch.terminating
  <2>1. t = TerminateWaitingRuns(s)
    BY <1>2 DEF FencedOrAdvanced
  <2>2. /\ Consistent(t) /\ t.batch = s.batch
        /\ \A r \in Runs : t.run[r].status \in RunTerminal \cup {"running"}
    BY <2>1, TerminateWaitingRunsConsistent
  <2>3. Settles(s, t)
    BY <1>2, <2>1, TerminateSettles
  <2> HIDE DEF t
  <2>4. RoundSettled(t)
    BY <2>2 DEF RoundSettled, RoundIdle, HeldRuns, RunTerminal
  <2> QED BY <1>2, <2>2, <2>3, <2>4 DEF ClosedSettled, t
<1>3. CASE s.batch.status \notin BatchTerminal /\ ~s.batch.terminating /\ s.batch.paused
  <2>1. t = s
    BY <1>3 DEF FencedOrAdvanced
  <2> HIDE DEF t
  <2>2. RoundSettled(s) /\ Settles(s, s)
    BY <1>3 DEF RoundSettled, Settles
  <2> QED BY <2>1, <2>2 DEF t
<1>4. CASE s.batch.status \notin BatchTerminal /\ ~s.batch.terminating /\ ~s.batch.paused
  <2>1. t = AdvanceRoundIfIdle(s)
    BY <1>4 DEF FencedOrAdvanced
  <2>2. Consistent(t) /\ t.batch.status = s.batch.status
    BY <2>1, AdvanceRoundConsistent
  <2>3. RoundSettled(t) /\ Settles(s, t)
    BY <1>4, <2>1, AdvanceRoundSettles, AdvanceSettles
  <2> HIDE DEF t
  <2> QED BY <1>4, <2>2, <2>3 DEF ClosedSettled, t
<1> QED BY <1>1, <1>2, <1>3, <1>4

\* Transactions that aggregate an open batch settle it.
LEMMA UpdateSettled ==
  ASSUME NEW s, Consistent(s), s.batch.status \in BatchOpen
  PROVE  SettledIn(UpdateBatchStatus(s))
<1> DEFINE t == FencedOrAdvanced(s)
           st == AggregateStatus(t)
           u == [t EXCEPT !.batch.status = st]
<1>1. s.batch.status \notin BatchTerminal
  BY DEF BatchOpen, BatchTerminal
<1>2. UpdateBatchStatus(s) = u
  BY <1>1 DEF UpdateBatchStatus, FencedOrAdvanced
<1>3. Consistent(t) /\ RoundSettled(t)
  BY <1>1, FencedFacts DEF ClosedSettled
<1> HIDE DEF t
<1>4. t \in Database /\ (st \in BatchTerminal <=> AllSettled(t))
  BY <1>3, AggregateStatusType DEF Consistent
<1> HIDE DEF st
<1>5. /\ u.run = t.run /\ u.recovery = t.recovery /\ u.batch.status = st
      /\ u.batch.paused = t.batch.paused /\ u.batch.round = t.batch.round
  BY <1>4 DEF Database
<1> HIDE DEF u
<1>6. RoundSettled(u)
  BY <1>3, <1>5, RoundSettledSame
<1>7. AllSettled(u) => u.batch.status \in BatchTerminal
  BY <1>4, <1>5 DEF AllSettled
<1> QED BY <1>2, <1>6, <1>7 DEF SettledIn

-----------------------------------------------------------------------------
(* The inductive invariant.                                                *)

WritesSound(s, w) == w \in [Runs -> Rows] /\ \A r \in Runs : WriteSound(s, r, w[r])

\* A report whose rows are committed has ended its attempt.
AnswersSound(s, ans) ==
  /\ ans \in [Attempts -> AnswerStates]
  /\ \A a \in Attempts : ans[a] # "none" =>
       /\ a[2] <= s.run[a[1]].attempts
       /\ a[2] = s.run[a[1]].attempts => s.run[a[1]].status \notin RunInFlight

\* A report that will still look at the batch.
Open(ans, a) == ans[a] \in {"committed", "settle", "unanswered"}

\* The batch will be settled once the transaction commits.
WillSettle(s, l) ==
  IF l.phase = "locked" THEN RoundSettled(Seen(s, l)) ELSE SettledIn(Seen(s, l))

\* If the batch is not settled, somebody will look at it; and the transaction
\* that holds it either settles it or leaves it to somebody else.
Promised(s, l, ans, o) ==
  /\ ~o /\ ~SettledIn(s) => \E a \in Attempts : Open(ans, a)
  /\ l.phase # "idle" /\ ~o /\ ~WillSettle(s, l) =>
       \E a \in Attempts : Open(ans, a) /\ l.by # <<"report", a>>
  /\ l.phase # "idle" /\ ~l.stale => WillSettle(s, l)

PgInv ==
  /\ Consistent(db) /\ ClosedSettled(db)
  /\ WritesSound(db, writing)
  /\ AnswersSound(db, answer)
  /\ settling.phase # "idle" => FenceSound(db, writing, settling, answer)
  /\ Promised(db, settling, answer, overlapped)
  /\ overlapped \in BOOLEAN /\ failures \in 0..MaxFailures

\* What s becomes under the lock is what the transaction sees from then on.
Locks(s) ==
  LET t == FencedOrAdvanced(s)
      v == Seen(db, settling')
  IN  /\ db' = db /\ writing' = writing
      /\ v.batch = t.batch /\ v.recovery = t.recovery /\ \A r \in Runs : SameRows(t, v, r)

\* The batch is locked and fenced, by whatever transaction.
LEMMA LockKeeps ==
  ASSUME PgInv, NEW by \in Enders, NEW s, NEW own \in SUBSET Runs, LockBatch(by, s, own),
         Consistent(s), ClosedSettled(s), s.batch = db.batch,
         \A r \in Runs \ own : SameRows(db, s, r),
         \A r \in own : /\ by = <<"close", r>> /\ Closing(r)
                        /\ s.run[r].attempts = db.run[r].attempts
                        /\ s.run[r].status \notin RunInFlight,
         \A r \in Runs : by = <<"close", r>> => r \in own,
         \A a \in Attempts : by = <<"report", a>> => answer[a] = "settle"
  PROVE  PgInv' /\ Locks(s)
<1> DEFINE t == FencedOrAdvanced(s)
           ch == ChangedRuns(s, t) \cup own
           f == [r \in ch |-> t.run[r]]
           g == [a \in ch \X AttemptNumbers |-> t.attempt[a]]
           l == [phase |-> "locked", by |-> by, stale |-> FALSE, run |-> f, attempt |-> g,
                 batch |-> t.batch, recovery |-> t.recovery]
           v == Seen(db, l)
<1>1. /\ settling' = l /\ settling.phase = "idle"
      /\ \A r \in ChangedRuns(s, t) \ own : writing[r].by = "nobody"
      /\ db' = db /\ writing' = writing /\ answer' = answer /\ overlapped' = overlapped
      /\ failures' = failures
  BY DEF LockBatch, BatchFree
<1>2. /\ Consistent(t) /\ ClosedSettled(t) /\ RoundSettled(t)
      /\ Settles(s, t) /\ t.batch.status = s.batch.status
  BY FencedFacts
<1>3. /\ ch \subseteq Runs
      /\ \A r \in Runs \ ch : SameRows(s, t, r)
  BY DEF ChangedRuns, SameRows
<1> HIDE DEF t
<1>4. /\ t \in Database /\ t.run \in [Runs -> RunRow] /\ t.attempt \in [Attempts -> AttemptRow]
      /\ t.batch \in BatchRow /\ t.recovery \in RecoveryRow
  BY <1>2 DEF Consistent, Database, BatchRow, BatchStatuses, RecoveryRow
<1>5. /\ f \in [ch -> RunRow] /\ g \in [ch \X AttemptNumbers -> AttemptRow]
      /\ DOMAIN f = ch /\ \A r \in ch : f[r] = t.run[r]
      /\ \A r \in ch, n \in AttemptNumbers : g[<<r, n>>] = t.attempt[<<r, n>>]
  <2> HIDE DEF ch
  <2> QED BY <1>3, <1>4 DEF Attempts
<1> HIDE DEF f, g, ch
<1>6. /\ l.phase = "locked" /\ l.by = by /\ l.stale = FALSE /\ l.run = f /\ l.attempt = g
      /\ l.batch = t.batch /\ l.recovery = t.recovery
      /\ DOMAIN l.run = ch /\ l \in FencesOf(DOMAIN l.run)
  BY <1>4, <1>5 DEF FencesOf
<1> HIDE DEF l
<1>7. /\ v \in Database /\ v.batch = t.batch /\ v.recovery = t.recovery
      /\ \A r \in Runs : SameRows(t, v, r)
  <2>1. db \in Database
    BY DEF PgInv, Consistent
  <2>2. /\ v \in Database /\ v.batch = t.batch /\ v.recovery = t.recovery
        /\ \A r \in Runs : v.run[r] = IF r \in ch THEN l.run[r] ELSE db.run[r]
        /\ \A r \in Runs, n \in AttemptNumbers :
             v.attempt[<<r, n>>] = IF r \in ch THEN l.attempt[<<r, n>>] ELSE db.attempt[<<r, n>>]
    BY <1>3, <1>6, <2>1, SeenFacts
  <2> HIDE DEF v
  <2>3. \A r \in Runs \ ch : SameRows(db, s, r)
    BY DEF ch
  <2> QED BY <1>3, <1>5, <1>6, <2>2, <2>3 DEF SameRows
<1> HIDE DEF v
<1>8. Consistent(v)
  <2>1. \A r \in Runs : FineAt(t, r)
    BY <1>2, FineEverywhere
  <2>2. \A r \in Runs : FineAt(v, r)
    BY <1>7, <2>1, SameFine
  <2> QED BY <1>7, <2>2, FineEverywhere
<1>9. ClosedSettled(v) /\ RoundSettled(v)
  <2>1. RoundSettled(v)
    BY <1>2, <1>7, RoundSettledSame DEF SameRows
  <2> QED BY <1>2, <1>7, <2>1 DEF ClosedSettled, AllSettled, SameRows
<1>10. ASSUME NEW r \in ch
       PROVE  /\ writing[r].by # "nobody" => by = <<"close", r>>
              /\ l.run[r].attempts = db.run[r].attempts
              /\ l.run[r].status \in RunInFlight => db.run[r].status \in RunInFlight
  <2>1. l.run[r] = t.run[r] /\ r \in Runs
    BY <1>3, <1>5, <1>6
  <2>2. /\ t.run[r].attempts = s.run[r].attempts
        /\ t.run[r].status \in RunInFlight => s.run[r].status \in RunInFlight
    BY <1>2, <2>1 DEF Settles, RunInFlight
  <2>3. CASE r \in own
    BY <2>1, <2>2, <2>3
  <2>4. CASE r \notin own
    <3>1. SameRows(db, s, r) /\ r \in ChangedRuns(s, t)
      BY <2>1, <2>4 DEF ch
    <3> QED BY <1>1, <2>1, <2>2, <2>4, <3>1 DEF SameRows
  <2> QED BY <2>3, <2>4
<1>11. FenceSound(db, writing, l, answer)
  <2>1. db.batch.status \in BatchTerminal => l.batch.status \in BatchTerminal
    BY <1>2, <1>6
  <2>2. \A r \in Runs : l.by = <<"close", r>> =>
          writing[r].by \in {"expiry", "cancel"} /\ r \in DOMAIN l.run
    BY <1>6 DEF ch, Closing
  <2>3. \A a \in Attempts : l.by = <<"report", a>> => answer[a] = "settle"
    BY <1>6
  <2>4. DOMAIN l.run \subseteq Runs
    BY <1>3, <1>6
  <2> QED BY <1>6, <1>8, <1>9, <1>10, <2>1, <2>2, <2>3, <2>4 DEF FenceSound, v
<1>12. Promised(db, l, answer, overlapped)
  <2>1. WillSettle(db, l)
    BY <1>6, <1>9 DEF WillSettle, v
  <2> QED BY <2>1 DEF PgInv, Promised
<1>13. Locks(s)
  BY <1>1, <1>7 DEF Locks, t, v
<1> QED BY <1>1, <1>11, <1>12, <1>13 DEF PgInv

\* What a transaction leaves of the flags of a run and of its attempt.
LEMMA MergedRun ==
  ASSUME NEW old \in RunRow, NEW b \in BOOLEAN
  PROVE  LET new == [old EXCEPT !.cancel = @ \/ b]
         IN  new \in RunRow /\ Flagged(old, new)
<1>1. (old.cancel \/ b) \in BOOLEAN
  OBVIOUS
<1> QED BY <1>1 DEF RunRow, Flagged

LEMMA MergedAttempt ==
  ASSUME NEW old \in AttemptRow, NEW b \in BOOLEAN
  PROVE  LET new == [old EXCEPT !.cancel = @ \/ b]
         IN  new \in AttemptRow /\ Merged(old, new)
<1> DEFINE c == old.cancel \/ b
           new == [old EXCEPT !.cancel = c]
<1>1. c \in BOOLEAN
  OBVIOUS
<1> HIDE DEF c
<1>2. /\ new \in AttemptRow /\ new.status = old.status /\ new.code = old.code
      /\ new.lease = old.lease /\ new.receipt = old.receipt /\ new.assignment = old.assignment
  BY <1>1 DEF AttemptRow
<1> HIDE DEF new
<1>3. Merged(old, new)
  BY <1>2 DEF Merged, Lapsed, RowShape
<1> QED BY <1>2, <1>3 DEF new, c

\* The rows of a run written over a database.
LEMMA WithRowsFacts ==
  ASSUME NEW s \in Database, writing \in [Runs -> Rows], NEW r \in Runs
  PROVE  LET t == WithRowsOf(s, r)
         IN  /\ t \in Database /\ t.batch = s.batch /\ t.recovery = s.recovery
             /\ Flagged(writing[r].run, t.run[r])
             /\ \A q \in Runs \ {r} : t.run[q] = s.run[q]
             /\ \A n \in AttemptNumbers :
                  n = s.run[r].attempts => Merged(writing[r].attempt, t.attempt[<<r, n>>])
             /\ \A q \in Runs, n \in AttemptNumbers :
                  q # r \/ n # s.run[r].attempts => t.attempt[<<q, n>>] = s.attempt[<<q, n>>]
<1> DEFINE c == writing[r].run
           d == writing[r].attempt
           Row(a) == [d EXCEPT !.cancel = @ \/ s.attempt[a].cancel]
           run == [c EXCEPT !.cancel = @ \/ s.run[r].cancel]
           f == [s.run EXCEPT ![r] = run]
           g == [a \in Attempts |-> IF a = Latest(s, r) THEN Row(a) ELSE s.attempt[a]]
           t == WithRowsOf(s, r)
<1>1. /\ s.run \in [Runs -> RunRow] /\ s.attempt \in [Attempts -> AttemptRow]
      /\ c \in RunRow /\ d \in AttemptRow /\ s.run[r] \in RunRow
      /\ \A a \in Attempts : s.attempt[a] \in AttemptRow
  BY DEF Database, Rows
<1>2. t = [s EXCEPT !.run = f, !.attempt = g]
  BY DEF WithRowsOf, Database
<1> HIDE DEF c, d, t
<1>3. s.run[r].cancel \in BOOLEAN /\ \A a \in Attempts : s.attempt[a].cancel \in BOOLEAN
  BY <1>1 DEF RunRow, AttemptRow
<1>4. run \in RunRow /\ Flagged(c, run)
  BY <1>1, <1>3, MergedRun
<1>5. \A a \in Attempts : Row(a) \in AttemptRow /\ Merged(d, Row(a))
  BY <1>1, <1>3, MergedAttempt
<1> HIDE DEF run, Row
<1>6. f \in [Runs -> RunRow] /\ \A q \in Runs : f[q] = IF q = r THEN run ELSE s.run[q]
  BY <1>1, <1>4
<1>7. /\ g \in [Attempts -> AttemptRow]
      /\ \A q \in Runs, n \in AttemptNumbers :
           g[<<q, n>>] = IF q = r /\ n = s.run[r].attempts THEN Row(<<q, n>>)
                         ELSE s.attempt[<<q, n>>]
  BY <1>1, <1>5 DEF Attempts, Latest
<1> HIDE DEF f, g
<1>8. /\ t \in Database /\ t.run = f /\ t.attempt = g /\ t.batch = s.batch
      /\ t.recovery = s.recovery
  BY <1>2, <1>6, <1>7 DEF Database
<1>9. \A n \in AttemptNumbers : n = s.run[r].attempts => Merged(d, g[<<r, n>>])
  BY <1>5, <1>7 DEF Attempts
<1> QED BY <1>4, <1>6, <1>7, <1>8, <1>9 DEF t, c, d

\* What an open transaction has written of its run is consistent with the rest.
LEMMA WithRowsConsistent ==
  ASSUME NEW s, Consistent(s), WritesSound(s, writing), NEW r \in Runs, writing[r].by # "nobody"
  PROVE  Consistent(WithRowsOf(s, r))
<1> DEFINE t == WithRowsOf(s, r)
<1>1. /\ t \in Database /\ t.batch = s.batch
      /\ Flagged(writing[r].run, t.run[r]) /\ \A q \in Runs \ {r} : t.run[q] = s.run[q]
      /\ \A n \in AttemptNumbers :
           n = s.run[r].attempts => Merged(writing[r].attempt, t.attempt[<<r, n>>])
      /\ \A q \in Runs, n \in AttemptNumbers :
           q # r \/ n # s.run[r].attempts => t.attempt[<<q, n>>] = s.attempt[<<q, n>>]
  BY WithRowsFacts DEF Consistent, WritesSound
<1> HIDE DEF t
<1>2. \A q \in Runs : FineAt(s, q)
  BY FineEverywhere
<1>3. FineAt(t, r)
  BY <1>1, <1>2, WriteFine DEF WritesSound
<1>4. \A q \in Runs \ {r} : FineAt(t, q)
  BY <1>1, <1>2, SameFine DEF SameRows
<1> QED BY <1>1, <1>3, <1>4, FineEverywhere DEF t

\* A report that found no work in flight settles the batch.
LEMMA SettleAfterReportKeeps ==
  ASSUME PgInv, NEW a \in Attempts, SettleAfterReport(a)
  PROVE  PgInv' /\ Locks(db)
<1>1. <<"report", a>> \in Enders
  BY DEF Enders
<1>2. \A r \in Runs : <<"report", a>> # <<"close", r>>
  OBVIOUS
<1>3. \A b \in Attempts : <<"report", a>> = <<"report", b>> => answer[b] = "settle"
  BY DEF SettleAfterReport
<1>4. \A r \in Runs : SameRows(db, db, r)
  BY DEF SameRows
<1>5. LockBatch(<<"report", a>>, db, {})
  BY DEF SettleAfterReport
<1>6. Consistent(db) /\ ClosedSettled(db)
  BY DEF PgInv
<1> QED BY <1>1, <1>2, <1>3, <1>4, <1>5, <1>6, LockKeeps

\* The scan settles a terminating batch (terminatingBatchSettlementSql).
LEMMA ScanKeeps ==
  ASSUME PgInv, ScanTerminatingBatch
  PROVE  PgInv' /\ Locks(db)
<1>1. <<"scan">> \in Enders
  BY DEF Enders
<1>2. /\ \A r \in Runs : <<"scan">> # <<"close", r>>
      /\ \A b \in Attempts : <<"scan">> # <<"report", b>>
  OBVIOUS
<1>3. \A r \in Runs : SameRows(db, db, r)
  BY DEF SameRows
<1>4. LockBatch(<<"scan">>, db, {})
  BY DEF ScanTerminatingBatch
<1>5. Consistent(db) /\ ClosedSettled(db)
  BY DEF PgInv
<1> QED BY <1>1, <1>2, <1>3, <1>4, <1>5, LockKeeps

\* An expiry or a cancellation settles the batch with the rows it has written.
LEMMA SettleCloseKeeps ==
  ASSUME PgInv, NEW r \in Runs, SettleClose(r)
  PROVE  PgInv' /\ Locks(WithRowsOf(db, r))
<1> DEFINE by == <<"close", r>>
           s == WithRowsOf(db, r)
<1>1. /\ by \in Enders
      /\ \A q \in Runs : by = <<"close", q>> => q = r
      /\ \A b \in Attempts : by # <<"report", b>>
  BY DEF Enders
<1> HIDE DEF by
<1>2. Closing(r) /\ writing[r].by # "nobody" /\ LockBatch(by, s, {r})
  BY DEF SettleClose, Closing, by
<1>3. Consistent(db) /\ ClosedSettled(db) /\ WritesSound(db, writing)
  BY DEF PgInv
<1>4. /\ s.batch = db.batch
      /\ Flagged(writing[r].run, s.run[r]) /\ \A q \in Runs \ {r} : s.run[q] = db.run[q]
      /\ \A q \in Runs \ {r}, n \in AttemptNumbers : s.attempt[<<q, n>>] = db.attempt[<<q, n>>]
  BY <1>3, WithRowsFacts DEF Consistent, WritesSound
<1>5. Consistent(s)
  BY <1>2, <1>3, WithRowsConsistent
<1> HIDE DEF s
<1>6. /\ s.run[r].attempts = db.run[r].attempts
      /\ s.run[r].status \notin RunInFlight /\ db.run[r].status \notin RunTerminal
  BY <1>2, <1>3, <1>4 DEF WritesSound, WriteSound, Flagged, RunInFlight, RunTerminal
<1>7. ClosedSettled(s)
  BY <1>3, <1>4, <1>6 DEF ClosedSettled, AllSettled
<1>8. \A q \in Runs \ {r} : SameRows(db, s, q)
  BY <1>4 DEF SameRows
<1>9. \A q \in {r} : /\ by = <<"close", q>> /\ Closing(q)
                     /\ s.run[q].attempts = db.run[q].attempts
                     /\ s.run[q].status \notin RunInFlight
  BY <1>2, <1>4, <1>6 DEF by
<1>10. /\ \A q \in Runs : by = <<"close", q>> => q \in {r}
       /\ \A b \in Attempts : by = <<"report", b>> => answer[b] = "settle"
       /\ {r} \in SUBSET Runs
  BY <1>1
<1>11. PgInv' /\ Locks(s)
  BY <1>1, <1>2, <1>4, <1>5, <1>7, <1>8, <1>9, <1>10, LockKeeps
<1> QED BY <1>11 DEF s

\* The status of the batch is the aggregate of what the transaction sees.
LEMMA AggregateKeeps ==
  ASSUME PgInv, AggregateBatch
  PROVE  PgInv'
<1> DEFINE l == settling
           v == Seen(db, l)
           st == IF l.batch.status \in BatchTerminal THEN l.batch.status ELSE AggregateStatus(v)
           m == [l EXCEPT !.phase = "aggregated", !.batch.status = st]
           u == Seen(db, m)
<1>1. /\ settling' = m /\ l.phase = "locked"
      /\ db' = db /\ writing' = writing /\ answer' = answer /\ overlapped' = overlapped
      /\ failures' = failures
  BY DEF AggregateBatch, View, Seen
<1>2. FenceSound(db, writing, l, answer) /\ db \in Database
  BY <1>1 DEF PgInv, Consistent
<1>3. /\ DOMAIN l.run \subseteq Runs /\ l \in FencesOf(DOMAIN l.run)
      /\ Consistent(v) /\ ClosedSettled(v) /\ v.batch = l.batch
      /\ v \in Database
  BY <1>2, SeenFacts DEF FenceSound
<1> HIDE DEF v
<1>4. /\ st \in BatchStatuses
      /\ st \in BatchTerminal <=> AllSettled(v)
      /\ l.batch.status \in BatchTerminal => st \in BatchTerminal
  <2>1. /\ AggregateStatus(v) \in BatchStatuses
        /\ AggregateStatus(v) \in BatchTerminal <=> AllSettled(v)
    BY <1>3, AggregateStatusType
  <2> QED BY <1>3, <2>1 DEF ClosedSettled, BatchStatuses
<1> HIDE DEF l, st
<1>5. /\ m.run = l.run /\ m \in FencesOf(DOMAIN l.run) /\ m.phase = "aggregated"
      /\ m.by = l.by /\ m.attempt = l.attempt /\ m.recovery = l.recovery /\ m.stale = l.stale
      /\ m.batch.status = st /\ m.batch.round = l.batch.round /\ m.batch.paused = l.batch.paused
  BY <1>3, <1>4 DEF FencesOf, BatchRow
<1> HIDE DEF m
<1>6. u \in Database /\ u.batch = m.batch /\ u.recovery = l.recovery /\ v.recovery = l.recovery
  BY <1>2, <1>3, <1>5, SeenFacts DEF v
<1>7. u.run = v.run /\ u.attempt = v.attempt
  BY <1>5 DEF Seen, u, v
<1> HIDE DEF u
<1>8. Consistent(u)
  <2>1. \A r \in Runs : FineAt(v, r) /\ SameRows(v, u, r)
    BY <1>3, <1>7, FineEverywhere DEF SameRows
  <2>2. u.batch.round = v.batch.round
    BY <1>3, <1>5, <1>6
  <2>3. \A r \in Runs : FineAt(u, r)
    BY <2>1, <2>2, SameFine
  <2> QED BY <1>6, <2>3, FineEverywhere
<1>9. ClosedSettled(u) /\ (AllSettled(u) => u.batch.status \in BatchTerminal)
  BY <1>4, <1>5, <1>6, <1>7 DEF ClosedSettled, AllSettled
<1>10. FenceSound(db, writing, m, answer)
  BY <1>2, <1>3, <1>4, <1>5, <1>8, <1>9 DEF FenceSound, u
<1>11. RoundSettled(v) => SettledIn(u)
  <2>1. RoundSettled(v) => RoundSettled(u)
    BY <1>3, <1>5, <1>6, <1>7, RoundSettledSame
  <2> QED BY <1>9, <2>1 DEF SettledIn
<1>12. WillSettle(db, l) => WillSettle(db, m)
  BY <1>1, <1>5, <1>11 DEF WillSettle, u, v, l
<1>13. Promised(db, m, answer, overlapped)
  BY <1>1, <1>5, <1>12 DEF PgInv, Promised, l
<1> QED BY <1>1, <1>10, <1>13 DEF PgInv

\* The transaction that settles the batch commits.
LEMMA CommitSettlementKeeps ==
  ASSUME PgInv, CommitSettlement
  PROVE  PgInv'
<1> DEFINE l == settling
           v == Seen(db, l)
<1>1. /\ db' = v /\ settling' = NotSettling /\ l.phase = "aggregated"
      /\ writing' = [r \in Runs |-> IF l.by = <<"close", r>> THEN NothingWritten ELSE writing[r]]
      /\ answer' = [a \in Attempts |-> IF l.by = <<"report", a>> THEN "answered" ELSE answer[a]]
      /\ overlapped' = overlapped /\ failures' = failures
  BY DEF CommitSettlement, View, Seen
<1>2. FenceSound(db, writing, l, answer) /\ db \in Database
  BY <1>1 DEF PgInv, Consistent
<1>3. /\ DOMAIN l.run \subseteq Runs /\ l \in FencesOf(DOMAIN l.run)
      /\ Consistent(v) /\ ClosedSettled(v)
      /\ \A r \in Runs : v.run[r] = IF r \in DOMAIN l.run THEN l.run[r] ELSE db.run[r]
  BY <1>2, SeenFacts DEF FenceSound
<1>4. WillSettle(db, l) <=> SettledIn(v)
  BY <1>1 DEF WillSettle
<1> HIDE DEF l, v
<1>5. WritesSound(v, writing')
  <2>1. NothingWritten \in Rows
    BY DEF NothingWritten, Rows, CreatedRun, NoAttempt, RunRow, AttemptRow
  <2>2. writing' \in [Runs -> Rows]
    BY <1>1, <2>1 DEF PgInv, WritesSound
  <2>3. ASSUME NEW r \in Runs
        PROVE  WriteSound(v, r, writing'[r])
    <3>1. CASE l.by = <<"close", r>>
      BY <1>1, <3>1 DEF WriteSound, NothingWritten
    <3>2. CASE l.by # <<"close", r>>
      <4>1. writing'[r] = writing[r] /\ WriteSound(db, r, writing[r])
        BY <1>1, <3>2 DEF PgInv, WritesSound
      <4>2. writing[r].by # "nobody" => v.run[r] = db.run[r]
        BY <1>2, <1>3, <3>2 DEF FenceSound
      <4> QED BY <4>1, <4>2 DEF WriteSound
    <3> QED BY <3>1, <3>2
  <2> QED BY <2>2, <2>3 DEF WritesSound
<1>6. AnswersSound(v, answer')
  <2>1. answer' \in [Attempts -> AnswerStates]
    BY <1>1 DEF PgInv, AnswersSound, AnswerStates
  <2>2. ASSUME NEW a \in Attempts, answer'[a] # "none"
        PROVE  /\ a[2] <= v.run[a[1]].attempts
               /\ a[2] = v.run[a[1]].attempts => v.run[a[1]].status \notin RunInFlight
    <3>1. answer[a] # "none" /\ a[1] \in Runs
      BY <1>1, <1>2, <2>2, AttemptPair DEF FenceSound
    <3>2. /\ v.run[a[1]].attempts = db.run[a[1]].attempts
          /\ v.run[a[1]].status \in RunInFlight => db.run[a[1]].status \in RunInFlight
      BY <1>2, <1>3, <3>1 DEF FenceSound
    <3> QED BY <3>1, <3>2 DEF PgInv, AnswersSound
  <2> QED BY <2>1, <2>2 DEF AnswersSound
<1>7. NotSettling.phase = "idle"
  BY DEF NotSettling
<1>8. ~overlapped /\ ~SettledIn(v) => \E a \in Attempts : Open(answer', a)
  <2> SUFFICES ASSUME ~overlapped, ~SettledIn(v)
               PROVE  \E a \in Attempts : Open(answer', a)
    OBVIOUS
  <2>1. PICK a \in Attempts : Open(answer, a) /\ l.by # <<"report", a>>
    BY <1>1, <1>4 DEF PgInv, Promised, l
  <2>2. answer'[a] = answer[a]
    BY <1>1, <2>1
  <2> QED BY <2>1, <2>2 DEF Open
<1>9. Promised(v, NotSettling, answer', overlapped)
  BY <1>7, <1>8 DEF Promised
<1> QED BY <1>1, <1>3, <1>5, <1>6, <1>7, <1>9 DEF PgInv
-----------------------------------------------------------------------------
(* The report of an attempt.                                               *)

\* The fence remembers that a report has committed behind its back.
LEMMA StaleFence ==
  ASSUME NEW l, l \in FencesOf(DOMAIN l.run)
  PROVE  LET m == [l EXCEPT !.stale = TRUE]
         IN  /\ m \in FencesOf(DOMAIN l.run) /\ m.stale = TRUE /\ m.phase = l.phase
             /\ m.by = l.by /\ m.run = l.run /\ m.attempt = l.attempt
             /\ m.batch = l.batch /\ m.recovery = l.recovery
  BY DEF FencesOf

\* What a report commits is seen by who holds the batch, unless it is fenced,
\* and then nobody else has written it.
LEMMA CommitReportFence ==
  ASSUME PgInv, NEW a \in Attempts, CommitReport(a), settling.phase # "idle"
  PROVE  FenceSound(db', writing', settling', answer')
<1> DEFINE r == a[1]
           w == writing[r]
           l == settling
           m == [l EXCEPT !.stale = TRUE]
           t == WithRowsOf(db, r)
           v == Seen(db, l)
           u == Seen(t, m)
<1>1. /\ w.by = "report" /\ db' = t /\ settling' = m /\ r \in Runs
      /\ writing' = [writing EXCEPT ![r] = NothingWritten]
      /\ answer' = [answer EXCEPT ![a] = "committed"]
      /\ a[2] = db.run[r].attempts
  BY AttemptPair DEF CommitReport, BatchFree, IsLatest
<1>2. /\ FenceSound(db, writing, l, answer) /\ Consistent(db) /\ WritesSound(db, writing)
      /\ AnswersSound(db, answer) /\ db \in Database
  BY DEF PgInv, Consistent
<1> HIDE DEF w, r
<1>3. /\ t \in Database /\ t.batch = db.batch
      /\ Flagged(w.run, t.run[r]) /\ \A q \in Runs \ {r} : t.run[q] = db.run[q]
      /\ \A n \in AttemptNumbers :
           n = db.run[r].attempts => Merged(w.attempt, t.attempt[<<r, n>>])
      /\ \A q \in Runs, n \in AttemptNumbers :
           q # r \/ n # db.run[r].attempts => t.attempt[<<q, n>>] = db.attempt[<<q, n>>]
  BY <1>1, <1>2, WithRowsFacts DEF WritesSound, w
<1> HIDE DEF t, l
<1>4. /\ DOMAIN l.run \subseteq Runs /\ l \in FencesOf(DOMAIN l.run)
      /\ Consistent(v) /\ ClosedSettled(v) /\ r \notin DOMAIN l.run
  <2>1. w.by = "report" => r \notin DOMAIN l.run
    BY <1>1, <1>2 DEF FenceSound, w
  <2> QED BY <1>1, <1>2, <2>1 DEF FenceSound
<1>5. /\ m \in FencesOf(DOMAIN l.run) /\ m.phase = l.phase /\ m.by = l.by
      /\ m.run = l.run /\ m.attempt = l.attempt
      /\ m.batch = l.batch /\ m.recovery = l.recovery
  BY <1>4, StaleFence
<1> HIDE DEF m
<1>6. /\ v.batch = l.batch
      /\ \A q \in Runs : v.run[q] = IF q \in DOMAIN l.run THEN l.run[q] ELSE db.run[q]
      /\ \A q \in Runs, n \in AttemptNumbers :
           v.attempt[<<q, n>>] = IF q \in DOMAIN l.run THEN l.attempt[<<q, n>>]
                                 ELSE db.attempt[<<q, n>>]
  BY <1>2, <1>4, SeenFacts
<1>7. /\ u \in Database /\ u.batch = l.batch
      /\ \A q \in Runs : u.run[q] = IF q \in DOMAIN l.run THEN l.run[q] ELSE t.run[q]
      /\ \A q \in Runs, n \in AttemptNumbers :
           u.attempt[<<q, n>>] = IF q \in DOMAIN l.run THEN l.attempt[<<q, n>>]
                                 ELSE t.attempt[<<q, n>>]
  BY <1>3, <1>4, <1>5, SeenFacts
<1> HIDE DEF u, v
<1>8. \A q \in Runs \ {r} : SameRows(v, u, q)
  BY <1>3, <1>6, <1>7 DEF SameRows
<1>9. /\ WriteSound(db, r, w) /\ w.by # "nobody"
      /\ v.run[r] = db.run[r] /\ Flagged(w.run, u.run[r])
      /\ \A n \in AttemptNumbers :
           IF n = v.run[r].attempts THEN Merged(w.attempt, u.attempt[<<r, n>>])
           ELSE u.attempt[<<r, n>>] = v.attempt[<<r, n>>]
  BY <1>1, <1>2, <1>3, <1>4, <1>6, <1>7 DEF WritesSound, w
<1>10. Consistent(u)
  <2>1. \A q \in Runs : FineAt(v, q)
    BY <1>4, FineEverywhere
  <2>2. WriteSound(v, r, w)
    BY <1>9 DEF WriteSound
  <2>3. u.batch.round = v.batch.round
    BY <1>6, <1>7
  <2>4. FineAt(u, r)
    BY <1>1, <1>9, <2>1, <2>2, <2>3, WriteFine
  <2>5. \A q \in Runs \ {r} : FineAt(u, q)
    BY <1>8, <2>1, <2>3, SameFine
  <2> QED BY <1>7, <2>4, <2>5, FineEverywhere
<1>11. ClosedSettled(u)
  <2>1. v.run[r].status \notin RunTerminal
    BY <1>9 DEF WriteSound
  <2> QED BY <1>1, <1>4, <1>6, <1>7, <2>1 DEF ClosedSettled, AllSettled
<1>12. ASSUME NEW q \in DOMAIN m.run
       PROVE  /\ writing'[q].by # "nobody" => m.by = <<"close", q>>
              /\ m.run[q].attempts = t.run[q].attempts
              /\ m.run[q].status \in RunInFlight => t.run[q].status \in RunInFlight
  <2>1. q \in Runs /\ q # r /\ q \in DOMAIN l.run
    BY <1>4, <1>5
  <2>2. writing'[q] = writing[q] /\ t.run[q] = db.run[q]
    BY <1>1, <1>2, <1>3, <2>1 DEF WritesSound
  <2> QED BY <1>2, <1>5, <2>1, <2>2 DEF FenceSound
<1>13. \A q \in Runs : m.by = <<"close", q>> =>
         writing'[q].by \in {"expiry", "cancel"} /\ q \in DOMAIN m.run
  <2> SUFFICES ASSUME NEW q \in Runs, l.by = <<"close", q>>
               PROVE  writing'[q].by \in {"expiry", "cancel"} /\ q \in DOMAIN l.run
    BY <1>5
  <2>1. writing[q].by \in {"expiry", "cancel"} /\ q \in DOMAIN l.run
    BY <1>2 DEF FenceSound
  <2>2. writing'[q] = writing[q]
    BY <1>1, <1>2, <1>4, <2>1 DEF WritesSound
  <2> QED BY <2>1, <2>2
<1>14. \A b \in Attempts : m.by = <<"report", b>> => answer'[b] = "settle"
  <2> SUFFICES ASSUME NEW b \in Attempts, l.by = <<"report", b>>
               PROVE  answer'[b] = "settle"
    BY <1>5
  <2>1. answer[b] = "settle"
    BY <1>2 DEF FenceSound
  <2>2. answer[a] = "none" \/ a # b
    BY <1>1, <1>2, <1>9, <2>1, AttemptPair DEF AnswersSound, WriteSound, r
  <2> QED BY <1>1, <1>2, <2>1, <2>2 DEF AnswersSound
<1>15. t.batch.status \in BatchTerminal => m.batch.status \in BatchTerminal
  BY <1>2, <1>3, <1>5 DEF FenceSound
<1> QED
  BY <1>1, <1>4, <1>5, <1>10, <1>11, <1>12, <1>13, <1>14, <1>15 DEF FenceSound, u

\* The first half of completeAttempt commits.
LEMMA CommitReportKeeps ==
  ASSUME PgInv, NEW a \in Attempts, CommitReport(a)
  PROVE  PgInv'
<1> DEFINE r == a[1]
           w == writing[r]
           t == WithRowsOf(db, r)
<1>1. /\ w.by = "report" /\ db' = t /\ r \in Runs /\ a[2] = db.run[r].attempts
      /\ writing' = [writing EXCEPT ![r] = NothingWritten]
      /\ answer' = [answer EXCEPT ![a] = "committed"]
      /\ settling' = IF BatchFree THEN settling ELSE [settling EXCEPT !.stale = TRUE]
      /\ overlapped' = overlapped /\ failures' = failures
  BY AttemptPair DEF CommitReport, IsLatest
<1>2. /\ Consistent(db) /\ ClosedSettled(db) /\ WritesSound(db, writing)
      /\ AnswersSound(db, answer) /\ db \in Database
  BY DEF PgInv, Consistent
<1>3. /\ t \in Database /\ t.batch = db.batch
      /\ Flagged(w.run, t.run[r]) /\ \A q \in Runs \ {r} : t.run[q] = db.run[q]
  BY <1>1, <1>2, WithRowsFacts DEF WritesSound
<1>4. Consistent(t)
  BY <1>1, <1>2, WithRowsConsistent
<1>5. /\ db.run[r].status \in RunInFlight /\ t.run[r].attempts = db.run[r].attempts
      /\ t.run[r].status \notin RunInFlight /\ db.run[r].attempts \in Nat
  <2>1. /\ db.run[r].status \in RunInFlight /\ w.run.attempts = db.run[r].attempts
        /\ w.run.status \notin RunInFlight /\ db.run[r].attempts \in Nat
    BY <1>1, <1>2 DEF WritesSound, WriteSound, RunInFlight, RunTerminal, Database, RunRow
  <2> HIDE DEF t, w, r
  <2> QED BY <1>3, <2>1 DEF Flagged
<1> HIDE DEF t, w, r
<1>6. ClosedSettled(t)
  BY <1>1, <1>2, <1>3, <1>5 DEF ClosedSettled, AllSettled, RunInFlight, RunTerminal
<1>7. WritesSound(t, writing')
  <2>1. NothingWritten \in Rows
    BY DEF NothingWritten, Rows, CreatedRun, NoAttempt, RunRow, AttemptRow
  <2>2. /\ writing' \in [Runs -> Rows]
        /\ \A q \in Runs : writing'[q] = IF q = r THEN NothingWritten ELSE writing[q]
    BY <1>1, <1>2, <2>1 DEF WritesSound
  <2>3. WriteSound(t, r, NothingWritten)
    BY DEF WriteSound, NothingWritten
  <2>4. \A q \in Runs \ {r} : WriteSound(t, q, writing[q])
    BY <1>2, <1>3 DEF WritesSound, WriteSound
  <2> QED BY <2>2, <2>3, <2>4 DEF WritesSound
<1>8. AnswersSound(t, answer')
  <2>1. /\ answer' \in [Attempts -> AnswerStates]
        /\ \A b \in Attempts : answer'[b] = IF b = a THEN "committed" ELSE answer[b]
    BY <1>1, <1>2 DEF AnswersSound, AnswerStates
  <2>2. \A q \in Runs : /\ t.run[q].attempts = db.run[q].attempts
                        /\ t.run[q].status \in RunInFlight => db.run[q].status \in RunInFlight
    BY <1>3, <1>5
  <2>3. a[2] <= t.run[a[1]].attempts /\ t.run[a[1]].status \notin RunInFlight
    BY <1>1, <1>3, <1>5, <2>2 DEF r
  <2> QED BY <1>2, <2>1, <2>2, <2>3, AttemptPair DEF AnswersSound
<1>9. settling'.phase # "idle" => FenceSound(t, writing', settling', answer')
  <2>1. CASE settling.phase = "idle"
    BY <1>1, <2>1 DEF BatchFree
  <2>2. CASE settling.phase # "idle"
    BY <1>1, <2>2, CommitReportFence
  <2> QED BY <2>1, <2>2
<1>10. Promised(t, settling', answer', overlapped)
  <2>1. answer'[a] = "committed"
    BY <1>1, <1>2 DEF AnswersSound
  <2>2. Open(answer', a)
    BY <2>1 DEF Open
  <2>3. CASE settling.phase = "idle"
    BY <1>1, <2>2, <2>3 DEF Promised, BatchFree
  <2>4. CASE settling.phase # "idle"
    <3>1. FenceSound(db, writing, settling, answer) /\ settling' = [settling EXCEPT !.stale = TRUE]
      BY <1>1, <2>4 DEF PgInv, BatchFree
    <3>2. settling' \in FencesOf(DOMAIN settling.run) /\ settling'.stale = TRUE
      BY <3>1, StaleFence DEF FenceSound
    <3>3. settling'.by # <<"report", a>>
      BY <1>9, <2>1, <3>1, <3>2, StaleFence, <2>4 DEF FenceSound
    <3> QED BY <2>2, <3>2, <3>3 DEF Promised
  <2> QED BY <2>3, <2>4
<1> QED BY <1>1, <1>4, <1>6, <1>7, <1>8, <1>9, <1>10 DEF PgInv
\* commitWithInFlightPresence and repairBatchSettlementIfStalled: who sees work
\* in flight leaves the batch to it, unless all of it is fenced by a transaction
\* that had decided before.
LEMMA AnswerKeeps ==
  ASSUME PgInv, NEW a \in Attempts, answer[a] \in {"committed", "unanswered"},
         AnswerIfInFlight(a, RunsIn(db, RunInFlight)),
         UNCHANGED <<db, writing, settling, failures>>
  PROVE  PgInv'
<1> DEFINE inFlight == RunsIn(db, RunInFlight)
           l == settling
           v == Seen(db, l)
<1>1. /\ answer' = [answer EXCEPT ![a] = IF inFlight # {} THEN "answered" ELSE "settle"]
      /\ overlapped' <=> \/ overlapped
                         \/ /\ inFlight # {} /\ l.phase # "idle" /\ l.stale
                            /\ \A r \in inFlight : r \in DOMAIN l.run
      /\ db' = db /\ writing' = writing /\ settling' = l /\ failures' = failures
  BY Zenon DEF AnswerIfInFlight, BatchFree, Fences
<1>2. /\ AnswersSound(db, answer) /\ Promised(db, l, answer, overlapped)
      /\ db \in Database /\ overlapped \in BOOLEAN
  BY DEF PgInv, Consistent
<1>3. inFlight # {} => SettledIn(db)
  BY WorkSettles DEF RunsIn
<1> HIDE DEF l
<1>4. ASSUME l.phase # "idle", inFlight # {}, ~overlapped'
      PROVE  WillSettle(db, l)
  <2>1. CASE ~l.stale
    BY <1>2, <1>4, <2>1 DEF Promised
  <2>2. CASE l.stale
    <3>1. PICK r \in inFlight : r \notin DOMAIN l.run
      BY <1>1, <1>4, <2>2
    <3>2. DOMAIN l.run \subseteq Runs /\ l \in FencesOf(DOMAIN l.run)
      BY <1>4 DEF PgInv, FenceSound, l
    <3>3. v.run[r] = db.run[r]
      BY <1>2, <3>1, <3>2, SeenFacts DEF RunsIn
    <3>4. v.run[r].status \in RunInFlight /\ r \in Runs
      BY <3>1, <3>3 DEF RunsIn
    <3> HIDE DEF v
    <3>5. SettledIn(v)
      BY <3>4, WorkSettles
    <3> QED BY <3>5 DEF WillSettle, SettledIn, v
  <2> QED BY <2>1, <2>2
<1> HIDE DEF inFlight
<1>5. /\ answer' \in [Attempts -> AnswerStates]
      /\ \A b \in Attempts : b # a => answer'[b] = answer[b]
      /\ inFlight = {} => answer'[a] = "settle"
  BY <1>1, <1>2 DEF AnswersSound, AnswerStates
<1>6. AnswersSound(db, answer')
  BY <1>2, <1>5 DEF AnswersSound
<1>7. l.phase # "idle" => FenceSound(db, writing, l, answer')
  BY <1>5 DEF PgInv, FenceSound, l
<1>8. inFlight = {} => \A b \in Attempts : Open(answer, b) => Open(answer', b)
  BY <1>5 DEF Open
<1>9. Promised(db, l, answer', overlapped')
  <2>1. CASE inFlight # {}
    BY <1>2, <1>3, <1>4, <2>1 DEF Promised
  <2>2. CASE inFlight = {}
    <3>1. overlapped' <=> overlapped
      BY <1>1, <2>2
    <3> QED BY <1>2, <1>8, <2>2, <3>1 DEF Promised
  <2> QED BY <2>1, <2>2
<1>10. overlapped' \in BOOLEAN
  BY DEF AnswerIfInFlight
<1> QED BY <1>1, <1>6, <1>7, <1>9, <1>10 DEF PgInv, l

\* The second half of completeAttempt looks for work in flight.
LEMMA LookForWorkKeeps ==
  ASSUME PgInv, NEW a \in Attempts, LookForWorkInFlight(a)
  PROVE  PgInv'
  BY AnswerKeeps DEF LookForWorkInFlight

\* A report that is repeated looks again, unless the batch is closed.
LEMMA RepeatReportKeeps ==
  ASSUME PgInv, NEW a \in Attempts, RepeatReport(a)
  PROVE  PgInv'
<1>1. CASE db.batch.status \notin BatchTerminal
  BY <1>1, AnswerKeeps DEF RepeatReport
<1>2. CASE db.batch.status \in BatchTerminal
  <2> DEFINE l == settling
             v == Seen(db, l)
  <2>1. /\ answer' = [answer EXCEPT ![a] = "answered"] /\ answer[a] = "unanswered"
        /\ db' = db /\ writing' = writing /\ settling' = l /\ failures' = failures
        /\ overlapped' = overlapped
    BY <1>2 DEF RepeatReport
  <2>2. /\ AnswersSound(db, answer) /\ SettledIn(db)
        /\ l.phase # "idle" => FenceSound(db, writing, l, answer)
    BY <1>2, AllSettledRound DEF PgInv, ClosedSettled, SettledIn
  <2> HIDE DEF l
  <2>3. /\ answer' \in [Attempts -> AnswerStates]
        /\ \A b \in Attempts : b # a => answer'[b] = answer[b]
    BY <2>1, <2>2 DEF AnswersSound, AnswerStates
  <2>4. AnswersSound(db, answer')
    BY <2>1, <2>2, <2>3 DEF AnswersSound
  <2>5. l.phase # "idle" => FenceSound(db, writing, l, answer')
    BY <2>1, <2>2, <2>3 DEF FenceSound
  <2>6. l.phase # "idle" => WillSettle(db, l)
    <3> SUFFICES ASSUME l.phase # "idle"
                 PROVE  WillSettle(db, l)
      OBVIOUS
    <3>1. v.batch.status \in BatchTerminal /\ ClosedSettled(v)
      BY <1>2, <2>2 DEF FenceSound, Seen
    <3> HIDE DEF v
    <3>2. SettledIn(v)
      BY <3>1, AllSettledRound DEF ClosedSettled, SettledIn
    <3> QED BY <3>2 DEF WillSettle, SettledIn, v
  <2>7. Promised(db, l, answer', overlapped)
    BY <2>2, <2>6 DEF Promised
  <2> QED BY <2>1, <2>4, <2>5, <2>7 DEF PgInv, l
<1> QED BY <1>1, <1>2

-----------------------------------------------------------------------------
(* Steps that move no run and no attempt.                                  *)

\* They wait for the rows of the runs they change, but for a deadline, a flag and
\* a renewal; and whoever fences a run lets nobody change its own row.
Local ==
  /\ db' \in Database /\ db'.batch = db.batch /\ db'.recovery = db.recovery
  /\ \A r \in Runs : /\ Touches(db, db', r) /\ Carries(db, db', r)
                     /\ Fences(r) => db'.run[r] = db.run[r]
                     /\ ~RowsFree(r) =>
                          /\ Flagged(db.run[r], db'.run[r])
                          /\ \A n \in AttemptNumbers :
                               Lapsed(db.attempt[<<r, n>>], db'.attempt[<<r, n>>])
  /\ NothingOpenChanges

LEMMA LocalKeeps ==
  ASSUME PgInv, Local
  PROVE  PgInv'
<1> DEFINE t == db'
           l == settling
           v == Seen(db, l)
           u == Seen(t, l)
<1>1. /\ t \in Database /\ t.batch = db.batch /\ t.recovery = db.recovery
      /\ \A r \in Runs : Touches(db, t, r)
      /\ writing' = writing /\ settling' = l /\ answer' = answer /\ overlapped' = overlapped
      /\ failures' = failures
  BY DEF Local, NothingOpenChanges
<1>2. /\ Consistent(db) /\ ClosedSettled(db) /\ WritesSound(db, writing)
      /\ AnswersSound(db, answer) /\ db \in Database
  BY DEF PgInv, Consistent
<1> HIDE DEF t
<1>4. \A r \in Runs : /\ t.run[r].status = db.run[r].status /\ t.run[r].held = db.run[r].held
                      /\ t.run[r].attempts = db.run[r].attempts /\ t.run[r].round = db.run[r].round
  BY <1>1 DEF Touches
<1>5. Consistent(t)
  <2>1. \A r \in Runs : FineAt(db, r)
    BY <1>2, FineEverywhere
  <2>2. \A r \in Runs : FineAt(t, r)
    BY <1>1, <2>1, TouchFine
  <2> QED BY <1>1, <2>2, FineEverywhere
<1>6. ClosedSettled(t) /\ (SettledIn(db) => SettledIn(t))
  <2>1. AllSettled(t) <=> AllSettled(db)
    BY <1>4 DEF AllSettled
  <2>2. RoundSettled(db) => RoundSettled(t)
    BY <1>1, <1>4, RoundSettledSame
  <2> QED BY <1>1, <1>2, <2>1, <2>2 DEF ClosedSettled, SettledIn
<1>7. WritesSound(t, writing) /\ AnswersSound(t, answer)
  BY <1>2, <1>4, AttemptPair DEF WritesSound, WriteSound, AnswersSound
<1>8. ASSUME l.phase # "idle"
       PROVE  /\ FenceSound(t, writing, l, answer)
              /\ WillSettle(db, l) => WillSettle(t, l)
  <2>1. FenceSound(db, writing, l, answer)
    BY <1>8 DEF PgInv
  <2> HIDE DEF l
  <2>2. /\ DOMAIN l.run \subseteq Runs /\ l \in FencesOf(DOMAIN l.run)
        /\ Consistent(v) /\ ClosedSettled(v)
    BY <2>1 DEF FenceSound
  <2>3. /\ v.batch = l.batch /\ v.recovery = l.recovery
        /\ \A r \in Runs : v.run[r] = IF r \in DOMAIN l.run THEN l.run[r] ELSE db.run[r]
        /\ \A r \in Runs, n \in AttemptNumbers :
             v.attempt[<<r, n>>] = IF r \in DOMAIN l.run THEN l.attempt[<<r, n>>]
                                   ELSE db.attempt[<<r, n>>]
    BY <1>2, <2>2, SeenFacts
  <2>4. /\ u \in Database /\ u.batch = l.batch /\ u.recovery = l.recovery
        /\ \A r \in Runs : u.run[r] = IF r \in DOMAIN l.run THEN l.run[r] ELSE t.run[r]
        /\ \A r \in Runs, n \in AttemptNumbers :
             u.attempt[<<r, n>>] = IF r \in DOMAIN l.run THEN l.attempt[<<r, n>>]
                                   ELSE t.attempt[<<r, n>>]
    BY <1>1, <2>2, SeenFacts
  <2> HIDE DEF u, v
  <2>5. \A r \in DOMAIN l.run : SameRows(v, u, r)
    BY <2>2, <2>3, <2>4 DEF SameRows
  <2>6. \A r \in Runs \ DOMAIN l.run : Touches(v, u, r)
    BY <1>1, <2>3, <2>4 DEF Touches
  <2>7. \A r \in Runs : FineAt(v, r)
    BY <2>2, FineEverywhere
  <2>8. \A r \in Runs : FineAt(u, r)
    BY <2>2, <2>3, <2>4, <2>5, <2>6, <2>7, SameFine, TouchFine
  <2>9. Consistent(u)
    BY <2>4, <2>8, FineEverywhere
  <2>10. \A r \in Runs : u.run[r].status = v.run[r].status /\ u.run[r].held = v.run[r].held
    BY <1>4, <2>3, <2>4
  <2>11. AllSettled(u) <=> AllSettled(v)
    BY <2>10 DEF AllSettled
  <2>12. RoundSettled(v) => RoundSettled(u)
    BY <2>3, <2>4, <2>10, RoundSettledSame
  <2>13. FenceSound(t, writing, l, answer)
    BY <1>1, <1>4, <2>1, <2>2, <2>3, <2>4, <2>9, <2>11 DEF FenceSound, ClosedSettled, u
  <2>14. WillSettle(db, l) => WillSettle(t, l)
    BY <2>3, <2>4, <2>11, <2>12 DEF WillSettle, SettledIn, u, v
  <2> QED BY <2>13, <2>14
<1>9. Promised(t, l, answer, overlapped)
  <2>1. Promised(db, l, answer, overlapped)
    BY DEF PgInv
  <2> HIDE DEF l
  <2> QED BY <1>6, <1>8, <2>1 DEF Promised
<1> QED BY <1>1, <1>5, <1>6, <1>7, <1>8, <1>9 DEF PgInv, t
\* The rows of one attempt change, but not its state.
LEMMA AttemptLocal ==
  ASSUME PgInv, NEW a \in Attempts, NEW row \in AttemptRow, RowShape(row),
         row.status = db.attempt[a].status, db' = [db EXCEPT !.attempt[a] = row],
         AttemptKept(db.attempt[a], row), RowsFree(a[1]) \/ Lapsed(db.attempt[a], row),
         NothingOpenChanges
  PROVE  Local
<1>1. /\ db \in Database
      /\ \A r \in Runs, n \in AttemptNumbers : RowShape(db.attempt[<<r, n>>])
      /\ \A r \in Runs : db.run[r].cancel \in BOOLEAN
  BY DEF PgInv, Consistent, Database, RunRow
<1> DEFINE t == [db EXCEPT !.attempt[a] = row]
<1>2. /\ t \in Database /\ t.batch = db.batch /\ t.recovery = db.recovery /\ t.run = db.run
      /\ t.attempt = [db.attempt EXCEPT ![a] = row]
  BY <1>1 DEF Database
<1> HIDE DEF t
<1>3. \A r \in Runs, n \in AttemptNumbers :
        t.attempt[<<r, n>>] = IF <<r, n>> = a THEN row ELSE db.attempt[<<r, n>>]
  BY <1>1, <1>2 DEF Database, Attempts
<1>4. \A r \in Runs : Touches(db, t, r)
  BY <1>1, <1>2, <1>3 DEF Touches
<1>5. \A r \in Runs : Carries(db, t, r)
  BY <1>2, <1>3, StillKept DEF Carries
<1>6. \A row1 : Lapsed(row1, row1) /\ Flagged(row1, row1)
  BY DEF Lapsed, Flagged
<1>7. ASSUME NEW r \in Runs, ~RowsFree(r), NEW n \in AttemptNumbers
      PROVE  Lapsed(db.attempt[<<r, n>>], t.attempt[<<r, n>>])
  <2>1. CASE <<r, n>> = a
    BY <1>3, <1>7, <2>1
  <2>2. CASE <<r, n>> # a
    BY <1>3, <1>6, <2>2
  <2> QED BY <2>1, <2>2
<1> QED BY <1>2, <1>4, <1>5, <1>6, <1>7 DEF Local, t

\* The rows of an attempt, and what a lease says of them.
LEMMA PgRow ==
  ASSUME PgInv, NEW a \in Attempts
  PROVE  /\ db.attempt[a] \in AttemptRow /\ RowShape(db.attempt[a])
         /\ db.attempt[a].lease = "active" => db.attempt[a].status = "running"
<1>1. db.attempt[a] \in AttemptRow /\ RowShape(db.attempt[a])
  BY AttemptPair DEF PgInv, Consistent, Database
<1> QED BY <1>1 DEF RowShape, AttemptRow, RunInFlight, AttemptTerminal, NoAttempt

\* renewLease
LEMMA RenewLocal ==
  ASSUME PgInv, NEW a \in Attempts, Renew(a)
  PROVE  Local
<1> DEFINE old == db.attempt[a]
           row == [old EXCEPT !.assignment = "running"]
<1>1. db' = [db EXCEPT !.attempt[a] = row] /\ NothingOpenChanges /\ RowsFree(a[1])
  BY DEF Renew, RenewLease
<1>2. old \in AttemptRow /\ RowShape(old) /\ old.status = "running"
  BY PgRow DEF Renew, RenewLease, Leased
<1> HIDE DEF old
<1>3. row \in AttemptRow /\ RowShape(row) /\ row.status = old.status
  BY <1>2 DEF AttemptRow, AssignmentOpen, RowShape, AttemptTerminal
<1>4. AttemptKept(old, row)
  BY <1>2 DEF AttemptKept, AttemptRow
<1> HIDE DEF row
<1> QED BY <1>1, <1>3, <1>4, AttemptLocal DEF old

\* A renewal that commits behind the back of whoever has read the lease.
LEMMA RenewInTimeLocal ==
  ASSUME PgInv, NEW a \in Attempts, RenewInTime(a)
  PROVE  Local
<1> DEFINE old == db.attempt[a]
           row == [old EXCEPT !.assignment = "running", !.due = @ \ {"lease"}]
<1>1. db' = [db EXCEPT !.attempt[a] = row] /\ NothingOpenChanges /\ old.lease = "active"
  BY DEF RenewInTime
<1>2. old \in AttemptRow /\ RowShape(old) /\ old.status = "running"
  BY <1>1, PgRow
<1> HIDE DEF old
<1>3. row \in AttemptRow /\ RowShape(row) /\ row.status = old.status
  BY <1>2 DEF AttemptRow, AssignmentOpen, RowShape, AttemptTerminal
<1>4. AttemptKept(old, row) /\ Lapsed(old, row)
  BY <1>2 DEF AttemptKept, Lapsed, AttemptRow
<1> HIDE DEF row
<1> QED BY <1>1, <1>3, <1>4, AttemptLocal DEF old

\* A report that comes too late writes its receipt only.
LEMMA LateReportLocal ==
  ASSUME PgInv, NEW a \in Attempts, LateReport(a)
  PROVE  Local
<1> DEFINE old == db.attempt[a]
           row == [old EXCEPT !.receipt = "late"]
<1>1. /\ db' = [db EXCEPT !.attempt[a] = row] /\ NothingOpenChanges /\ RowsFree(a[1])
      /\ old.lease # "none" /\ old.receipt = "none"
  BY DEF LateReport, CompleteLate, NothingOpenChanges
<1>2. old \in AttemptRow /\ RowShape(old)
  BY PgRow
<1> HIDE DEF old
<1>3. row \in AttemptRow /\ RowShape(row) /\ row.status = old.status
  BY <1>1, <1>2 DEF AttemptRow, RowShape, NoAttempt, AttemptTerminal
<1>4. AttemptKept(old, row)
  BY <1>1, <1>2 DEF AttemptKept, AttemptRow
<1> HIDE DEF row
<1> QED BY <1>1, <1>3, <1>4, AttemptLocal DEF old

\* A deadline is reached.
LEMMA LapseLocal ==
  ASSUME PgInv, NEW a \in Attempts, NEW d \in Deadlines, Lapse(a, d)
  PROVE  Local
<1> DEFINE old == db.attempt[a]
           row == [old EXCEPT !.due = @ \cup {d}]
<1>1. /\ db' = [db EXCEPT !.attempt[a] = row] /\ NothingOpenChanges
      /\ old.assignment = "pending" \/ old.lease = "active"
  BY DEF Lapse, ReachDeadline, Armed
<1>2. old \in AttemptRow /\ RowShape(old)
  BY PgRow
<1> HIDE DEF old
<1>3. row \in AttemptRow /\ RowShape(row) /\ row.status = old.status
  BY <1>1, <1>2 DEF AttemptRow, RowShape, NoAttempt, AttemptTerminal
<1>4. AttemptKept(old, row) /\ Lapsed(old, row)
  BY <1>2 DEF AttemptKept, Lapsed, AttemptRow
<1> HIDE DEF row
<1> QED BY <1>1, <1>3, <1>4, AttemptLocal DEF old

\* The queue window of a run ends.
LEMMA LapseInQueueLocal ==
  ASSUME PgInv, NEW r \in Runs, LapseInQueue(r)
  PROVE  Local
<1> DEFINE old == db.run[r]
           row == [old EXCEPT !.queueDue = TRUE]
           t == [db EXCEPT !.run[r] = row]
<1>1. /\ db' = t /\ NothingOpenChanges /\ RowsFree(r) /\ old.status = "queued"
  BY DEF LapseInQueue, ReachQueueDeadline, Schedulable
<1>2. /\ db \in Database /\ old \in RunRow
      /\ \A q \in Runs, n \in AttemptNumbers : RowShape(db.attempt[<<q, n>>])
  BY DEF PgInv, Consistent, Database
<1> HIDE DEF old
<1>3. /\ row \in RunRow /\ row.status = "queued" /\ row.held = old.held
      /\ row.round = old.round /\ row.attempts = old.attempts
  BY <1>1, <1>2 DEF RunRow
<1> HIDE DEF row
<1>4. /\ t \in Database /\ t.batch = db.batch /\ t.recovery = db.recovery
      /\ t.attempt = db.attempt /\ t.run = [db.run EXCEPT ![r] = row]
  BY <1>2, <1>3 DEF Database
<1> HIDE DEF t
<1>5. \A q \in Runs : t.run[q] = IF q = r THEN row ELSE db.run[q]
  BY <1>2, <1>4 DEF Database
<1>6. \A q \in Runs : Touches(db, t, q)
  BY <1>1, <1>2, <1>3, <1>4, <1>5 DEF Touches, old
<1>7. \A q \in Runs : Carries(db, t, q)
  BY <1>1, <1>3, <1>4, <1>5, StillKept DEF Carries, RunTerminal, old
<1>8. \A q \in Runs, n \in AttemptNumbers : Lapsed(db.attempt[<<q, n>>], t.attempt[<<q, n>>])
  BY <1>4 DEF Lapsed
<1>9. \A q \in Runs : (~RowsFree(q) => Flagged(db.run[q], t.run[q])) /\ (Fences(q) => t.run[q] = db.run[q])
  BY <1>1, <1>5 DEF Flagged, RowsFree
<1> QED BY <1>1, <1>4, <1>6, <1>7, <1>8, <1>9 DEF Local

\* A run under a lease is asked to stop.
LEMMA AskToCancelLocal ==
  ASSUME PgInv, NEW r \in Runs, AskToCancel(r)
  PROVE  Local
<1> DEFINE n == db.run[r].attempts
           old == db.attempt[<<r, n>>]
           run == [db.run[r] EXCEPT !.cancel = TRUE]
           row == [old EXCEPT !.cancel = TRUE]
           t == [db EXCEPT !.run[r] = run, !.attempt[<<r, n>>] = row]
<1>1. db' = t /\ NothingOpenChanges /\ ~Fences(r)
  BY DEF AskToCancel, CancelLeasedRun, Latest
<1>2. /\ db \in Database /\ RowsAgree(db) /\ db.run[r] \in RunRow
      /\ \A q \in Runs, m \in AttemptNumbers : RowShape(db.attempt[<<q, m>>])
  BY DEF PgInv, Consistent, Database
<1>3. /\ n \in AttemptNumbers /\ <<r, n>> \in Attempts /\ old.lease = "active"
  BY <1>2 DEF AskToCancel, CancelLeasedRun, HasLease, Latest, Leased, RowsAgree, Attempts
<1>4. old \in AttemptRow /\ RowShape(old) /\ old.status = "running"
  BY <1>3, PgRow
<1>5. db.run[r].status = "running"
  BY <1>2, <1>3, <1>4 DEF RowsAgree, RunInFlight
<1>6. /\ run \in RunRow /\ run.status = db.run[r].status /\ run.attempts = db.run[r].attempts
      /\ run.held = db.run[r].held /\ run.round = db.run[r].round
      /\ run.queueDue = db.run[r].queueDue
  BY <1>2 DEF RunRow
<1>7. row \in AttemptRow /\ RowShape(row) /\ row.status = old.status
  BY <1>4 DEF AttemptRow, RowShape, AttemptTerminal
<1>7a. row.code = old.code /\ row.lease = old.lease /\ row.receipt = old.receipt
  BY <1>4 DEF AttemptRow
<1> HIDE DEF run, row
<1>8. /\ t \in Database /\ t.batch = db.batch /\ t.recovery = db.recovery
      /\ t.run = [db.run EXCEPT ![r] = run]
      /\ t.attempt = [db.attempt EXCEPT ![<<r, n>>] = row]
  BY <1>2, <1>6, <1>7 DEF Database
<1> HIDE DEF t
<1>9. /\ \A q \in Runs : t.run[q] = IF q = r THEN run ELSE db.run[q]
      /\ \A q \in Runs, m \in AttemptNumbers :
           t.attempt[<<q, m>>] = IF <<q, m>> = <<r, n>> THEN row ELSE db.attempt[<<q, m>>]
  BY <1>2, <1>8 DEF Database, Attempts
<1>10. AttemptKept(old, row) /\ Lapsed(old, row)
  <2> HIDE DEF old
  <2> QED BY <1>7, <1>7a DEF AttemptKept, Lapsed
<1> HIDE DEF n
<1>11. \A q \in Runs : Touches(db, t, q)
  BY <1>2, <1>5, <1>6, <1>7, <1>9 DEF Touches
<1>12. \A q \in Runs : Carries(db, t, q)
  BY <1>5, <1>6, <1>9, <1>10, StillKept DEF Carries, RunTerminal
<1>13. \A q \in Runs, m \in AttemptNumbers : Lapsed(db.attempt[<<q, m>>], t.attempt[<<q, m>>])
  <2>1. \A row1 : Lapsed(row1, row1)
    BY DEF Lapsed
  <2> QED BY <1>9, <1>10, <2>1
<1>14. \A q \in Runs : Flagged(db.run[q], t.run[q]) /\ (Fences(q) => t.run[q] = db.run[q])
  BY <1>1, <1>6, <1>9 DEF Flagged
<1> QED BY <1>1, <1>8, <1>11, <1>12, <1>13, <1>14 DEF Local
-----------------------------------------------------------------------------
(* A transaction writes the rows of its run.                               *)

Opens ==
  /\ db' = db /\ settling' = settling
  /\ \A r \in Runs : writing'[r] = writing[r] \/ WriteKeeps(db, r, writing'[r])

LEMMA OpenKeeps ==
  ASSUME PgInv, NEW r \in Runs, NEW w \in Rows, w.by # "nobody", WriteSound(db, r, w),
         WriteKeeps(db, r, w), RowsFree(r), writing' = [writing EXCEPT ![r] = w],
         UNCHANGED <<db, settling, answer, overlapped, failures>>
  PROVE  PgInv' /\ Opens
<1>1. /\ writing' \in [Runs -> Rows]
      /\ \A q \in Runs : writing'[q] = IF q = r THEN w ELSE writing[q]
  BY DEF PgInv, WritesSound
<1>2. WritesSound(db, writing')
  BY <1>1 DEF PgInv, WritesSound
<1>3. settling.phase # "idle" => FenceSound(db, writing', settling, answer)
  <2> SUFFICES ASSUME settling.phase # "idle"
               PROVE  FenceSound(db, writing', settling, answer)
    OBVIOUS
  <2>1. FenceSound(db, writing, settling, answer) /\ r \notin DOMAIN settling.run
    BY DEF PgInv, RowsFree, Fences
  <2> QED BY <1>1, <2>1 DEF FenceSound
<1>4. Opens
  BY <1>1 DEF Opens
<1> QED BY <1>2, <1>3, <1>4 DEF PgInv

\* openCompletion: the report ends its attempt, and its run or the attempt at it.
LEMMA OpenReportKeeps ==
  ASSUME PgInv, NEW a \in Attempts, NEW result \in Results, OpenReport(a, result)
  PROVE  PgInv' /\ Opens
<1> DEFINE r == a[1]
           old == db.attempt[a]
           res == EffectiveResult(db, a, result)
           ended == Ended(old, res.status, res.code, "completed", "released")
           row == [ended EXCEPT !.receipt = "accepted"]
           run == RunAfter(db, r, res.status, res.code)
           w == [by |-> "report", run |-> run, attempt |-> row]
<1>1. /\ r \in Runs /\ RowsFree(r) /\ writing' = [writing EXCEPT ![r] = w]
      /\ old.status \in RunInFlight /\ old.receipt = "none"
      /\ UNCHANGED <<db, settling, answer, overlapped, failures>>
  BY AttemptPair DEF OpenReport
<1>2. /\ Consistent(db) /\ old \in AttemptRow
  BY PgRow DEF PgInv
<1>3. /\ res.status \in AttemptTerminal /\ res.code \in CodeClasses
      /\ db.run[r].cancel => res.status = "cancelled"
  <2>1. result \in AllResults
    BY ControlAssumption
  <2>2. result.status \in AttemptTerminal /\ result.code \in CodeClasses
    BY <2>1 DEF AllResults, AttemptTerminal, CodeClasses
  <2> QED BY <2>2, Words DEF EffectiveResult
<1>3a. a = <<r, db.run[r].attempts>>
  BY <1>1, <1>2, AttemptPair DEF Consistent, RowsAgree
<1>4. db.run[r].status \in RunInFlight
  BY <1>1, <1>2, AttemptPair DEF Consistent, RowsAgree
<1> HIDE DEF old
<1>5. \A st \in AttemptTerminal, c \in CodeClasses :
        LET e == Ended(old, st, c, "completed", "released")
        IN  /\ e \in AttemptRow /\ e.status = st
            /\ e.assignment = "completed" /\ e.lease = "released"
  BY <1>2, Words, EndedType
<1> HIDE DEF res
<1>5a. /\ ended \in AttemptRow /\ ended.status = res.status
       /\ ended.assignment = "completed" /\ ended.lease = "released"
  BY <1>3, <1>5
<1> HIDE DEF ended
<1>6. row \in AttemptRow /\ RowShape(row) /\ row.status \in AttemptTerminal
  BY <1>3, <1>5a DEF AttemptRow, RowShape, AttemptTerminal
<1>6a. row.receipt = "accepted"
  BY <1>5a DEF AttemptRow
<1> HIDE DEF row
<1>7. db.run[r].cancel => res.status # "succeeded"
  BY <1>3
<1>8. /\ run \in RunRow /\ run.status \in {"queued"} \cup RunTerminal
      /\ run.attempts = db.run[r].attempts /\ ~run.queueDue
      /\ run.status = "queued" =>
           IF run.held = 0 THEN RetryMode = "round" => run.round = db.batch.round
           ELSE /\ RetryMode = "round"
                /\ run.held = db.batch.round + 1 /\ run.round = run.held
  BY <1>1, <1>2, <1>3, <1>4, <1>7, RunAfterRow
<1> HIDE DEF run
<1>9. RetryMode = "round" => db.run[r].round = db.batch.round
  BY <1>1, <1>2, <1>4 DEF Consistent, RoundsAgree, RunInFlight, RunTerminal
<1>10. w \in Rows /\ w.by = "report" /\ w.run = run /\ w.attempt = row
  BY <1>6, <1>8 DEF Rows
<1> HIDE DEF w, r
<1>11. WriteSound(db, r, w)
  BY <1>4, <1>6, <1>8, <1>9, <1>10 DEF WriteSound, RunInFlight, RunTerminal
<1>12. WriteKeeps(db, r, w)
  <2>1. AttemptKept(old, row)
    BY <1>1, <1>6 DEF AttemptKept
  <2>2. db.attempt[<<r, db.run[r].attempts>>] = old
    BY <1>1, <1>2, <1>3a DEF old
  <2> QED BY <1>4, <1>10, <2>1, <2>2 DEF WriteKeeps, RunInFlight
<1> QED BY <1>1, <1>10, <1>11, <1>12, OpenKeeps

\* The expiry of work, leased or unclaimed.
LEMMA OpenExpiryKeeps ==
  ASSUME PgInv, NEW a \in Attempts, db.attempt[a].status \in RunInFlight,
         NEW l \in {"none", "expired"}, NEW c \in {"abnormal", "runner"}, OpenExpiry(a, l, c)
  PROVE  PgInv' /\ Opens
<1> DEFINE r == a[1]
           old == db.attempt[a]
           row == Ended(old, "timed_out", c, "expired", l)
           run == RunAfter(db, r, "timed_out", c)
           w == [by |-> "expiry", run |-> run, attempt |-> row]
<1>1. /\ r \in Runs /\ RowsFree(r) /\ writing' = [writing EXCEPT ![r] = w]
      /\ UNCHANGED <<db, settling, answer, overlapped, failures>>
  BY AttemptPair DEF OpenExpiry, OpenClose
<1>2. Consistent(db) /\ old \in AttemptRow /\ RowShape(old) /\ old.status \in RunInFlight
  BY PgRow DEF PgInv
<1>3. db.run[r].status \in RunInFlight /\ a = <<r, db.run[r].attempts>>
  BY <1>2, AttemptPair DEF Consistent, RowsAgree
<1> HIDE DEF old
<1>4. l \in Leases /\ c \in CodeClasses
  BY DEF Leases, CodeClasses
<1>5. /\ row \in AttemptRow /\ row.status = "timed_out"
      /\ row.assignment = "expired" /\ row.lease = l /\ row.receipt = old.receipt
  BY <1>2, <1>4, Words, EndedType
<1> HIDE DEF row
<1>6. RowShape(row) /\ row.status \in AttemptTerminal
  BY <1>2, <1>5 DEF RowShape, AttemptTerminal, RunInFlight
<1>7. "timed_out" \in AttemptTerminal /\ "timed_out" # "succeeded"
  BY DEF AttemptTerminal
<1>8. /\ run \in RunRow /\ run.status \in {"queued"} \cup RunTerminal
      /\ run.attempts = db.run[r].attempts /\ ~run.queueDue
      /\ run.status = "queued" =>
           IF run.held = 0 THEN RetryMode = "round" => run.round = db.batch.round
           ELSE /\ RetryMode = "round"
                /\ run.held = db.batch.round + 1 /\ run.round = run.held
  BY <1>1, <1>2, <1>3, <1>4, <1>7, RunAfterRow
<1> HIDE DEF run
<1>9. RetryMode = "round" => db.run[r].round = db.batch.round
  BY <1>1, <1>2, <1>3 DEF Consistent, RoundsAgree, RunInFlight, RunTerminal
<1>10. w \in Rows /\ w.by = "expiry" /\ w.run = run /\ w.attempt = row
  BY <1>5, <1>8 DEF Rows
<1> HIDE DEF w, r
<1>11. WriteSound(db, r, w)
  BY <1>3, <1>6, <1>8, <1>9, <1>10 DEF WriteSound, RunInFlight, RunTerminal
<1>12. WriteKeeps(db, r, w)
  <2>1. AttemptKept(old, row)
    BY <1>2, <1>5, <1>6 DEF AttemptKept
  <2>2. db.attempt[<<r, db.run[r].attempts>>] = old
    BY <1>3 DEF old
  <2> QED BY <1>3, <1>10, <2>1, <2>2 DEF WriteKeeps, RunInFlight
<1> QED BY <1>1, <1>10, <1>11, <1>12, OpenKeeps

\* recoverExpired, of leased work and of work nobody claimed.
LEMMA OpenLeasedExpiryKeeps ==
  ASSUME PgInv, NEW a \in Attempts, OpenLeasedExpiry(a)
  PROVE  PgInv' /\ Opens
<1>1. ExpirationCode(db.attempt[a]) \in {"abnormal", "runner"}
  BY DEF ExpirationCode
<1> QED BY <1>1, OpenExpiryKeeps DEF OpenLeasedExpiry

LEMMA OpenUnclaimedExpiryKeeps ==
  ASSUME PgInv, NEW a \in Attempts, OpenUnclaimedExpiry(a)
  PROVE  PgInv' /\ Opens
<1>1. db.attempt[a].status \in RunInFlight /\ db.attempt[a].lease = "none"
  BY PgRow DEF OpenUnclaimedExpiry, RowShape, RunInFlight
<1> QED BY <1>1, OpenExpiryKeeps DEF OpenUnclaimedExpiry

\* The latest attempt of a run that is cancelled while it has no valid lease.
LEMMA CancelledAttemptRow ==
  ASSUME NEW old \in AttemptRow, RowShape(old), old.status # "absent"
  PROVE  LET row == CancelledAttempt(old)
         IN  /\ row \in AttemptRow /\ RowShape(row) /\ row.status \in AttemptTerminal
             /\ AttemptKept(old, row)
<1> DEFINE open  == old.assignment \in AssignmentOpen
           asg   == IF open THEN "cancelled" ELSE old.assignment
           lease == IF open /\ old.lease = "active" THEN "revoked" ELSE old.lease
           cut   == [old EXCEPT !.cancel = open \/ @, !.assignment = asg, !.lease = lease]
<1>1. CASE old.status \in AttemptTerminal
  <2>1. ~open /\ lease = old.lease /\ asg = old.assignment
    BY <1>1 DEF RowShape, AssignmentOpen
  <2>2. cut = old
    BY <2>1 DEF AttemptRow
  <2>3. CancelledAttempt(old) = cut
    BY <1>1 DEF CancelledAttempt
  <2>4. AttemptKept(old, old)
    BY StillKept
  <2> HIDE DEF cut
  <2> QED BY <1>1, <2>2, <2>3, <2>4
<1>2. CASE old.status \notin AttemptTerminal
  <2>1. old.status \in RunInFlight
    BY <1>2 DEF AttemptRow
  <2>2. open /\ asg = "cancelled" /\ lease \in {"none", "revoked"} /\ old.receipt # "accepted"
    BY <2>1 DEF RowShape, AssignmentOpen, RunInFlight
  <2>3. lease \in Leases
    BY <2>2 DEF Leases
  <2>4. CancelledAttempt(old) = Ended(cut, "cancelled", "cancelled", asg, lease)
    BY <1>2 DEF CancelledAttempt
  <2> HIDE DEF open, asg, lease
  <2>5. cut \in AttemptRow /\ cut.receipt = old.receipt
    <3>1. open \/ old.cancel \in BOOLEAN
      BY <2>2 DEF AttemptRow
    <3>2. (open \/ old.cancel) \in BOOLEAN
      BY <2>2
    <3> QED BY <2>2, <3>2 DEF AttemptRow
  <2> HIDE DEF cut
  <2> DEFINE row == Ended(cut, "cancelled", "cancelled", "cancelled", lease)
  <2>6. /\ row \in AttemptRow /\ row.status = "cancelled" /\ row.assignment = "cancelled"
        /\ row.lease = lease /\ row.receipt = cut.receipt
    BY <2>3, <2>5, Words, EndedType
  <2> HIDE DEF row
  <2>7. RowShape(row) /\ row.status \in AttemptTerminal
    BY <2>2, <2>5, <2>6 DEF RowShape, AttemptTerminal
  <2>8. AttemptKept(old, row)
    BY <2>1, <2>5, <2>6, <2>7 DEF AttemptKept
  <2> QED BY <2>2, <2>4, <2>6, <2>7, <2>8 DEF row
<1> QED BY <1>1, <1>2

\* cancelRun, of a run without a valid lease.
LEMMA OpenCancelKeeps ==
  ASSUME PgInv, NEW r \in Runs, OpenCancel(r)
  PROVE  PgInv' /\ Opens
<1> DEFINE old == db.run[r]
           n == old.attempts
           ended == RunEnded(old, "cancelled", "cancelled", "cancelled")
           run == [ended EXCEPT !.cancel = TRUE]
           row == IF n = 0 THEN NoAttempt ELSE CancelledAttempt(db.attempt[<<r, n>>])
           w == [by |-> "cancel", run |-> run, attempt |-> row]
<1>1. /\ RowsFree(r) /\ writing' = [writing EXCEPT ![r] = w]
      /\ UNCHANGED <<db, settling, answer, overlapped, failures>>
      /\ old.status \notin RunTerminal
  BY DEF OpenCancel, OpenClose, CancelledRun, Latest
<1>2. /\ RowsAgree(db) /\ old \in RunRow
  BY DEF PgInv, Consistent, Database
<1>3. /\ run \in RunRow /\ run.status = "cancelled" /\ run.attempts = n /\ ~run.queueDue
  <2>1. ended \in RunRow /\ ended.status = "cancelled" /\ ended.attempts = n
    BY <1>2, RunCancelled
  <2>2. ~ended.queueDue
    BY <1>2, RunEndedDue
  <2> HIDE DEF ended
  <2> QED BY <2>1, <2>2 DEF RunRow
<1> HIDE DEF run
<1>4. /\ row \in AttemptRow /\ RowShape(row)
      /\ n # 0 => row.status \in AttemptTerminal /\ AttemptKept(db.attempt[<<r, n>>], row)
  <2>1. CASE n = 0
    BY <2>1 DEF NoAttempt, AttemptRow, RowShape, RunInFlight, AttemptTerminal
  <2>2. CASE n # 0
    <3>1. /\ n \in AttemptNumbers /\ <<r, n>> \in Attempts
          /\ db.attempt[<<r, n>>].status # "absent"
      BY <1>2, <2>2 DEF RowsAgree, Attempts
    <3>2. db.attempt[<<r, n>>] \in AttemptRow /\ RowShape(db.attempt[<<r, n>>])
      BY <3>1, PgRow
    <3> QED BY <2>2, <3>1, <3>2, CancelledAttemptRow
  <2> QED BY <2>1, <2>2
<1> HIDE DEF row
<1>5. w \in Rows /\ w.by = "cancel" /\ w.run = run /\ w.attempt = row
  BY <1>3, <1>4 DEF Rows
<1> HIDE DEF w
<1>6. WriteSound(db, r, w)
  BY <1>1, <1>3, <1>4, <1>5 DEF WriteSound, RunTerminal
<1>7. WriteKeeps(db, r, w)
  BY <1>3, <1>4, <1>5 DEF WriteKeeps
<1> QED BY <1>1, <1>5, <1>6, <1>7, OpenKeeps
-----------------------------------------------------------------------------
(* Transactions that are lost.                                             *)

\* A transaction that holds the batch may be gone; nobody who would still look
\* at the batch is.
LEMMA LostKeeps ==
  ASSUME PgInv, db' = db, overlapped' = overlapped, failures' \in 0..MaxFailures,
         WritesSound(db, writing'), AnswersSound(db, answer'),
         \A a \in Attempts : Open(answer, a) => Open(answer', a),
         settling'.phase # "idle" =>
           settling' = settling /\ FenceSound(db, writing', settling, answer')
  PROVE  PgInv'
<1>1. Promised(db, settling', answer', overlapped)
  BY DEF PgInv, Promised
<1> QED BY <1>1 DEF PgInv

LEMMA MoreFailures ==
  ASSUME PgInv, Fail
  PROVE  failures' \in 0..MaxFailures /\ db' = db /\ overlapped' = overlapped
  BY PgAssumption DEF PgInv, Fail

\* Rows that were written are gone.
LEMMA RowsLost ==
  ASSUME PgInv, NEW r \in Runs, writing' = [writing EXCEPT ![r] = NothingWritten]
  PROVE  /\ WritesSound(db, writing')
         /\ \A q \in Runs : writing'[q] = IF q = r THEN NothingWritten ELSE writing[q]
<1>1. NothingWritten \in Rows
  BY DEF NothingWritten, Rows, CreatedRun, NoAttempt, RunRow, AttemptRow
<1>2. WriteSound(db, r, NothingWritten)
  BY DEF WriteSound, NothingWritten
<1>3. /\ writing' \in [Runs -> Rows]
      /\ \A q \in Runs : writing'[q] = IF q = r THEN NothingWritten ELSE writing[q]
  BY <1>1 DEF PgInv, WritesSound
<1> QED BY <1>2, <1>3 DEF PgInv, WritesSound

\* A transaction fails that has written the rows of a run.
LEMMA FailRowsKeeps ==
  ASSUME PgInv, NEW r \in Runs, FailRows(r)
  PROVE  PgInv'
<1>1. /\ WritesSound(db, writing')
      /\ \A q \in Runs : writing'[q] = IF q = r THEN NothingWritten ELSE writing[q]
  BY RowsLost DEF FailRows
<1>2. /\ failures' \in 0..MaxFailures /\ db' = db /\ overlapped' = overlapped
      /\ answer' = answer
  BY MoreFailures DEF FailRows
<1>3. ASSUME settling'.phase # "idle"
      PROVE  settling' = settling /\ FenceSound(db, writing', settling, answer)
  <2>1. settling' = settling /\ settling.phase # "idle" /\ settling.by # <<"close", r>>
    BY <1>3 DEF FailRows, BatchFree, NotSettling
  <2>2. FenceSound(db, writing, settling, answer) /\ DOMAIN settling.run \subseteq Runs
    BY <2>1 DEF PgInv, FenceSound
  <2>3. /\ \A q \in DOMAIN settling.run : writing'[q].by # "nobody" => settling.by = <<"close", q>>
        /\ \A q \in Runs : settling.by = <<"close", q>> => writing'[q].by \in {"expiry", "cancel"}
    BY <1>1, <2>1, <2>2 DEF FenceSound, NothingWritten
  <2> QED BY <2>1, <2>2, <2>3 DEF FenceSound
<1>4. AnswersSound(db, answer)
  BY DEF PgInv
<1> QED BY <1>1, <1>2, <1>3, <1>4, LostKeeps

\* Two transactions that would fence each other's rows: one of them is lost.
LEMMA BreakDeadlockKeeps ==
  ASSUME PgInv, NEW r \in Runs, BreakDeadlock(r)
  PROVE  PgInv'
<1>1. WritesSound(db, writing')
  BY RowsLost DEF BreakDeadlock
<1>2. /\ db' = db /\ overlapped' = overlapped /\ answer' = answer /\ failures' = failures
      /\ settling' = settling /\ settling.phase = "idle"
  BY DEF BreakDeadlock, BatchFree
<1>3. AnswersSound(db, answer) /\ failures \in 0..MaxFailures
  BY DEF PgInv
<1> QED BY <1>1, <1>2, <1>3, LostKeeps

\* A process ends between the commit of a report and its answer.
LEMMA FailAfterCommitKeeps ==
  ASSUME PgInv, NEW a \in Attempts, FailAfterCommit(a)
  PROVE  PgInv'
<1>1. /\ failures' \in 0..MaxFailures /\ db' = db /\ overlapped' = overlapped
      /\ writing' = writing /\ answer[a] \in {"committed", "settle"}
      /\ answer' = [answer EXCEPT ![a] = "unanswered"]
  BY MoreFailures DEF FailAfterCommit
<1>2. AnswersSound(db, answer) /\ WritesSound(db, writing)
  BY DEF PgInv
<1>3. /\ answer' \in [Attempts -> AnswerStates]
      /\ \A b \in Attempts : answer'[b] = IF b = a THEN "unanswered" ELSE answer[b]
  BY <1>1, <1>2 DEF AnswersSound, AnswerStates
<1>4. AnswersSound(db, answer')
  BY <1>1, <1>2, <1>3 DEF AnswersSound
<1>5. \A b \in Attempts : Open(answer, b) => Open(answer', b)
  BY <1>3 DEF Open
<1>6. ASSUME settling'.phase # "idle"
      PROVE  settling' = settling /\ FenceSound(db, writing, settling, answer')
  <2>1. settling' = settling /\ settling.phase # "idle" /\ settling.by # <<"report", a>>
    BY <1>6 DEF FailAfterCommit, BatchFree, NotSettling
  <2>2. FenceSound(db, writing, settling, answer)
    BY <2>1 DEF PgInv
  <2>3. \A b \in Attempts : settling.by = <<"report", b>> => answer'[b] = "settle"
    BY <1>3, <2>1, <2>2 DEF FenceSound
  <2> QED BY <2>1, <2>2, <2>3 DEF FenceSound
<1> QED BY <1>1, <1>2, <1>4, <1>5, <1>6, LostKeeps

\* The scan's transaction fails.
LEMMA FailScanKeeps ==
  ASSUME PgInv, FailScan
  PROVE  PgInv'
<1>1. /\ failures' \in 0..MaxFailures /\ db' = db /\ overlapped' = overlapped
      /\ writing' = writing /\ answer' = answer /\ settling'.phase = "idle"
  BY MoreFailures DEF FailScan, NotSettling
<1>2. AnswersSound(db, answer) /\ WritesSound(db, writing)
  BY DEF PgInv
<1> QED BY <1>1, <1>2, LostKeeps

-----------------------------------------------------------------------------
(* Transactions that lock what they change before they read it.            *)

\* They run while nobody holds the batch, and leave alone the runs whose rows
\* others have written; what was in flight before may end, and a new attempt
\* is not one whose report has been committed.
LEMMA FreeKeeps ==
  ASSUME PgInv, BatchFree, NothingOpenChanges, Consistent(db'), ClosedSettled(db'),
         SettledIn(db) => SettledIn(db'),
         \A r \in Runs :
           /\ writing[r].by # "nobody" => db'.run[r] = db.run[r]
           /\ \/ db'.run[r].attempts > db.run[r].attempts
              \/ /\ db'.run[r].attempts = db.run[r].attempts
                 /\ db'.run[r].status \in RunInFlight => db.run[r].status \in RunInFlight
  PROVE  PgInv'
<1> DEFINE t == db'
<1>1. /\ settling.phase = "idle" /\ writing' = writing /\ settling' = settling
      /\ answer' = answer /\ overlapped' = overlapped /\ failures' = failures
  BY DEF BatchFree, NothingOpenChanges
<1>2. /\ Consistent(t) /\ ClosedSettled(t) /\ (SettledIn(db) => SettledIn(t))
      /\ \A r \in Runs :
           /\ writing[r].by # "nobody" => t.run[r] = db.run[r]
           /\ \/ t.run[r].attempts > db.run[r].attempts
              \/ /\ t.run[r].attempts = db.run[r].attempts
                 /\ t.run[r].status \in RunInFlight => db.run[r].status \in RunInFlight
  OBVIOUS
<1> HIDE DEF t
<1>3. WritesSound(t, writing)
  BY <1>2 DEF PgInv, WritesSound, WriteSound
<1>4. AnswersSound(t, answer)
  <2>1. \A r \in Runs : db.run[r].attempts \in Nat /\ t.run[r].attempts \in Nat
    BY <1>2 DEF PgInv, Consistent, Database, RunRow
  <2>2. ASSUME NEW a \in Attempts, answer[a] # "none"
        PROVE  /\ a[2] <= t.run[a[1]].attempts
               /\ a[2] = t.run[a[1]].attempts => t.run[a[1]].status \notin RunInFlight
    <3>1. /\ a[2] <= db.run[a[1]].attempts /\ a[1] \in Runs /\ a[2] \in Nat
          /\ a[2] = db.run[a[1]].attempts => db.run[a[1]].status \notin RunInFlight
      BY <2>2, AttemptPair, ControlAssumption DEF PgInv, AnswersSound
    <3> QED BY <1>2, <2>1, <3>1
  <2> QED BY <2>2 DEF PgInv, AnswersSound
<1>5. Promised(t, settling, answer, overlapped)
  BY <1>1, <1>2 DEF PgInv, Promised
<1> QED BY <1>1, <1>2, <1>3, <1>4, <1>5 DEF PgInv, t

\* Rows that are waited for.
LEMMA UndisturbedRows ==
  ASSUME Undisturbed
  PROVE  \A r \in Runs : writing[r].by # "nobody" => db'.run[r] = db.run[r]
  BY DEF Undisturbed, ChangedRuns, RowsFree

\* An open batch is aggregated at the end of the transaction.
LEMMA AggregatedKeeps ==
  ASSUME PgInv, BatchFree, Undisturbed, NothingOpenChanges,
         NEW t, Consistent(t), t.batch.status \in BatchOpen, db' = UpdateBatchStatus(t),
         \A r \in Runs :
           /\ t.run[r].attempts = db.run[r].attempts
           /\ t.run[r].status \in RunInFlight => db.run[r].status \in RunInFlight
  PROVE  PgInv'
<1> DEFINE u == UpdateBatchStatus(t)
<1>1. /\ db' = u /\ SettledIn(u) /\ Settles(t, u) /\ Inv(u)
  BY UpdateSettled, UpdateSettles, UpdateBatchStatusInv
<1> HIDE DEF u
<1>2. Consistent(u) /\ ClosedSettled(u)
  BY <1>1 DEF Inv, ClosedSettled
<1>3. \A r \in Runs : /\ u.run[r].attempts = db.run[r].attempts
                      /\ u.run[r].status \in RunInFlight => db.run[r].status \in RunInFlight
  BY <1>1 DEF Settles, RunInFlight
<1>4. \A r \in Runs : writing[r].by # "nobody" => u.run[r] = db.run[r]
  BY <1>1, UndisturbedRows
<1> QED BY <1>1, <1>2, <1>3, <1>4, FreeKeeps
\* recoverExpired, of a run that waited too long.
LEMMA TimeOutInQueueKeeps ==
  ASSUME PgInv, NEW r \in Runs, TimeOutInQueue(r)
  PROVE  PgInv'
<1> DEFINE old == db.run[r]
           row == RunEnded(old, "failed", "timed_out", "abnormal")
           t == [db EXCEPT !.run[r] = row]
<1>1. /\ db' = UpdateBatchStatus(t) /\ db.batch.status \in BatchOpen /\ old.status = "queued"
      /\ BatchFree /\ Undisturbed /\ NothingOpenChanges
  BY DEF TimeOutInQueue, QueueTimeout, Schedulable
<1>2. Consistent(db) /\ db \in Database /\ old \in RunRow
  BY DEF PgInv, Consistent, Database
<1> HIDE DEF old
<1>3. row \in RunRow /\ row.status = "failed" /\ row.attempts = old.attempts
  BY <1>2, Words, RunEndedType
<1>4. ~row.queueDue
  BY <1>2, RunEndedDue
<1> HIDE DEF row
<1>5. /\ t \in Database /\ t.batch = db.batch /\ t.attempt = db.attempt
      /\ t.run = [db.run EXCEPT ![r] = row]
  BY <1>2, <1>3 DEF Database
<1> HIDE DEF t
<1>6. \A q \in Runs : t.run[q] = IF q = r THEN row ELSE db.run[q]
  BY <1>2, <1>5 DEF Database
<1>7. RowsAgree(t)
  BY <1>1, <1>2, <1>3, <1>5, <1>6 DEF Consistent, RowsAgree, RunInFlight, old
<1>8. RoundsAgree(t) /\ DueAgrees(t)
  BY <1>2, <1>3, <1>4, <1>5, <1>6 DEF Consistent, RoundsAgree, DueAgrees, RunTerminal
<1>9. Consistent(t)
  BY <1>2, <1>5, <1>7, <1>8 DEF Consistent
<1>10. \A q \in Runs : /\ t.run[q].attempts = db.run[q].attempts
                       /\ t.run[q].status \in RunInFlight => db.run[q].status \in RunInFlight
  BY <1>3, <1>6 DEF RunInFlight, old
<1>11. t.batch.status \in BatchOpen
  BY <1>1, <1>5
<1> QED BY <1>1, <1>9, <1>10, <1>11, AggregatedKeeps

\* pauseBatch
LEMMA PauseKeeps ==
  ASSUME PgInv, Pause
  PROVE  PgInv'
<1> DEFINE t == db'
<1>1. Consistent(db) /\ ClosedSettled(db) /\ db \in Database
  BY DEF PgInv, Consistent
<1>2. /\ t \in Database /\ t.run = db.run /\ t.attempt = db.attempt
      /\ t.batch.status = db.batch.status /\ t.batch.round = db.batch.round
      /\ t.batch.paused /\ BatchFree /\ NothingOpenChanges
  BY <1>1 DEF Pause, PauseBatch, Database
<1> HIDE DEF t
<1>3. Consistent(t)
  BY <1>1, <1>2 DEF Consistent, RowsAgree, RoundsAgree, DueAgrees
<1>4. ClosedSettled(t) /\ (SettledIn(db) => SettledIn(t))
  BY <1>1, <1>2 DEF ClosedSettled, SettledIn, RoundSettled, AllSettled
<1> QED BY <1>2, <1>3, <1>4, FreeKeeps DEF t

\* resumeBatch
LEMMA ResumeKeeps ==
  ASSUME PgInv, Resume
  PROVE  PgInv'
<1> DEFINE Fresh(q) == [db.run[q] EXCEPT !.queueDue = FALSE]
           f == [q \in Runs |-> Fresh(q)]
           t == [db EXCEPT !.batch.paused = FALSE, !.run = f]
<1>1. /\ db' = UpdateBatchStatus(t) /\ db.batch.status \in BatchOpen
      /\ BatchFree /\ Undisturbed /\ NothingOpenChanges
  BY DEF Resume, ResumeBatch
<1>2. Consistent(db) /\ db \in Database
  BY DEF PgInv, Consistent
<1>3. \A q \in Runs :
        /\ Fresh(q) \in RunRow /\ Fresh(q).status = db.run[q].status
        /\ Fresh(q).attempts = db.run[q].attempts /\ Fresh(q).cancel = db.run[q].cancel
        /\ Fresh(q).held = db.run[q].held /\ Fresh(q).round = db.run[q].round
        /\ ~Fresh(q).queueDue
  <2>1. \A q \in Runs : db.run[q] \in RunRow
    BY <1>2 DEF Database
  <2>2. ASSUME NEW row \in RunRow
        PROVE  /\ [row EXCEPT !.queueDue = FALSE] \in RunRow
               /\ [row EXCEPT !.queueDue = FALSE].status = row.status
               /\ [row EXCEPT !.queueDue = FALSE].attempts = row.attempts
               /\ [row EXCEPT !.queueDue = FALSE].cancel = row.cancel
               /\ [row EXCEPT !.queueDue = FALSE].held = row.held
               /\ [row EXCEPT !.queueDue = FALSE].round = row.round
               /\ ~[row EXCEPT !.queueDue = FALSE].queueDue
    BY DEF RunRow
  <2> QED BY <2>1, <2>2
<1> HIDE DEF Fresh
<1>4. f \in [Runs -> RunRow] /\ \A q \in Runs : f[q] = Fresh(q)
  BY <1>3
<1> HIDE DEF f
<1>5. /\ t \in Database /\ t.attempt = db.attempt /\ t.run = f
      /\ t.batch.status = db.batch.status /\ t.batch.round = db.batch.round
  BY <1>2, <1>4 DEF Database
<1> HIDE DEF t
<1>6. Consistent(t)
  BY <1>2, <1>3, <1>4, <1>5 DEF Consistent, RowsAgree, RoundsAgree, DueAgrees
<1>7. \A q \in Runs : /\ t.run[q].attempts = db.run[q].attempts
                      /\ t.run[q].status \in RunInFlight => db.run[q].status \in RunInFlight
  BY <1>3, <1>4, <1>5
<1>8. t.batch.status \in BatchOpen
  BY <1>1, <1>5
<1> QED BY <1>1, <1>6, <1>7, <1>8, AggregatedKeeps

\* terminateBatch
LEMMA TerminateKeeps ==
  ASSUME PgInv, Terminate
  PROVE  PgInv'
<1> DEFINE v == [p \in RecoverySteps |->
                  IF db.recovery[p] \in {"idle"} \cup RecoveryActive
                  THEN "cancelled" ELSE db.recovery[p]]
           t == [db EXCEPT !.batch.terminating = TRUE, !.recovery = v]
           m == TerminateWaitingRuns(t)
<1>1. /\ db' = UpdateBatchStatus(m) /\ db.batch.status \in BatchOpen
      /\ BatchFree /\ Undisturbed /\ NothingOpenChanges
  BY DEF Terminate, TerminateBatch
<1>2. Consistent(db) /\ db \in Database
  BY DEF PgInv, Consistent
<1>3. v \in [RecoverySteps -> {"idle", "succeeded", "failed", "cancelled"} \cup RecoveryActive]
  BY <1>2 DEF Database
<1> HIDE DEF v
<1>4. /\ t \in Database /\ t.attempt = db.attempt /\ t.run = db.run
      /\ t.batch.status = db.batch.status /\ t.batch.round = db.batch.round
  BY <1>2, <1>3 DEF Database
<1> HIDE DEF t
<1>5. Consistent(t)
  BY <1>2, <1>4 DEF Consistent, RowsAgree, RoundsAgree, DueAgrees
<1>6. Consistent(m) /\ m.batch = t.batch
  BY <1>5, TerminateWaitingRunsConsistent
<1>7. \A r \in Runs : \/ m.run[r] = t.run[r]
                      \/ m.run[r].attempts = t.run[r].attempts /\ m.run[r].status = "cancelled"
  BY <1>4, TerminateWaitingRunsRows
<1> HIDE DEF m
<1>8. \A r \in Runs : /\ m.run[r].attempts = db.run[r].attempts
                      /\ m.run[r].status \in RunInFlight => db.run[r].status \in RunInFlight
  BY <1>4, <1>7 DEF RunInFlight
<1>9. m.batch.status \in BatchOpen
  BY <1>1, <1>4, <1>6
<1> QED BY <1>1, <1>6, <1>8, <1>9, AggregatedKeeps
\* reserveAssignments
LEMMA ReserveKeeps ==
  ASSUME PgInv, NEW D \in SUBSET Runs, ReserveRuns(D)
  PROVE  PgInv'
<1> DEFINE t == db'
<1>1. Consistent(db) /\ db \in Database
  BY DEF PgInv, Consistent
<1>2. /\ BatchFree /\ NothingOpenChanges /\ ReserveAssignments(D)
      /\ \A r \in Runs : writing[r].by # "nobody" => r \notin D
  BY DEF ReserveRuns, RowsFree
<1>3. /\ Consistent(t) /\ Reserves(db, t, D) /\ t.recovery = db.recovery
      /\ \E st \in BatchStatuses : t.batch = [db.batch EXCEPT !.status = st]
  BY <1>1, <1>2, ReserveAssignmentsRows
<1> HIDE DEF t
<1>4. t.batch.paused = db.batch.paused /\ t.batch.round = db.batch.round
  BY <1>1, <1>3 DEF Database
<1>5. ClosedSettled(t) /\ db.batch.status \notin BatchTerminal
  BY <1>3 DEF ClosedSettled, Reserves, BatchOpen, BatchTerminal
<1>6. SettledIn(db) => SettledIn(t)
  <2>1. CASE D = {}
    <3>1. \A r \in Runs : t.run[r] = db.run[r]
      BY <1>3, <2>1 DEF Reserves
    <3>2. RoundSettled(db) => RoundSettled(t)
      BY <1>3, <1>4, <3>1, RoundSettledSame
    <3> QED BY <1>5, <3>1, <3>2 DEF SettledIn, AllSettled
  <2>2. CASE D # {}
    <3>1. \A r \in D : r \in Runs /\ t.run[r].status \in RunInFlight
      BY <1>3 DEF Reserves, RunInFlight
    <3> QED BY <2>2, <3>1, WorkSettles
  <2> QED BY <2>1, <2>2
<1>7. ASSUME NEW r \in Runs
      PROVE  /\ writing[r].by # "nobody" => t.run[r] = db.run[r]
             /\ \/ t.run[r].attempts > db.run[r].attempts
                \/ /\ t.run[r].attempts = db.run[r].attempts
                   /\ t.run[r].status \in RunInFlight => db.run[r].status \in RunInFlight
  <2>1. CASE r \in D
    <3>1. t.run[r].attempts = db.run[r].attempts + 1 /\ db.run[r].attempts \in Nat
      BY <1>1, <1>3, <2>1 DEF Reserves, Database, RunRow
    <3>2. writing[r].by = "nobody"
      BY <1>2, <2>1
    <3> QED BY <3>1, <3>2
  <2>2. CASE r \notin D
    BY <1>3, <2>2 DEF Reserves
  <2> QED BY <2>1, <2>2
<1> QED BY <1>2, <1>3, <1>5, <1>6, <1>7, FreeKeeps DEF t

\* The rows of an assignment that is claimed.
LEMMA ClaimedRow ==
  ASSUME PgInv, NEW a \in Attempts, db.attempt[a].assignment = "pending"
  PROVE  LET row == [db.attempt[a] EXCEPT !.assignment = "claimed", !.lease = "active",
                                          !.status = "running"]
         IN  /\ row \in AttemptRow /\ RowShape(row) /\ row.status = "running"
             /\ a[1] \in Runs /\ a = <<a[1], a[2]>>
             /\ a[2] = db.run[a[1]].attempts /\ db.run[a[1]].status = "assigned"
<1> DEFINE old == db.attempt[a]
           row == [old EXCEPT !.assignment = "claimed", !.lease = "active", !.status = "running"]
<1>1. /\ old \in AttemptRow /\ RowShape(old) /\ old.assignment = "pending"
      /\ a[1] \in Runs /\ a[2] \in AttemptNumbers /\ a = <<a[1], a[2]>>
      /\ RowsAgree(db)
  BY PgRow, AttemptPair DEF PgInv, Consistent
<1>2. db.attempt[<<a[1], a[2]>>] = old
  BY <1>1
<1> HIDE DEF old
<1>3. old.status = "assigned" /\ old.receipt = "none"
  BY <1>1 DEF AttemptRow, RunInFlight, AttemptTerminal, RowShape, NoAttempt
<1>4. /\ row \in AttemptRow /\ row.status = "running" /\ row.assignment = "claimed"
      /\ row.lease = "active" /\ row.receipt = "none"
  BY <1>1, <1>3 DEF AttemptRow, AssignmentOpen, RunInFlight
<1> HIDE DEF row
<1>5. RowShape(row)
  BY <1>4 DEF RowShape, AttemptTerminal
<1>6. a[2] = db.run[a[1]].attempts /\ db.run[a[1]].status \in RunInFlight
  BY <1>1, <1>2, <1>3 DEF RowsAgree, RunInFlight
<1>7. db.run[a[1]].status = "assigned"
  BY <1>1, <1>2, <1>3, <1>6 DEF RowsAgree
<1> QED BY <1>1, <1>4, <1>5, <1>6, <1>7 DEF row, old

\* claim
LEMMA ClaimKeeps ==
  ASSUME PgInv, NEW S \in SUBSET Attempts, ClaimAssignments(S)
  PROVE  PgInv'
<1> DEFINE Taken(a) == [db.attempt[a] EXCEPT !.assignment = "claimed", !.lease = "active",
                          !.status = "running"]
           Started(r) == [db.run[r] EXCEPT !.status = "running"]
           Starts(r) == \E a \in S : a[1] = r
           st == IF db.batch.status \in BatchTerminal THEN db.batch.status ELSE "running"
           g == [a \in Attempts |-> IF a \in S THEN Taken(a) ELSE db.attempt[a]]
           f == [r \in Runs |-> IF Starts(r) THEN Started(r) ELSE db.run[r]]
           t == [db EXCEPT !.attempt = g, !.run = f, !.batch.status = st]
<1>1. /\ db' = t /\ BatchFree /\ NothingOpenChanges /\ S # {}
      /\ \A a \in S : db.attempt[a].assignment = "pending" /\ RowsFree(a[1])
  BY DEF ClaimAssignments
<1>2. /\ Consistent(db) /\ db \in Database /\ ClosedSettled(db)
  BY DEF PgInv, Consistent
<1>3. \A a \in S :
        /\ Taken(a) \in AttemptRow /\ RowShape(Taken(a)) /\ Taken(a).status = "running"
        /\ a[1] \in Runs /\ a = <<a[1], a[2]>>
        /\ a[2] = db.run[a[1]].attempts /\ db.run[a[1]].status = "assigned"
  BY <1>1, ClaimedRow
<1>4. \A r \in Runs : /\ Started(r) \in RunRow /\ Started(r).status = "running"
                      /\ Started(r).attempts = db.run[r].attempts
                      /\ Started(r).held = db.run[r].held /\ Started(r).round = db.run[r].round
                      /\ Started(r).cancel = db.run[r].cancel
  BY <1>2 DEF Database, RunRow, RunInFlight
<1> HIDE DEF Taken, Started
<1>5. g \in [Attempts -> AttemptRow] /\ f \in [Runs -> RunRow]
  BY <1>2, <1>3, <1>4 DEF Database
<1>6. /\ \A r \in Runs, n \in AttemptNumbers :
           g[<<r, n>>] = IF <<r, n>> \in S THEN Taken(<<r, n>>) ELSE db.attempt[<<r, n>>]
      /\ \A r \in Runs : f[r] = IF Starts(r) THEN Started(r) ELSE db.run[r]
  BY DEF Attempts
<1>7. st \in BatchStatuses /\ (st \in BatchTerminal => db.batch.status \in BatchTerminal)
  BY <1>2 DEF Database, BatchStatuses, BatchOpen, BatchTerminal
<1> HIDE DEF f, g, st
<1>8. /\ t \in Database /\ t.run = f /\ t.attempt = g /\ t.batch.status = st
      /\ t.batch.round = db.batch.round
  BY <1>2, <1>5, <1>7 DEF Database, BatchStatuses
<1> HIDE DEF t
<1>9. ASSUME NEW r \in Runs
      PROVE  FineAt(t, r)
  <2>1. FineAt(db, r)
    BY <1>2, FineEverywhere
  <2>2. CASE Starts(r)
    <3> DEFINE n == db.run[r].attempts
    <3>1. <<r, n>> \in S /\ db.run[r].status = "assigned" /\ n \in AttemptNumbers
      BY <1>3, <2>1, <2>2 DEF FineAt, RunInFlight
    <3>2. \A k \in AttemptNumbers : <<r, k>> \in S => k = n
      BY <1>3
    <3>3. /\ t.run[r].status = "running" /\ t.run[r].attempts = n
          /\ t.run[r].held = db.run[r].held /\ t.run[r].round = db.run[r].round
      BY <1>4, <1>6, <1>8, <2>2
    <3>4. t.attempt[<<r, n>>].status = "running"
      BY <1>3, <1>6, <1>8, <3>1
    <3>5. \A k \in AttemptNumbers : RowShape(t.attempt[<<r, k>>])
      BY <1>3, <1>6, <1>8, <2>1 DEF FineAt
    <3>6. \A k \in AttemptNumbers : t.attempt[<<r, k>>].status \in RunInFlight => k = n
      BY <1>6, <1>8, <2>1, <3>2 DEF FineAt
    <3>7. n = 0 => n \notin AttemptNumbers
      BY ControlAssumption
    <3>8. db.run[r].held = 0 /\ (RetryMode = "round" => db.run[r].round = db.batch.round)
      BY <2>1, <3>1 DEF FineAt, RunTerminal
    <3> HIDE DEF n
    <3> QED BY <1>8, <3>1, <3>3, <3>4, <3>5, <3>6, <3>8 DEF FineAt, RunInFlight, RunTerminal
  <2>3. CASE ~Starts(r)
    <3>1. \A n \in AttemptNumbers : <<r, n>> \notin S
      BY <1>3, <2>3
    <3>2. SameRows(db, t, r)
      BY <1>6, <1>8, <2>3, <3>1 DEF SameRows
    <3> QED BY <1>8, <2>1, <3>2, SameFine
  <2> QED BY <2>2, <2>3
<1>10. Consistent(t)
  BY <1>8, <1>9, FineEverywhere
<1>11. PICK a \in S : a[1] \in Runs /\ db.run[a[1]].status = "assigned"
  BY <1>1, <1>3
<1>12. ClosedSettled(t)
  BY <1>2, <1>7, <1>8, <1>11 DEF ClosedSettled, AllSettled, RunTerminal
<1>13. SettledIn(t)
  <2>1. t.run[a[1]].status \in RunInFlight
    BY <1>4, <1>6, <1>8, <1>11 DEF RunInFlight
  <2> QED BY <1>11, <2>1, WorkSettles
<1>14. ASSUME NEW r \in Runs
       PROVE  /\ writing[r].by # "nobody" => t.run[r] = db.run[r]
              /\ t.run[r].attempts = db.run[r].attempts
              /\ t.run[r].status \in RunInFlight => db.run[r].status \in RunInFlight
  <2>1. CASE Starts(r)
    <3>1. writing[r].by = "nobody" /\ db.run[r].status = "assigned"
      BY <1>1, <1>3, <2>1 DEF RowsFree
    <3> QED BY <1>4, <1>6, <1>8, <2>1, <3>1 DEF RunInFlight
  <2>2. CASE ~Starts(r)
    BY <1>6, <1>8, <2>2
  <2> QED BY <2>1, <2>2
<1> QED BY <1>1, <1>10, <1>12, <1>13, <1>14, FreeKeeps
-----------------------------------------------------------------------------
(* The theorems.                                                           *)

LEMMA PgInitInv ==
  ASSUME PgInit
  PROVE  PgInv
<1>1. Inv(db) /\ db.batch.status = "queued"
  BY InitInv DEF PgInit, Init
<1>2. /\ writing = [r \in Runs |-> NothingWritten] /\ settling.phase = "idle"
      /\ answer = [a \in Attempts |-> "none"] /\ overlapped = FALSE /\ failures = 0
  BY DEF PgInit, NotSettling
<1>3. NothingWritten \in Rows /\ \A r \in Runs : WriteSound(db, r, NothingWritten)
  BY DEF NothingWritten, Rows, CreatedRun, NoAttempt, RunRow, AttemptRow, WriteSound
<1>4. WritesSound(db, writing) /\ AnswersSound(db, answer)
  BY <1>2, <1>3 DEF WritesSound, AnswersSound, AnswerStates
<1>5. SettledIn(db)
  <2>1. ~AllSettled(db)
    BY <1>1 DEF Inv, BatchTerminal
  <2>2. \A r \in Runs : db.run[r].held = 0
    BY DEF PgInit, Init, CreatedRun
  <2>3. HeldRuns(db) = {}
    BY <2>2 DEF HeldRuns
  <2> QED BY <2>1, <2>3 DEF SettledIn, RoundSettled, RoundIdle
<1>6. failures \in 0..MaxFailures
  BY <1>2, PgAssumption
<1> QED BY <1>1, <1>2, <1>4, <1>5, <1>6 DEF PgInv, Inv, ClosedSettled, Promised

\* Nobody changes anything.
LEMMA PgStutter ==
  ASSUME PgInv, UNCHANGED pgVars
  PROVE  PgInv'
<1>1. /\ db' = db /\ writing' = writing /\ settling' = settling /\ answer' = answer
      /\ overlapped' = overlapped /\ failures' = failures
  BY DEF pgVars
<1> QED BY <1>1, LostKeeps DEF PgInv

LEMMA PgNextInv ==
  ASSUME PgInv, [PgNext]_pgVars
  PROVE  PgInv'
<1>1. CASE \E D \in SUBSET Runs : ReserveRuns(D)
  BY <1>1, ReserveKeeps
<1>2. CASE \E S \in SUBSET {a \in Attempts : db.attempt[a].assignment = "pending"} :
             ClaimAssignments(S)
  BY <1>2, ClaimKeeps
<1>3. ASSUME NEW a \in Attempts, \/ Renew(a) \/ RenewInTime(a) \/ LateReport(a)
                                 \/ \E d \in Deadlines : Lapse(a, d)
      PROVE  PgInv'
  BY <1>3, RenewLocal, RenewInTimeLocal, LateReportLocal, LapseLocal, LocalKeeps
<1>4. ASSUME NEW a \in Attempts,
             \/ \E result \in Results : OpenReport(a, result)
             \/ CommitReport(a)
             \/ LookForWorkInFlight(a) \/ RepeatReport(a)
             \/ SettleAfterReport(a) \/ FailAfterCommit(a)
             \/ OpenLeasedExpiry(a) \/ OpenUnclaimedExpiry(a)
      PROVE  PgInv'
  BY <1>4, OpenReportKeeps, CommitReportKeeps, LookForWorkKeeps, RepeatReportKeeps,
     SettleAfterReportKeeps, FailAfterCommitKeeps, OpenLeasedExpiryKeeps,
     OpenUnclaimedExpiryKeeps
<1>5. ASSUME NEW r \in Runs, AskToCancel(r) \/ LapseInQueue(r)
      PROVE  PgInv'
  BY <1>5, AskToCancelLocal, LapseInQueueLocal, LocalKeeps
<1>6. ASSUME NEW r \in Runs,
             \/ OpenCancel(r) \/ SettleClose(r) \/ FailRows(r) \/ BreakDeadlock(r)
             \/ TimeOutInQueue(r)
      PROVE  PgInv'
  BY <1>6, OpenCancelKeeps, SettleCloseKeeps, FailRowsKeeps, BreakDeadlockKeeps,
     TimeOutInQueueKeeps
<1>7. CASE AggregateBatch \/ CommitSettlement \/ ScanTerminatingBatch \/ FailScan
  BY <1>7, AggregateKeeps, CommitSettlementKeeps, ScanKeeps, FailScanKeeps
<1>8. CASE Pause \/ Resume \/ Terminate
  BY <1>8, PauseKeeps, ResumeKeeps, TerminateKeeps
<1>9. CASE UNCHANGED pgVars
  BY <1>9, PgStutter
<1> QED BY <1>1, <1>2, <1>3, <1>4, <1>5, <1>6, <1>7, <1>8, <1>9 DEF PgNext

\* The inductive invariant holds whatever transactions overlap and fail.
THEOREM PgAlwaysInv == PgSpec => []PgInv
<1>1. PgInit => PgInv
  BY PgInitInv
<1>2. PgInv /\ [PgNext]_pgVars => PgInv'
  BY PgNextInv
<1> QED BY <1>1, <1>2, PTL DEF PgSpec

\* updateBatchStatus: no batch closes over open work, on whatever snapshot its
\* verdict was aggregated, and no transaction writes a row outside the schema.
THEOREM PgClosesWhenSettled == PgSpec => []ClosedOnlyWhenSettled
<1>1. PgInv => ClosedOnlyWhenSettled
  <2> SUFFICES ASSUME PgInv
               PROVE  ClosedOnlyWhenSettled
    OBVIOUS
  <2>1. db \in Database /\ ClosedSettled(db)
    BY DEF PgInv, Consistent
  <2>2. settling.phase # "idle" => Seen(db, settling) \in Database
    BY <2>1, SeenFacts DEF PgInv, FenceSound
  <2>3. View = Seen(db, settling)
    BY DEF View, Seen
  <2>4. /\ writing \in [Runs -> Rows] /\ answer \in [Attempts -> AnswerStates]
        /\ overlapped \in BOOLEAN /\ failures \in 0..MaxFailures
    BY DEF PgInv, WritesSound, AnswersSound
  <2>5. PgTypeOK
    BY <2>1, <2>2, <2>3, <2>4 DEF PgTypeOK, BatchFree
  <2> QED BY <2>1, <2>5 DEF ClosedOnlyWhenSettled, ClosedSettled, AllSettled
<1> QED BY <1>1, PgAlwaysInv, PTL

\* advanceRoundIfIdle and retryQueueTiming: no run starts a round early, not
\* even through a retry that was written before another transaction committed.
THEOREM PgRoundsInOrder == PgSpec => []RoundBarrier
<1>1. PgInv => RoundBarrier
  BY DEF PgInv, Consistent, RoundsAgree, RoundBarrier
<1> QED BY <1>1, PgAlwaysInv, PTL

\* commitWithInFlightPresence: when nothing is open and no report has left the
\* batch to a transaction that had decided before, the batch is settled.
THEOREM PgSettled == PgSpec => []SettledUnlessOverlapped
<1>1. PgInv => SettledUnlessOverlapped
  <2> SUFFICES ASSUME PgInv, Quiet, ~overlapped
               PROVE  Settled
    BY DEF SettledUnlessOverlapped
  <2>1. ~\E a \in Attempts : Open(answer, a)
    BY DEF Quiet, Open
  <2>2. SettledIn(db)
    BY <2>1 DEF PgInv, Promised
  <2> QED BY <2>2, SettledIsSettledIn DEF PgInv
<1> QED BY <1>1, PgAlwaysInv, PTL

\* What ExecutionControl promises of a run, its attempts, its receipt and its
\* lease also holds when the transactions on PostgreSQL overlap (not so what it
\* promises of cancellations and renewals, which an open transaction may miss).
THEOREM PgRowsAgree ==
  PgSpec => [](LeaseCoversRunningRun /\ RunMatchesAttempts /\ ReceiptMatchesAttempt)
<1> DEFINE P == LeaseCoversRunningRun /\ RunMatchesAttempts /\ ReceiptMatchesAttempt
<1>1. PgInv => P
  <2> SUFFICES ASSUME PgInv
               PROVE  P
    OBVIOUS
  <2>1. RowsAgree(db)
    BY DEF PgInv, Consistent
  <2>2. ASSUME NEW a \in Attempts, db.attempt[a].lease = "active"
        PROVE  /\ IsLatest(db, a)
               /\ db.run[a[1]].status = "running" /\ db.attempt[a].status = "running"
               /\ db.attempt[a].assignment \in {"claimed", "running"}
    <3>1. /\ db.attempt[a].status = "running"
          /\ db.attempt[a].assignment \in {"claimed", "running"}
      BY <2>2, PgRow DEF RowShape
    <3>2. /\ a[1] \in Runs /\ a[2] \in AttemptNumbers
          /\ db.attempt[<<a[1], a[2]>>].status = "running"
      BY <3>1, AttemptPair
    <3>3. a[2] = db.run[a[1]].attempts /\ db.run[a[1]].status \in RunInFlight
      BY <2>1, <3>2 DEF RowsAgree, RunInFlight
    <3>4. db.run[a[1]].status = "running"
      BY <2>1, <3>2, <3>3 DEF RowsAgree
    <3> QED BY <3>1, <3>3, <3>4 DEF IsLatest
  <2>3. RunMatchesAttempts
    BY <2>1 DEF RowsAgree, RunMatchesAttempts
  <2>4. ASSUME NEW a \in Attempts
        PROVE  /\ db.attempt[a].receipt = "accepted" <=> db.attempt[a].assignment = "completed"
               /\ db.attempt[a].receipt = "accepted" => db.attempt[a].lease = "released"
    BY PgRow DEF RowShape, AttemptRow, NoAttempt, RunInFlight, AttemptTerminal
  <2> QED BY <2>2, <2>3, <2>4 DEF LeaseCoversRunningRun, ReceiptMatchesAttempt
<1> HIDE DEF P
<1>2. PgSpec => []P
  BY <1>1, PgAlwaysInv, PTL
<1> QED BY <1>2 DEF P
-----------------------------------------------------------------------------
(* What a step may never do.  Between the step that decides on the end of  *)
(* a run, an attempt or a lease and its commit other transactions go on:   *)
(* the second invariant says that what is decided still carries what is    *)
(* committed, so that the commit breaks none of the promises.              *)

BatchCarries(s, t) ==
  /\ s.batch.status \in BatchTerminal =>
       t.batch.status = s.batch.status /\ t.batch.terminating = s.batch.terminating
  /\ s.batch.paused => t.batch.round = s.batch.round /\ t.recovery = s.recovery

\* What the holder of the batch will commit carries what is committed.
FenceKeeps(s, l) ==
  /\ \A r \in Runs : Carries(s, Seen(s, l), r)
  /\ BatchCarries(s, Seen(s, l))
  /\ Verdict(Seen(s, l))

PgKept ==
  /\ Numbered(db) /\ Verdict(db)
  /\ \A r \in Runs : WriteKeeps(db, r, writing[r])
  /\ settling.phase # "idle" => FenceKeeps(db, settling)

\* All that the step properties say of a step.
StepKept(s, t) ==
  /\ \A r \in Runs, n \in AttemptNumbers :
       \/ AttemptKept(s.attempt[<<r, n>>], t.attempt[<<r, n>>])
       \/ s.attempt[<<r, n>>] = NoAttempt
  /\ \A r \in Runs :
       /\ s.run[r].status \in RunTerminal => t.run[r] = s.run[r]
       /\ s.batch.paused /\ t.batch.paused =>
            /\ t.run[r].attempts = s.run[r].attempts
            /\ s.run[r].status = "queued" => t.run[r].status # "failed"
  /\ s.batch.status \in BatchTerminal => t.batch.status = s.batch.status
  /\ s.batch.paused /\ t.batch.paused =>
       /\ t.batch.round = s.batch.round
       /\ \A p \in RecoverySteps : s.recovery[p] = "idle" => t.recovery[p] # "pending"

LEMMA CarriesKept ==
  ASSUME NEW s, NEW t, \A r \in Runs : Carries(s, t, r), BatchCarries(s, t)
  PROVE  StepKept(s, t)
  BY DEF Carries, BatchCarries, StepKept

LEMMA MovesKept ==
  ASSUME NEW s, NEW t, Moves(s, t)
  PROVE  StepKept(s, t)
<1>1. \A r \in Runs, n \in AttemptNumbers :
        AttemptKept(s.attempt[<<r, n>>], t.attempt[<<r, n>>])
  BY StepIsKept DEF Moves, Attempts
<1> QED BY <1>1 DEF Moves, RunStep, BatchStep, StepKept

LEMMA ReservesKept ==
  ASSUME NEW s, NEW t, Consistent(s), Numbered(s), NEW D \in SUBSET Runs, Reserves(s, t, D)
  PROVE  StepKept(s, t)
<1>1. ASSUME NEW r \in Runs, NEW n \in AttemptNumbers
      PROVE  \/ AttemptKept(s.attempt[<<r, n>>], t.attempt[<<r, n>>])
             \/ s.attempt[<<r, n>>] = NoAttempt
  <2>1. <<r, n>> \in Attempts
    BY DEF Attempts
  <2> QED BY <2>1, ReservedAttempts, StillKept
<1>2. \A r \in Runs : s.run[r].status \in RunTerminal => t.run[r] = s.run[r]
  BY DEF Reserves, RunTerminal
<1>3. ~s.batch.paused /\ s.batch.status \notin BatchTerminal
  BY DEF Reserves, BatchOpen, BatchTerminal
<1> QED BY <1>1, <1>2, <1>3 DEF StepKept

LEMMA StillCarries ==
  ASSUME NEW s, NEW t, NEW r \in Runs, SameRows(s, t, r)
  PROVE  Carries(s, t, r)
  BY StillKept DEF SameRows, Carries

LEMMA CarriesNumbered ==
  ASSUME NEW s, NEW t, Numbered(s), \A r \in Runs : Carries(s, t, r)
  PROVE  Numbered(t)
<1> SUFFICES ASSUME NEW r \in Runs, NEW n \in AttemptNumbers,
                    t.attempt[<<r, n>>].status # "absent"
             PROVE  n <= t.run[r].attempts
  BY DEF Numbered
<1>1. AttemptKept(s.attempt[<<r, n>>], t.attempt[<<r, n>>]) /\ t.run[r].attempts = s.run[r].attempts
  BY DEF Carries
<1>2. s.attempt[<<r, n>>].status # "absent"
  BY <1>1 DEF AttemptKept, RunInFlight
<1> QED BY <1>1, <1>2 DEF Numbered

\* A closed batch has no open run, so nothing carries its verdict away.
LEMMA CarriesVerdict ==
  ASSUME NEW s, NEW t, Verdict(s), ClosedSettled(s), \A r \in Runs : Carries(s, t, r),
         t.batch.status = s.batch.status, t.batch.terminating = s.batch.terminating
  PROVE  Verdict(t)
  BY DEF Verdict, ClosedSettled, AllSettled, Carries

\* What happens in between does not take the end of an attempt back.
LEMMA LapsedStep ==
  ASSUME NEW old, NEW new, NEW row, AttemptKept(old, row), Lapsed(old, new)
  PROVE  AttemptKept(new, row)
  BY DEF AttemptKept, Lapsed

\* Steps that commit nothing.
LEMMA QuietKept ==
  ASSUME PgKept, db' = db,
         \A r \in Runs : writing'[r] = writing[r] \/ WriteKeeps(db, r, writing'[r]),
         settling'.phase # "idle" => FenceKeeps(db, settling')
  PROVE  PgKept' /\ StepKept(db, db')
<1>1. PgKept'
  BY DEF PgKept
<1>2. StepKept(db, db)
  BY StillKept DEF StepKept
<1> QED BY <1>1, <1>2
\* What the fence closes was open.
LEMMA FencedCarries ==
  ASSUME NEW s, Consistent(s), ClosedSettled(s), Verdict(s)
  PROVE  LET t == FencedOrAdvanced(s)
         IN  /\ \A r \in Runs : Carries(s, t, r)
             /\ BatchCarries(s, t) /\ Verdict(t)
             /\ \A r \in Runs : s.run[r].status \notin RunInFlight =>
                  \A n \in AttemptNumbers : t.attempt[<<r, n>>] = s.attempt[<<r, n>>]
             /\ \A r \in Runs : t.run[r].status = "failed" => s.run[r].status = "failed"
<1> DEFINE t == FencedOrAdvanced(s)
<1>1. Settles(s, t) /\ t.batch.status = s.batch.status
  BY FencedFacts
<1> HIDE DEF t
<1>2. \A r \in Runs, n \in AttemptNumbers :
        \/ t.attempt[<<r, n>>] = s.attempt[<<r, n>>]
        \/ IsClosed(s.attempt[<<r, n>>], t.attempt[<<r, n>>])
  BY <1>1 DEF Settles, Attempts
<1>3. ASSUME NEW r \in Runs, NEW n \in AttemptNumbers
      PROVE  AttemptKept(s.attempt[<<r, n>>], t.attempt[<<r, n>>])
  <2> DEFINE old == s.attempt[<<r, n>>]
             new == t.attempt[<<r, n>>]
  <2>1. new = old \/ IsClosed(old, new)
    BY <1>2
  <2> HIDE DEF old, new
  <2>2. AttemptKept(old, new)
    BY <2>1, StillKept DEF IsClosed, AttemptKept, AttemptTerminal
  <2> QED BY <2>2 DEF old, new
<1>4. \A r \in Runs : /\ t.run[r].attempts = s.run[r].attempts
                      /\ s.run[r].status \in RunTerminal => t.run[r] = s.run[r]
                      /\ t.run[r].status = "failed" => s.run[r].status = "failed"
  BY <1>1 DEF Settles, RunTerminal
<1>5. \A r \in Runs : Carries(s, t, r)
  BY <1>3, <1>4 DEF Carries
<1>6. BatchCarries(s, t)
  BY <1>1 DEF BatchCarries, Settles
<1>7. Verdict(t)
  BY <1>1, <1>5, CarriesVerdict DEF Settles
<1>8. ASSUME NEW r \in Runs, s.run[r].status \notin RunInFlight, NEW n \in AttemptNumbers
      PROVE  t.attempt[<<r, n>>] = s.attempt[<<r, n>>]
  <2>1. s.attempt[<<r, n>>].status \notin RunInFlight
    BY <1>8 DEF Consistent, RowsAgree
  <2> QED BY <1>2, <2>1 DEF IsClosed
<1> QED BY <1>4, <1>5, <1>6, <1>7, <1>8 DEF t

\* Who locks the batch has at most rewritten runs that it closes.
LEMMA LockKept ==
  ASSUME PgInv, PgKept, NEW s, Consistent(s), ClosedSettled(s), Locks(s),
         s.batch = db.batch, s.recovery = db.recovery,
         \A r \in Runs : \/ SameRows(db, s, r)
                         \/ Carries(db, s, r) /\ s.run[r].status \notin RunInFlight
  PROVE  PgKept' /\ StepKept(db, db')
<1> DEFINE t == FencedOrAdvanced(s)
           v == Seen(db, settling')
<1>1. /\ db' = db /\ writing' = writing
      /\ v.batch = t.batch /\ v.recovery = t.recovery /\ \A r \in Runs : SameRows(t, v, r)
  BY DEF Locks
<1>2. Verdict(db) /\ ClosedSettled(db)
  BY DEF PgInv, PgKept
<1>3. \A r \in Runs : Carries(db, s, r)
  BY StillCarries
<1>4. Verdict(s)
  BY <1>2, <1>3, CarriesVerdict
<1>5. /\ \A r \in Runs : Carries(s, t, r)
      /\ BatchCarries(s, t) /\ Verdict(t)
      /\ \A r \in Runs : s.run[r].status \notin RunInFlight =>
           \A n \in AttemptNumbers : t.attempt[<<r, n>>] = s.attempt[<<r, n>>]
      /\ \A r \in Runs : t.run[r].status = "failed" => s.run[r].status = "failed"
  BY <1>4, FencedCarries
<1> HIDE DEF t, v
<1>6. ASSUME NEW r \in Runs
      PROVE  Carries(db, v, r)
  <2>1. v.run[r] = t.run[r] /\ \A n \in AttemptNumbers : v.attempt[<<r, n>>] = t.attempt[<<r, n>>]
    BY <1>1 DEF SameRows
  <2>2. CASE SameRows(db, s, r)
    BY <1>5, <2>1, <2>2 DEF Carries, SameRows
  <2>3. CASE Carries(db, s, r) /\ s.run[r].status \notin RunInFlight
    BY <1>5, <2>1, <2>3 DEF Carries
  <2> QED BY <2>2, <2>3
<1>7. BatchCarries(db, v) /\ Verdict(v)
  BY <1>1, <1>5 DEF BatchCarries, Verdict, SameRows
<1>8. FenceKeeps(db, settling')
  BY <1>6, <1>7 DEF FenceKeeps, v
<1> QED BY <1>1, <1>8, QuietKept
\* The rows of a run, once its transaction commits them.
LEMMA WrittenCarries ==
  ASSUME PgInv, PgKept, NEW r \in Runs, writing[r].by # "nobody"
  PROVE  LET t == WithRowsOf(db, r)
         IN  /\ Consistent(t) /\ ClosedSettled(t) /\ Verdict(t)
             /\ t.batch = db.batch /\ t.recovery = db.recovery
             /\ t.run[r].status \notin RunInFlight
             /\ \A q \in Runs \ {r} : SameRows(db, t, q)
             /\ \A q \in Runs : Carries(db, t, q)
<1> DEFINE t == WithRowsOf(db, r)
           w == writing[r]
<1>1. /\ Consistent(db) /\ ClosedSettled(db) /\ WritesSound(db, writing) /\ db \in Database
      /\ Verdict(db) /\ WriteKeeps(db, r, w) /\ Consistent(t)
  BY WithRowsConsistent DEF PgInv, PgKept, Consistent
<1>2. /\ t.batch = db.batch /\ t.recovery = db.recovery
      /\ Flagged(w.run, t.run[r]) /\ \A q \in Runs \ {r} : t.run[q] = db.run[q]
      /\ \A n \in AttemptNumbers :
           n = db.run[r].attempts => Lapsed(w.attempt, t.attempt[<<r, n>>])
      /\ \A q \in Runs, n \in AttemptNumbers :
           q # r \/ n # db.run[r].attempts => t.attempt[<<q, n>>] = db.attempt[<<q, n>>]
  BY <1>1, WithRowsFacts DEF WritesSound, Merged
<1> HIDE DEF t
<1>3. /\ t.run[r].attempts = db.run[r].attempts /\ t.run[r].status \notin RunInFlight
      /\ db.run[r].status \notin RunTerminal
  BY <1>1, <1>2 DEF WritesSound, WriteSound, Flagged, RunInFlight, RunTerminal
<1>4. db.run[r].attempts # 0 => AttemptKept(db.attempt[<<r, db.run[r].attempts>>], w.attempt)
  BY <1>1 DEF WriteKeeps
<1>5. db.run[r].status = "queued" => t.run[r].status # "failed"
  BY <1>1, <1>2 DEF WriteKeeps, Flagged
<1> HIDE DEF w
<1>6. \A q \in Runs \ {r} : SameRows(db, t, q)
  BY <1>2 DEF SameRows
<1>7. ASSUME NEW n \in AttemptNumbers
      PROVE  AttemptKept(db.attempt[<<r, n>>], t.attempt[<<r, n>>])
  <2>1. CASE n = db.run[r].attempts
    <3>1. /\ AttemptKept(db.attempt[<<r, n>>], w.attempt)
          /\ Lapsed(w.attempt, t.attempt[<<r, n>>])
      BY <1>2, <1>4, <2>1, ControlAssumption
    <3> QED BY <3>1 DEF AttemptKept, Lapsed
  <2>2. CASE n # db.run[r].attempts
    BY <1>2, <2>2, StillKept
  <2> QED BY <2>1, <2>2
<1>8. Carries(db, t, r)
  BY <1>3, <1>5, <1>7 DEF Carries
<1>9. \A q \in Runs : Carries(db, t, q)
  BY <1>6, <1>8, StillCarries
<1>10. ClosedSettled(t)
  BY <1>1, <1>2, <1>3 DEF ClosedSettled, AllSettled
<1>11. Verdict(t)
  BY <1>1, <1>2, <1>9, CarriesVerdict
<1> QED BY <1>1, <1>2, <1>3, <1>6, <1>9, <1>10, <1>11 DEF t

LEMMA SettleAfterReportKept ==
  ASSUME PgInv, PgKept, NEW a \in Attempts, SettleAfterReport(a)
  PROVE  PgKept' /\ StepKept(db, db')
<1>1. Locks(db) /\ Consistent(db) /\ ClosedSettled(db)
  BY SettleAfterReportKeeps DEF PgInv
<1>2. \A r \in Runs : SameRows(db, db, r)
  BY DEF SameRows
<1> QED BY <1>1, <1>2, LockKept

LEMMA ScanKept ==
  ASSUME PgInv, PgKept, ScanTerminatingBatch
  PROVE  PgKept' /\ StepKept(db, db')
<1>1. Locks(db) /\ Consistent(db) /\ ClosedSettled(db)
  BY ScanKeeps DEF PgInv
<1>2. \A r \in Runs : SameRows(db, db, r)
  BY DEF SameRows
<1> QED BY <1>1, <1>2, LockKept

LEMMA SettleCloseKept ==
  ASSUME PgInv, PgKept, NEW r \in Runs, SettleClose(r)
  PROVE  PgKept' /\ StepKept(db, db')
<1> DEFINE s == WithRowsOf(db, r)
<1>1. Locks(s)
  BY SettleCloseKeeps
<1>2. writing[r].by # "nobody"
  BY DEF SettleClose, Closing
<1>3. /\ Consistent(s) /\ ClosedSettled(s) /\ s.batch = db.batch /\ s.recovery = db.recovery
      /\ \A q \in Runs : \/ SameRows(db, s, q)
                         \/ Carries(db, s, q) /\ s.run[q].status \notin RunInFlight
  BY <1>2, WrittenCarries
<1> HIDE DEF s
<1> QED BY <1>1, <1>3, LockKept

\* The aggregate is the verdict of the runs that the transaction sees.
LEMMA AggregateVerdict ==
  ASSUME NEW v, NEW u, u.run = v.run, u.batch.status = AggregateStatus(v),
         u.batch.terminating = v.batch.terminating
  PROVE  Verdict(u)
<1> DEFINE st == AggregateStatus(v)
<1>1. st \in BatchTerminal /\ v.batch.terminating => st = "cancelled"
  BY DEF AggregateStatus, BatchTerminal
<1>2. st = "succeeded" =>
        \A r \in Runs : /\ v.run[r].status # "cancelled"
                        /\ v.run[r].status = "failed" => ~Blocked(v.run[r].reason)
  BY DEF AggregateStatus, RunsIn, AbnormalRuns
<1> HIDE DEF st
<1>3. u.batch.status = st
  BY DEF st
<1> QED BY <1>1, <1>2, <1>3 DEF Verdict
\* Rows that a transaction has written, while others commit.
LEMMA WriteStays ==
  ASSUME NEW s, NEW t, Consistent(s), NEW r \in Runs, NEW w, WriteKeeps(s, r, w),
         Flagged(s.run[r], t.run[r]),
         \A n \in AttemptNumbers : Lapsed(s.attempt[<<r, n>>], t.attempt[<<r, n>>])
  PROVE  WriteKeeps(t, r, w)
<1> SUFFICES ASSUME w.by # "nobody"
             PROVE  WriteKeeps(t, r, w)
  BY DEF WriteKeeps
<1> DEFINE n == s.run[r].attempts
<1>1. n # 0 => /\ AttemptKept(s.attempt[<<r, n>>], w.attempt)
               /\ Lapsed(s.attempt[<<r, n>>], t.attempt[<<r, n>>])
  BY DEF WriteKeeps, Consistent, RowsAgree
<1>2. t.run[r].attempts = n /\ t.run[r].status = s.run[r].status
  BY DEF Flagged
<1> HIDE DEF n
<1>3. n # 0 => AttemptKept(t.attempt[<<r, n>>], w.attempt)
  BY <1>1, LapsedStep
<1> QED BY <1>2, <1>3 DEF WriteKeeps

LEMMA SameLapsed ==
  ASSUME NEW s, NEW t, NEW r \in Runs, SameRows(s, t, r)
  PROVE  /\ Flagged(s.run[r], t.run[r])
         /\ \A n \in AttemptNumbers : Lapsed(s.attempt[<<r, n>>], t.attempt[<<r, n>>])
  BY DEF SameRows, Lapsed, Flagged

\* What the holder of the batch will commit, while others commit: of the runs it
\* has fenced they change deadlines only (and renew a lease), and of the others it has nothing to say.
LEMMA FenceStays ==
  ASSUME NEW s \in Database, NEW t \in Database, t.batch = s.batch, t.recovery = s.recovery,
         NEW l, DOMAIN l.run \subseteq Runs, l \in FencesOf(DOMAIN l.run),
         NEW m, m \in FencesOf(DOMAIN l.run), m.run = l.run, m.attempt = l.attempt,
         m.batch = l.batch, m.recovery = l.recovery,
         FenceKeeps(s, l), ClosedSettled(Seen(s, l)),
         \A r \in Runs \ DOMAIN l.run : Carries(s, t, r),
         \A r \in DOMAIN l.run :
           /\ t.run[r] = s.run[r]
           /\ \A n \in AttemptNumbers : Lapsed(s.attempt[<<r, n>>], t.attempt[<<r, n>>])
  PROVE  FenceKeeps(t, m)
<1> DEFINE v == Seen(s, l)
           u == Seen(t, m)
<1>1. /\ v.batch = l.batch /\ v.recovery = l.recovery
      /\ \A r \in Runs : v.run[r] = IF r \in DOMAIN l.run THEN l.run[r] ELSE s.run[r]
      /\ \A r \in Runs, n \in AttemptNumbers :
           v.attempt[<<r, n>>] = IF r \in DOMAIN l.run THEN l.attempt[<<r, n>>]
                                 ELSE s.attempt[<<r, n>>]
  BY SeenFacts
<1>2. /\ u.batch = l.batch /\ u.recovery = l.recovery
      /\ \A r \in Runs : u.run[r] = IF r \in DOMAIN l.run THEN l.run[r] ELSE t.run[r]
      /\ \A r \in Runs, n \in AttemptNumbers :
           u.attempt[<<r, n>>] = IF r \in DOMAIN l.run THEN l.attempt[<<r, n>>]
                                 ELSE t.attempt[<<r, n>>]
  BY SeenFacts
<1>3. /\ \A r \in Runs : Carries(s, v, r)
      /\ BatchCarries(s, v) /\ Verdict(v) /\ ClosedSettled(v)
  BY DEF FenceKeeps
<1> HIDE DEF u, v
<1>4. ASSUME NEW r \in Runs
      PROVE  Carries(t, u, r) /\ Carries(v, u, r)
  <2>1. CASE r \in DOMAIN l.run
    <3>1. SameRows(v, u, r)
      BY <1>1, <1>2, <2>1 DEF SameRows
    <3>2. \A n \in AttemptNumbers : AttemptKept(t.attempt[<<r, n>>], v.attempt[<<r, n>>])
      BY <1>3, <2>1, LapsedStep DEF Carries
    <3>3. \A n \in AttemptNumbers : AttemptKept(t.attempt[<<r, n>>], u.attempt[<<r, n>>])
      BY <3>1, <3>2 DEF SameRows
    <3>4. Carries(t, u, r)
      BY <1>3, <2>1, <3>1, <3>3 DEF Carries, SameRows
    <3> QED BY <3>1, <3>4, StillCarries
  <2>2. CASE r \notin DOMAIN l.run
    <3>1. SameRows(t, u, r) /\ SameRows(s, v, r)
      BY <1>1, <1>2, <2>2 DEF SameRows
    <3>2. Carries(v, u, r)
      BY <2>2, <3>1 DEF Carries, SameRows
    <3> QED BY <3>1, <3>2, StillCarries
  <2> QED BY <2>1, <2>2
<1>5. Verdict(u)
  BY <1>1, <1>2, <1>3, <1>4, CarriesVerdict
<1>6. BatchCarries(t, u)
  BY <1>1, <1>2, <1>3 DEF BatchCarries
<1> QED BY <1>4, <1>5, <1>6 DEF FenceKeeps, u
LEMMA AggregateKept ==
  ASSUME PgInv, PgKept, AggregateBatch
  PROVE  PgKept' /\ StepKept(db, db')
<1> DEFINE l == settling
           v == Seen(db, l)
           st == IF l.batch.status \in BatchTerminal THEN l.batch.status ELSE AggregateStatus(v)
           m == [l EXCEPT !.phase = "aggregated", !.batch.status = st]
           u == Seen(db, m)
<1>1. /\ settling' = m /\ l.phase = "locked"
      /\ db' = db /\ writing' = writing
  BY DEF AggregateBatch, View, Seen
<1>2. /\ DOMAIN l.run \subseteq Runs /\ l \in FencesOf(DOMAIN l.run)
      /\ v.batch = l.batch /\ v.recovery = l.recovery
  BY <1>1, SeenFacts DEF PgInv, FenceSound, Consistent
<1>3. FenceKeeps(db, l)
  BY <1>1 DEF PgKept
<1> HIDE DEF l, st
<1>4. /\ m.run = l.run /\ m.attempt = l.attempt /\ m.recovery = l.recovery
      /\ m.batch.status = st /\ m.batch.round = l.batch.round
      /\ m.batch.terminating = l.batch.terminating
  BY <1>2 DEF FencesOf, BatchRow
<1> HIDE DEF m
<1>5. u.run = v.run /\ u.attempt = v.attempt /\ u.batch = m.batch /\ u.recovery = v.recovery
  BY <1>4 DEF Seen, u, v
<1>6. /\ \A r \in Runs : Carries(db, v, r)
      /\ BatchCarries(db, v) /\ Verdict(v)
  BY <1>3 DEF FenceKeeps
<1> HIDE DEF u, v
<1>7. \A r \in Runs : Carries(db, u, r)
  BY <1>5, <1>6 DEF Carries
<1>8. CASE l.batch.status \in BatchTerminal
  <2>1. st = l.batch.status
    BY <1>8 DEF st
  <2>2. Verdict(u) /\ BatchCarries(db, u)
    BY <1>2, <1>4, <1>5, <1>6, <2>1 DEF Verdict, BatchCarries
  <2>3. FenceKeeps(db, m)
    BY <1>7, <2>2 DEF FenceKeeps, u
  <2> QED BY <1>1, <2>3, QuietKept
<1>9. CASE l.batch.status \notin BatchTerminal
  <2>1. st = AggregateStatus(v)
    BY <1>9 DEF st
  <2>2. u.batch.status = AggregateStatus(v) /\ u.batch.terminating = v.batch.terminating
    BY <1>2, <1>4, <1>5, <2>1
  <2>3. Verdict(u)
    BY <1>5, <2>2, AggregateVerdict
  <2>4. db.batch.status \notin BatchTerminal
    BY <1>2, <1>6, <1>9 DEF BatchCarries
  <2>5. BatchCarries(db, u)
    BY <1>2, <1>4, <1>5, <1>6, <2>4 DEF BatchCarries
  <2>6. FenceKeeps(db, m)
    BY <1>7, <2>3, <2>5 DEF FenceKeeps, u
  <2> QED BY <1>1, <2>6, QuietKept
<1> QED BY <1>8, <1>9

LEMMA CommitSettlementKept ==
  ASSUME PgInv, PgKept, CommitSettlement
  PROVE  PgKept' /\ StepKept(db, db')
<1> DEFINE l == settling
           v == Seen(db, l)
<1>1. /\ db' = v /\ settling' = NotSettling /\ l.phase = "aggregated"
      /\ writing' = [r \in Runs |-> IF l.by = <<"close", r>> THEN NothingWritten ELSE writing[r]]
  BY DEF CommitSettlement, View, Seen
<1>2. /\ FenceSound(db, writing, l, answer) /\ Consistent(db) /\ db \in Database
      /\ FenceKeeps(db, l) /\ Numbered(db)
  BY <1>1 DEF PgInv, PgKept, Consistent
<1>3. /\ \A r \in Runs : Carries(db, v, r)
      /\ BatchCarries(db, v) /\ Verdict(v)
  BY <1>2 DEF FenceKeeps
<1>4. DOMAIN l.run \subseteq Runs /\ l \in FencesOf(DOMAIN l.run)
  BY <1>2 DEF FenceSound
<1> HIDE DEF l
<1>5. \A r \in Runs \ DOMAIN l.run : SameRows(db, v, r)
  BY <1>2, <1>4, SeenRows
<1> HIDE DEF v
<1>6. Numbered(v) /\ StepKept(db, v)
  BY <1>2, <1>3, CarriesNumbered, CarriesKept
<1>7. ASSUME NEW r \in Runs
      PROVE  WriteKeeps(v, r, writing'[r])
  <2>1. CASE writing'[r].by = "nobody"
    BY <2>1 DEF WriteKeeps
  <2>2. CASE writing'[r].by # "nobody"
    <3>1. writing'[r] = writing[r] /\ writing[r].by # "nobody" /\ l.by # <<"close", r>>
      BY <1>1, <2>2 DEF NothingWritten
    <3>2. r \notin DOMAIN l.run
      BY <1>2, <3>1 DEF FenceSound
    <3>3. Flagged(db.run[r], v.run[r])
      BY <1>5, <3>2, SameLapsed
    <3>4. \A n \in AttemptNumbers : Lapsed(db.attempt[<<r, n>>], v.attempt[<<r, n>>])
      BY <1>5, <3>2, SameLapsed
    <3>5. WriteKeeps(db, r, writing[r])
      BY DEF PgKept
    <3>6. WriteKeeps(v, r, writing[r])
      BY <1>2, <3>3, <3>4, <3>5, WriteStays
    <3> QED BY <3>1, <3>6
  <2> QED BY <2>1, <2>2
<1>8. NotSettling.phase = "idle"
  BY DEF NotSettling
<1> QED BY <1>1, <1>3, <1>6, <1>7, <1>8 DEF PgKept

LEMMA CommitReportKept ==
  ASSUME PgInv, PgKept, NEW a \in Attempts, CommitReport(a)
  PROVE  PgKept' /\ StepKept(db, db')
<1> DEFINE r == a[1]
           t == WithRowsOf(db, r)
<1>1. /\ writing[r].by = "report" /\ db' = t /\ r \in Runs
      /\ writing' = [writing EXCEPT ![r] = NothingWritten]
      /\ settling' = IF BatchFree THEN settling ELSE [settling EXCEPT !.stale = TRUE]
  BY AttemptPair DEF CommitReport
<1>2. /\ Consistent(db) /\ db \in Database /\ WritesSound(db, writing) /\ Numbered(db)
      /\ \A q \in Runs : WriteKeeps(db, q, writing[q])
  BY DEF PgInv, PgKept, Consistent
<1> HIDE DEF r
<1>3. /\ Consistent(t) /\ Verdict(t) /\ t.batch = db.batch /\ t.recovery = db.recovery
      /\ \A q \in Runs \ {r} : SameRows(db, t, q)
      /\ \A q \in Runs : Carries(db, t, q)
  BY <1>1, WrittenCarries
<1> HIDE DEF t
<1>4. t \in Database
  BY <1>3 DEF Consistent
<1>5. Numbered(t) /\ StepKept(db, t)
  BY <1>2, <1>3, CarriesNumbered, CarriesKept DEF BatchCarries
<1>6. ASSUME NEW q \in Runs \ {r}
      PROVE  /\ t.run[q] = db.run[q] /\ Flagged(db.run[q], t.run[q])
             /\ \A n \in AttemptNumbers : Lapsed(db.attempt[<<q, n>>], t.attempt[<<q, n>>])
  BY <1>3, SameLapsed DEF SameRows
<1>7. ASSUME NEW q \in Runs
      PROVE  WriteKeeps(t, q, writing'[q])
  <2>1. CASE q = r
    BY <1>1, <1>2, <2>1 DEF WriteKeeps, NothingWritten, WritesSound
  <2>2. CASE q # r
    <3>1. writing'[q] = writing[q]
      BY <1>1, <1>2, <2>2 DEF WritesSound
    <3>2. WriteKeeps(t, q, writing[q])
      BY <1>2, <1>6, <2>2, WriteStays
    <3> QED BY <3>1, <3>2
  <2> QED BY <2>1, <2>2
<1>8. CASE settling.phase = "idle"
  <2>1. settling'.phase = "idle"
    BY <1>1, <1>8 DEF BatchFree
  <2> QED BY <1>1, <1>3, <1>5, <1>7, <2>1 DEF PgKept
<1>9. CASE settling.phase # "idle"
  <2> DEFINE l == settling
             m == [l EXCEPT !.stale = TRUE]
  <2>1. settling' = m
    BY <1>1, <1>9 DEF BatchFree
  <2>2. /\ FenceSound(db, writing, l, answer) /\ FenceKeeps(db, l)
    BY <1>9 DEF PgInv, PgKept
  <2> HIDE DEF l
  <2>3. /\ DOMAIN l.run \subseteq Runs /\ l \in FencesOf(DOMAIN l.run)
        /\ ClosedSettled(Seen(db, l)) /\ r \notin DOMAIN l.run
    <3>1. writing[r].by = "report" => r \notin DOMAIN l.run
      BY <2>2 DEF FenceSound
    <3> QED BY <1>1, <2>2, <3>1 DEF FenceSound
  <2>4. /\ m \in FencesOf(DOMAIN l.run) /\ m.run = l.run /\ m.attempt = l.attempt
        /\ m.batch = l.batch /\ m.recovery = l.recovery
    BY <2>3, StaleFence
  <2> HIDE DEF m
  <2>5. FenceKeeps(t, m)
    BY <1>2, <1>3, <1>4, <1>6, <2>2, <2>3, <2>4, FenceStays
  <2> QED BY <1>1, <1>3, <1>5, <1>7, <2>1, <2>5 DEF PgKept
<1> QED BY <1>8, <1>9

\* Renewals, deadlines, late reports and requests to cancel.
LEMMA LocalKept ==
  ASSUME PgInv, PgKept, Local
  PROVE  PgKept' /\ StepKept(db, db')
<1> DEFINE t == db'
<1>1. /\ t \in Database /\ t.batch = db.batch /\ t.recovery = db.recovery
      /\ \A r \in Runs : Carries(db, t, r)
      /\ \A r \in Runs : Fences(r) => t.run[r] = db.run[r]
      /\ \A r \in Runs : ~RowsFree(r) =>
           /\ Flagged(db.run[r], t.run[r])
           /\ \A n \in AttemptNumbers : Lapsed(db.attempt[<<r, n>>], t.attempt[<<r, n>>])
      /\ writing' = writing /\ settling' = settling
  BY DEF Local, NothingOpenChanges
<1> HIDE DEF t
<1>2. /\ Consistent(db) /\ ClosedSettled(db) /\ db \in Database /\ Numbered(db) /\ Verdict(db)
      /\ \A r \in Runs : WriteKeeps(db, r, writing[r])
  BY DEF PgInv, PgKept, Consistent
<1>3. Numbered(t) /\ Verdict(t) /\ StepKept(db, t)
  BY <1>1, <1>2, CarriesNumbered, CarriesVerdict, CarriesKept DEF BatchCarries
<1>4. ASSUME NEW r \in Runs
      PROVE  WriteKeeps(t, r, writing[r])
  <2>1. CASE writing[r].by = "nobody"
    BY <2>1 DEF WriteKeeps
  <2>2. CASE writing[r].by # "nobody"
    <3>1. ~RowsFree(r)
      BY <2>2 DEF RowsFree
    <3> QED BY <1>1, <1>2, <3>1, WriteStays
  <2> QED BY <2>1, <2>2
<1>5. settling.phase # "idle" => FenceKeeps(t, settling)
  <2> SUFFICES ASSUME settling.phase # "idle"
               PROVE  FenceKeeps(t, settling)
    OBVIOUS
  <2> DEFINE l == settling
  <2>1. /\ DOMAIN l.run \subseteq Runs /\ l \in FencesOf(DOMAIN l.run)
        /\ ClosedSettled(Seen(db, l)) /\ FenceKeeps(db, l)
    BY DEF PgInv, PgKept, FenceSound
  <2>2. \A r \in DOMAIN l.run : Fences(r) /\ ~RowsFree(r) /\ r \in Runs
    BY <2>1 DEF RowsFree, Fences
  <2> HIDE DEF l
  <2>3. \A r \in DOMAIN l.run :
          /\ t.run[r] = db.run[r]
          /\ \A n \in AttemptNumbers : Lapsed(db.attempt[<<r, n>>], t.attempt[<<r, n>>])
    BY <1>1, <2>2
  <2>4. FenceKeeps(t, l)
    BY <1>1, <1>2, <2>1, <2>3, FenceStays
  <2> QED BY <2>4 DEF l
<1> QED BY <1>1, <1>3, <1>4, <1>5 DEF PgKept, t
\* A transaction writes rows; or it, or its answer, is lost.
LEMMA OpensKept ==
  ASSUME PgInv, PgKept, Opens
  PROVE  PgKept' /\ StepKept(db, db')
<1>1. settling'.phase # "idle" => FenceKeeps(db, settling')
  BY DEF Opens, PgKept
<1> QED BY <1>1, QuietKept DEF Opens

LEMMA LostKept ==
  ASSUME PgInv, PgKept, db' = db,
         writing' = writing \/ \E r \in Runs : writing' = [writing EXCEPT ![r] = NothingWritten],
         settling' = settling \/ settling'.phase = "idle"
  PROVE  PgKept' /\ StepKept(db, db')
<1>1. \A r \in Runs : WriteKeeps(db, r, NothingWritten)
  BY DEF WriteKeeps, NothingWritten
<1>2. \A r \in Runs : writing'[r] = writing[r] \/ WriteKeeps(db, r, writing'[r])
  BY <1>1 DEF PgInv, WritesSound
<1>3. settling'.phase # "idle" => FenceKeeps(db, settling')
  BY DEF PgKept
<1> QED BY <1>2, <1>3, QuietKept

LEMMA FailuresKept ==
  ASSUME PgInv, PgKept,
         \/ \E r \in Runs : FailRows(r) \/ BreakDeadlock(r)
         \/ \E a \in Attempts : FailAfterCommit(a) \/ LookForWorkInFlight(a) \/ RepeatReport(a)
         \/ FailScan
         \/ UNCHANGED pgVars
  PROVE  PgKept' /\ StepKept(db, db')
<1>1. NotSettling.phase = "idle"
  BY DEF NotSettling
<1>2. CASE \E r \in Runs : FailRows(r) \/ BreakDeadlock(r)
  <2>1. PICK r \in Runs : FailRows(r) \/ BreakDeadlock(r)
    BY <1>2
  <2>2. /\ db' = db /\ writing' = [writing EXCEPT ![r] = NothingWritten]
        /\ settling' = settling \/ settling' = NotSettling
    BY <2>1 DEF FailRows, BreakDeadlock, Fail
  <2> QED BY <1>1, <2>2, LostKept
<1>3. CASE \E a \in Attempts :
             FailAfterCommit(a) \/ LookForWorkInFlight(a) \/ RepeatReport(a)
  <2>1. PICK a \in Attempts : FailAfterCommit(a) \/ LookForWorkInFlight(a) \/ RepeatReport(a)
    BY <1>3
  <2>2. /\ db' = db /\ writing' = writing /\ (settling' = settling \/ settling' = NotSettling)
    BY <2>1 DEF FailAfterCommit, LookForWorkInFlight, RepeatReport, Fail
  <2> QED BY <1>1, <2>2, LostKept
<1>4. CASE FailScan \/ UNCHANGED pgVars
  <2>1. /\ db' = db /\ writing' = writing /\ (settling' = settling \/ settling' = NotSettling)
    BY <1>4 DEF FailScan, Fail, pgVars
  <2> QED BY <1>1, <2>1, LostKept
<1> QED BY <1>2, <1>3, <1>4

\* Transactions that lock what they change before they read it.
LEMMA FreeKept ==
  ASSUME PgInv, PgKept, BatchFree, NothingOpenChanges, Numbered(db'), Verdict(db'),
         \A r \in Runs : writing[r].by # "nobody" => SameRows(db, db', r)
  PROVE  PgKept'
<1> DEFINE t == db'
<1>1. /\ settling.phase = "idle" /\ writing' = writing /\ settling' = settling
      /\ Numbered(t) /\ Verdict(t)
      /\ \A r \in Runs : writing[r].by # "nobody" => SameRows(db, t, r)
  BY DEF BatchFree, NothingOpenChanges
<1> HIDE DEF t
<1>2. Consistent(db) /\ \A r \in Runs : WriteKeeps(db, r, writing[r])
  BY DEF PgInv, PgKept
<1>3. ASSUME NEW r \in Runs
      PROVE  WriteKeeps(t, r, writing[r])
  <2>1. CASE writing[r].by = "nobody"
    BY <2>1 DEF WriteKeeps
  <2>2. CASE writing[r].by # "nobody"
    <3>1. SameRows(db, t, r)
      BY <1>1, <2>2
    <3> QED BY <1>2, <3>1, SameLapsed, WriteStays
  <2> QED BY <2>1, <2>2
<1> QED BY <1>1, <1>3 DEF PgKept, t

\* Those that end with the aggregation of the batch.
LEMMA MovesFreeKept ==
  ASSUME PgInv, PgKept, BatchFree, NothingOpenChanges, Undisturbed,
         Moves(db, db'), db.batch.status \in BatchOpen
  PROVE  PgKept' /\ StepKept(db, db')
<1> DEFINE t == db'
<1>1. /\ Moves(db, t) /\ Numbered(db)
      /\ \A r \in Runs : writing[r].by # "nobody" => SameRows(db, t, r)
  BY DEF PgKept, Undisturbed, ChangedRuns, RowsFree, SameRows
<1> HIDE DEF t
<1>2. \A r \in Runs : t.run[r].attempts = db.run[r].attempts
  BY <1>1 DEF Moves, RunStep
<1>3. \A r \in Runs, n \in AttemptNumbers :
        AttemptStep(db.attempt[<<r, n>>], t.attempt[<<r, n>>])
  BY <1>1 DEF Moves, Attempts
<1>4. Numbered(t)
  BY <1>1, <1>2, <1>3, MovesNumbered
<1>5. Verdict(t) /\ StepKept(db, t)
  BY <1>1, MovesKept DEF Moves, BatchStep
<1>6. PgKept'
  BY <1>1, <1>4, <1>5, FreeKept DEF t
<1> QED BY <1>5, <1>6 DEF t

LEMMA SchedulingKept ==
  ASSUME PgInv, PgKept, Pause \/ Resume \/ Terminate \/ \E r \in Runs : TimeOutInQueue(r)
  PROVE  PgKept' /\ StepKept(db, db')
<1>1. Consistent(db) /\ db \in Database /\ Numbered(db) /\ Verdict(db)
  BY DEF PgInv, PgKept, Consistent
<1>2. CASE Pause
  <2> DEFINE t == db'
  <2>1. /\ t.run = db.run /\ t.attempt = db.attempt
        /\ t.batch.status = db.batch.status /\ t.batch.terminating = db.batch.terminating
        /\ ~db.batch.paused /\ BatchFree /\ NothingOpenChanges
    BY <1>1, <1>2 DEF Pause, PauseBatch, Database
  <2> HIDE DEF t
  <2>2. \A r \in Runs : SameRows(db, t, r)
    BY <2>1 DEF SameRows
  <2>3. Numbered(t) /\ Verdict(t)
    BY <1>1, <2>1 DEF Numbered, Verdict
  <2>4. StepKept(db, t)
    BY <2>1, StillKept DEF StepKept
  <2>5. PgKept'
    BY <2>1, <2>2, <2>3, FreeKept DEF t
  <2> QED BY <2>4, <2>5 DEF t
<1>3. CASE Resume
  <2>1. BatchFree /\ NothingOpenChanges /\ Undisturbed /\ ResumeBatch
    BY <1>3 DEF Resume
  <2>2. db.batch.status \in BatchOpen
    BY <2>1 DEF ResumeBatch
  <2> QED BY <1>1, <2>1, <2>2, ResumeBatchInv, MovesFreeKept
<1>4. CASE Terminate
  <2>1. BatchFree /\ NothingOpenChanges /\ Undisturbed /\ TerminateBatch
    BY <1>4 DEF Terminate
  <2>2. db.batch.status \in BatchOpen
    BY <2>1 DEF TerminateBatch
  <2> QED BY <1>1, <2>1, <2>2, TerminateBatchInv, MovesFreeKept
<1>5. ASSUME NEW r \in Runs, TimeOutInQueue(r)
      PROVE  PgKept' /\ StepKept(db, db')
  <2>1. BatchFree /\ NothingOpenChanges /\ Undisturbed /\ QueueTimeout(r)
    BY <1>5 DEF TimeOutInQueue
  <2>2. db.batch.status \in BatchOpen
    BY <2>1 DEF QueueTimeout
  <2> QED BY <1>1, <2>1, <2>2, QueueTimeoutInv, MovesFreeKept
<1> QED BY <1>2, <1>3, <1>4, <1>5

LEMMA ReserveKept ==
  ASSUME PgInv, PgKept, NEW D \in SUBSET Runs, ReserveRuns(D)
  PROVE  PgKept' /\ StepKept(db, db')
<1> DEFINE t == db'
<1>1. Consistent(db) /\ db \in Database /\ Numbered(db)
  BY DEF PgInv, PgKept, Consistent
<1>2. /\ BatchFree /\ NothingOpenChanges /\ ReserveAssignments(D)
      /\ \A r \in Runs : writing[r].by # "nobody" => r \notin D
  BY DEF ReserveRuns, RowsFree
<1>3. Reserves(db, t, D)
  BY <1>1, <1>2, ReserveAssignmentsRows
<1> HIDE DEF t
<1>4. Numbered(t) /\ StepKept(db, t) /\ Verdict(t)
  BY <1>1, <1>3, ReservesNumbered, ReservesKept DEF Reserves, Verdict
<1>5. \A r \in Runs : writing[r].by # "nobody" => SameRows(db, t, r)
  BY <1>2, <1>3 DEF Reserves, SameRows
<1>6. PgKept'
  BY <1>2, <1>4, <1>5, FreeKept DEF t
<1> QED BY <1>4, <1>6 DEF t
LEMMA ClaimKept ==
  ASSUME PgInv, PgKept, NEW S \in SUBSET Attempts, ClaimAssignments(S)
  PROVE  PgKept' /\ StepKept(db, db')
<1> DEFINE Taken(a) == [db.attempt[a] EXCEPT !.assignment = "claimed", !.lease = "active",
                          !.status = "running"]
           Started(r) == [db.run[r] EXCEPT !.status = "running"]
           Starts(r) == \E a \in S : a[1] = r
           st == IF db.batch.status \in BatchTerminal THEN db.batch.status ELSE "running"
           g == [a \in Attempts |-> IF a \in S THEN Taken(a) ELSE db.attempt[a]]
           f == [r \in Runs |-> IF Starts(r) THEN Started(r) ELSE db.run[r]]
           t == [db EXCEPT !.attempt = g, !.run = f, !.batch.status = st]
<1>1. /\ db' = t /\ BatchFree /\ NothingOpenChanges
      /\ \A a \in S : db.attempt[a].assignment = "pending" /\ RowsFree(a[1])
  BY DEF ClaimAssignments
<1>2. /\ Consistent(db) /\ db \in Database /\ ClosedSettled(db) /\ RowsAgree(db)
      /\ Numbered(db) /\ Verdict(db)
  BY DEF PgInv, PgKept, Consistent
<1>3. ASSUME NEW a \in S
      PROVE  /\ a[1] \in Runs /\ db.run[a[1]].status = "assigned"
             /\ AttemptKept(db.attempt[a], Taken(a))
  <2> DEFINE old == db.attempt[a]
  <2>1. /\ a[1] \in Runs /\ a = <<a[1], a[2]>> /\ a[2] \in AttemptNumbers
        /\ a[2] = db.run[a[1]].attempts /\ db.run[a[1]].status = "assigned"
    BY <1>1, ClaimedRow, AttemptPair
  <2>2. db.attempt[<<a[1], db.run[a[1]].attempts>>].status = "assigned"
    BY <1>2, <2>1 DEF RowsAgree, RunInFlight
  <2>3. old.status = "assigned"
    BY <2>1, <2>2
  <2>4. old \in AttemptRow
    BY <1>2 DEF Database
  <2> HIDE DEF old
  <2>5. [old EXCEPT !.assignment = "claimed", !.lease = "active", !.status = "running"] = Taken(a)
    BY DEF old
  <2>6. /\ Taken(a).status = "running" /\ Taken(a).lease = "active"
        /\ Taken(a).receipt = old.receipt
    BY <2>4, <2>5 DEF AttemptRow
  <2> HIDE DEF Taken
  <2> QED BY <2>1, <2>3, <2>6 DEF AttemptKept, old
<1>4. \A r \in Runs : /\ Started(r).status = "running"
                      /\ Started(r).attempts = db.run[r].attempts
  BY <1>2 DEF Database, RunRow
<1> HIDE DEF Taken, Started
<1>5. /\ \A r \in Runs, n \in AttemptNumbers :
           g[<<r, n>>] = IF <<r, n>> \in S THEN Taken(<<r, n>>) ELSE db.attempt[<<r, n>>]
      /\ \A r \in Runs : f[r] = IF Starts(r) THEN Started(r) ELSE db.run[r]
  BY DEF Attempts
<1> HIDE DEF f, g
<1>6. /\ t.run = f /\ t.attempt = g /\ t.batch.status = st /\ t.recovery = db.recovery
      /\ t.batch.round = db.batch.round /\ t.batch.terminating = db.batch.terminating
  BY <1>2 DEF Database
<1> HIDE DEF t
<1>7. ASSUME NEW r \in Runs, ~Starts(r)
      PROVE  SameRows(db, t, r)
  <2>1. \A n \in AttemptNumbers : <<r, n>> \notin S
    BY <1>7
  <2> QED BY <1>5, <1>6, <1>7, <2>1 DEF SameRows
<1>8. ASSUME NEW r \in Runs
      PROVE  Carries(db, t, r)
  <2>1. CASE Starts(r)
    <3>1. \A n \in AttemptNumbers : AttemptKept(db.attempt[<<r, n>>], t.attempt[<<r, n>>])
      BY <1>3, <1>5, <1>6, StillKept
    <3>2. /\ t.run[r].attempts = db.run[r].attempts /\ t.run[r].status = "running"
          /\ db.run[r].status = "assigned"
      BY <1>3, <1>4, <1>5, <1>6, <2>1
    <3> QED BY <3>1, <3>2 DEF Carries, RunTerminal
  <2>2. CASE ~Starts(r)
    BY <1>7, <2>2, StillCarries
  <2> QED BY <2>1, <2>2
<1>9. db.batch.status \in BatchTerminal => t.batch.status = db.batch.status
  BY <1>6
<1>10. StepKept(db, t)
  BY <1>6, <1>8, <1>9, CarriesKept DEF BatchCarries
<1>11. Numbered(t)
  BY <1>2, <1>8, CarriesNumbered
<1>12. Verdict(t)
  <2>1. CASE db.batch.status \in BatchTerminal
    BY <1>2, <1>6, <1>8, <1>9, <2>1, CarriesVerdict
  <2>2. CASE db.batch.status \notin BatchTerminal
    BY <1>6, <2>2 DEF Verdict, BatchTerminal
  <2> QED BY <2>1, <2>2
<1>13. \A r \in Runs : writing[r].by # "nobody" => SameRows(db, t, r)
  BY <1>1, <1>7 DEF RowsFree
<1>14. PgKept'
  BY <1>1, <1>11, <1>12, <1>13, FreeKept
<1> QED BY <1>1, <1>10, <1>14

-----------------------------------------------------------------------------
LEMMA PgInitKept ==
  ASSUME PgInit
  PROVE  PgKept
<1>1. /\ writing = [r \in Runs |-> NothingWritten] /\ settling.phase = "idle"
  BY DEF PgInit, NotSettling
<1>2. Numbered(db) /\ Verdict(db)
  BY DEF PgInit, Init, Numbered, Verdict, Attempts, NoAttempt, BatchTerminal
<1>3. \A r \in Runs : WriteKeeps(db, r, writing[r])
  BY <1>1 DEF WriteKeeps, NothingWritten
<1> QED BY <1>1, <1>2, <1>3 DEF PgKept

LEMMA PgNextKept ==
  ASSUME PgInv, PgKept, [PgNext]_pgVars
  PROVE  PgKept' /\ StepKept(db, db')
<1>1. CASE \E D \in SUBSET Runs : ReserveRuns(D)
  BY <1>1, ReserveKept
<1>2. CASE \E S \in SUBSET {a \in Attempts : db.attempt[a].assignment = "pending"} :
             ClaimAssignments(S)
  BY <1>2, ClaimKept
<1>3. ASSUME NEW a \in Attempts, \/ Renew(a) \/ RenewInTime(a) \/ LateReport(a)
                                 \/ \E d \in Deadlines : Lapse(a, d)
      PROVE  PgKept' /\ StepKept(db, db')
  BY <1>3, RenewLocal, RenewInTimeLocal, LateReportLocal, LapseLocal, LocalKept
<1>4. ASSUME NEW a \in Attempts, \/ \E result \in Results : OpenReport(a, result)
                                 \/ OpenLeasedExpiry(a) \/ OpenUnclaimedExpiry(a)
      PROVE  PgKept' /\ StepKept(db, db')
  BY <1>4, OpenReportKeeps, OpenLeasedExpiryKeeps, OpenUnclaimedExpiryKeeps, OpensKept
<1>5. ASSUME NEW a \in Attempts, CommitReport(a) \/ SettleAfterReport(a)
      PROVE  PgKept' /\ StepKept(db, db')
  BY <1>5, CommitReportKept, SettleAfterReportKept
<1>6. ASSUME NEW r \in Runs, AskToCancel(r) \/ LapseInQueue(r)
      PROVE  PgKept' /\ StepKept(db, db')
  BY <1>6, AskToCancelLocal, LapseInQueueLocal, LocalKept
<1>7. ASSUME NEW r \in Runs, OpenCancel(r) \/ SettleClose(r)
      PROVE  PgKept' /\ StepKept(db, db')
  BY <1>7, OpenCancelKeeps, OpensKept, SettleCloseKept
<1>8. CASE AggregateBatch \/ CommitSettlement \/ ScanTerminatingBatch
  BY <1>8, AggregateKept, CommitSettlementKept, ScanKept
<1>9. CASE Pause \/ Resume \/ Terminate \/ \E r \in Runs : TimeOutInQueue(r)
  BY <1>9, SchedulingKept
<1>10. CASE \/ \E r \in Runs : FailRows(r) \/ BreakDeadlock(r)
            \/ \E a \in Attempts : FailAfterCommit(a) \/ LookForWorkInFlight(a) \/ RepeatReport(a)
            \/ FailScan \/ UNCHANGED pgVars
  BY <1>10, FailuresKept
<1> QED BY <1>1, <1>2, <1>3, <1>4, <1>5, <1>6, <1>7, <1>8, <1>9, <1>10 DEF PgNext

LEMMA PgAlwaysKept == PgSpec => []PgKept
<1>1. PgInit => PgKept
  BY PgInitKept
<1>2. PgInv /\ PgKept /\ [PgNext]_pgVars => PgKept'
  BY PgNextKept
<1> QED BY <1>1, <1>2, PgAlwaysInv, PTL DEF PgSpec

\* updateBatchStatus: the batch closes with the verdict its runs deserve, although
\* the verdict is aggregated on one snapshot and committed over another.
THEOREM PgVerdictTrue == PgSpec => []VerdictMatchesRuns
<1>1. PgKept => VerdictMatchesRuns
  BY DEF PgKept, Verdict, VerdictMatchesRuns
<1> QED BY <1>1, PgAlwaysKept, PTL

\* completeAttempt, recoverExpired and cancelRun: who commits second finds the
\* end that the first has written, and leaves it.
THEOREM PgFirstWriteStands == PgSpec => FinalStaysFinal
<1>1. ASSUME PgInv, PgKept, [PgNext]_pgVars
      PROVE  Final(db, db')
  <2>1. StepKept(db, db')
    BY <1>1, PgNextKept
  <2>2. ASSUME NEW a \in Attempts
        PROVE  /\ db.attempt[a].status \in AttemptTerminal =>
                    /\ db'.attempt[a].status = db.attempt[a].status
                    /\ db'.attempt[a].code = db.attempt[a].code
               /\ db.attempt[a].receipt # "none" =>
                    db'.attempt[a].receipt = db.attempt[a].receipt
    <3>1. PICK r \in Runs, n \in AttemptNumbers : a = <<r, n>>
      BY AttemptPair
    <3>2. AttemptKept(db.attempt[a], db'.attempt[a]) \/ db.attempt[a] = NoAttempt
      BY <2>1, <3>1 DEF StepKept
    <3> QED BY <3>2 DEF AttemptKept, RunInFlight, AttemptTerminal, NoAttempt
  <2> QED BY <2>1, <2>2 DEF StepKept, Final
<1>2. PgInv /\ PgKept /\ [PgNext]_pgVars =>
        [ /\ \A a \in Attempts :
               /\ db.attempt[a].status \in AttemptTerminal =>
                    /\ db'.attempt[a].status = db.attempt[a].status
                    /\ db'.attempt[a].code = db.attempt[a].code
               /\ db.attempt[a].receipt # "none" =>
                    db'.attempt[a].receipt = db.attempt[a].receipt
          /\ \A r \in Runs : db.run[r].status \in RunTerminal => db'.run[r] = db.run[r]
          /\ db.batch.status \in BatchTerminal => db'.batch.status = db.batch.status ]_db
  BY <1>1 DEF Final
<1> QED BY <1>2, PgAlwaysInv, PgAlwaysKept, PTL DEF PgSpec, FinalStaysFinal

\* changeBatchScheduling: a pause takes the lock of the batch, so that nothing
\* which was decided before it is dispatched after it.
THEOREM PgPauseIsRespected == PgSpec => PausedIsQuiet
<1>1. ASSUME PgInv, PgKept, [PgNext]_pgVars, db.batch.paused, db'.batch.paused
      PROVE  /\ db'.batch.round = db.batch.round
             /\ \A p \in RecoverySteps : db.recovery[p] = "idle" => db'.recovery[p] # "pending"
             /\ \A r \in Runs : /\ db'.run[r].attempts = db.run[r].attempts
                                /\ db.run[r].status = "queued" => db'.run[r].status # "failed"
  <2>1. StepKept(db, db')
    BY <1>1, PgNextKept
  <2> QED BY <1>1, <2>1 DEF StepKept
<1>2. PgInv /\ PgKept /\ [PgNext]_pgVars =>
        [ db.batch.paused /\ db'.batch.paused =>
            /\ db'.batch.round = db.batch.round
            /\ \A p \in RecoverySteps : db.recovery[p] = "idle" => db'.recovery[p] # "pending"
            /\ \A r \in Runs : /\ db'.run[r].attempts = db.run[r].attempts
                               /\ db.run[r].status = "queued" => db'.run[r].status # "failed" ]_db
  BY <1>1
<1> QED BY <1>2, PgAlwaysInv, PgAlwaysKept, PTL DEF PgSpec, PausedIsQuiet
=============================================================================
