--------------------------- MODULE ControlStepProofs ---------------------------
(***************************************************************************)
(* More proofs about ExecutionControl: what a step may never do, and the   *)
(* properties that count attempts.  All rest on NextInv: a transaction     *)
(* either reserves runs, or each attempt, each run and the batch move as   *)
(* AttemptStep, RunStep and BatchStep say.                                 *)
(***************************************************************************)
EXTENDS ExecutionControlProofs, FiniteSetTheorems

-----------------------------------------------------------------------------
(* The verdict.                                                            *)

\* Aggregation gives a batch its verdict when it closes, and no transaction
\* touches the runs of a closed batch.
LEMMA NextVerdict ==
  ASSUME Inv(db), Verdict(db), [Next]_db
  PROVE  Verdict(db')
<1>1. CASE Moves(db, db') /\ db.batch.status \in BatchOpen
  BY <1>1 DEF Moves, BatchStep
<1>2. CASE Moves(db, db') /\ db.batch.status \in BatchTerminal
  <2>1. \A r \in Runs : db'.run[r] = db.run[r]
    BY <1>2 DEF Moves, RunStep, Inv, AllSettled
  <2>2. /\ db'.batch.status = db.batch.status
        /\ db'.batch.terminating = db.batch.terminating
    BY <1>2 DEF Moves, BatchStep
  <2> QED BY <2>1, <2>2 DEF Verdict
<1>3. ASSUME NEW D \in SUBSET Runs, Reserves(db, db', D)
      PROVE  Verdict(db')
  BY <1>3 DEF Reserves, Verdict
<1>4. db.batch.status \in BatchOpen \/ db.batch.status \in BatchTerminal
  BY DEF Inv, Consistent, Database
<1> QED BY <1>1, <1>2, <1>3, <1>4, NextInv

\* updateBatchStatus: a batch closes with the verdict its runs deserve, and
\* nothing that comes after can make it untrue.
THEOREM VerdictTrue == Spec => []VerdictMatchesRuns
<1>1. Init => Verdict(db)
  BY DEF Init, Verdict, BatchTerminal
<1>2. Inv(db) /\ Verdict(db) /\ [Next]_db => Verdict(db)'
  BY NextVerdict
<1>3. Verdict(db) => VerdictMatchesRuns
  BY DEF Verdict, VerdictMatchesRuns
<1> QED BY <1>1, <1>2, <1>3, AlwaysInv, PTL DEF Spec

-----------------------------------------------------------------------------
(* Attempts are numbered in the order they are made.                       *)

Numbered(s) ==
  \A r \in Runs, n \in AttemptNumbers :
    s.attempt[<<r, n>>].status # "absent" => n <= s.run[r].attempts

\* A moved row is there exactly if it was before.
LEMMA StepPresence ==
  ASSUME NEW old, NEW new, AttemptStep(old, new)
  PROVE  new.status # "absent" => old.status # "absent"
  BY DEF AttemptStep, Ends, RunInFlight

\* No transaction makes an attempt out of turn.
LEMMA MovesNumbered ==
  ASSUME NEW s, NEW t, Numbered(s),
         \A r \in Runs : t.run[r].attempts = s.run[r].attempts,
         \A r \in Runs, n \in AttemptNumbers :
           AttemptStep(s.attempt[<<r, n>>], t.attempt[<<r, n>>])
  PROVE  Numbered(t)
<1> SUFFICES ASSUME NEW r \in Runs, NEW n \in AttemptNumbers,
                    t.attempt[<<r, n>>].status # "absent"
             PROVE  n <= t.run[r].attempts
  BY DEF Numbered
<1>1. AttemptStep(s.attempt[<<r, n>>], t.attempt[<<r, n>>])
  OBVIOUS
<1>2. s.attempt[<<r, n>>].status # "absent"
  BY <1>1, StepPresence
<1> QED BY <1>2 DEF Numbered

LEMMA ReservesNumbered ==
  ASSUME NEW s, NEW t, s \in Database, Numbered(s), NEW D \in SUBSET Runs, Reserves(s, t, D)
  PROVE  Numbered(t)
<1> SUFFICES ASSUME NEW r \in Runs, NEW n \in AttemptNumbers,
                    t.attempt[<<r, n>>].status # "absent"
             PROVE  n <= t.run[r].attempts
  BY DEF Numbered
<1>1. s.run[r].attempts \in Nat /\ n \in Nat
  BY ControlAssumption DEF Database, RunRow
<1>2. CASE r \in D
  BY <1>1, <1>2 DEF Reserves, Numbered
<1>3. CASE r \notin D
  BY <1>1, <1>3 DEF Reserves, Numbered
<1> QED BY <1>2, <1>3

LEMMA NextNumbered ==
  ASSUME Inv(db), Numbered(db), [Next]_db
  PROVE  Numbered(db')
<1> DEFINE t == db'
<1> SUFFICES Numbered(t)
  OBVIOUS
<1>1. Moves(db, t) \/ \E D \in SUBSET Runs : Reserves(db, t, D)
  BY NextInv
<1> HIDE DEF t
<1>2. CASE Moves(db, t)
  <2>1. \A r \in Runs : t.run[r].attempts = db.run[r].attempts
    BY <1>2 DEF Moves, RunStep
  <2>2. \A r \in Runs, n \in AttemptNumbers :
          AttemptStep(db.attempt[<<r, n>>], t.attempt[<<r, n>>])
    BY <1>2 DEF Moves, Attempts
  <2> QED BY <2>1, <2>2, MovesNumbered
<1>3. CASE \E D \in SUBSET Runs : Reserves(db, t, D)
  BY <1>3, ReservesNumbered DEF Inv, Consistent
<1> QED BY <1>1, <1>2, <1>3

\* The numbers of the attempts of a run are those up to its count.
LEMMA AlwaysNumbered == Spec => []Numbered(db)
<1>1. Init => Numbered(db)
  BY DEF Init, Numbered, Attempts, NoAttempt
<1>2. Inv(db) /\ Numbered(db) /\ [Next]_db => Numbered(db)'
  BY NextNumbered
<1> QED BY <1>1, <1>2, AlwaysInv, PTL DEF Spec

-----------------------------------------------------------------------------
(* What a step may never do.                                               *)

Final(s, t) ==
  /\ \A a \in Attempts :
       /\ s.attempt[a].status \in AttemptTerminal =>
            t.attempt[a].status = s.attempt[a].status /\ t.attempt[a].code = s.attempt[a].code
       /\ s.attempt[a].receipt # "none" => t.attempt[a].receipt = s.attempt[a].receipt
  /\ \A r \in Runs : s.run[r].status \in RunTerminal => t.run[r] = s.run[r]
  /\ s.batch.status \in BatchTerminal => t.batch.status = s.batch.status

\* A transaction that reserves meets attempts that are new.
LEMMA ReservedAttempts ==
  ASSUME NEW s, NEW t, Consistent(s), Numbered(s), NEW D \in SUBSET Runs, Reserves(s, t, D),
         NEW a \in Attempts
  PROVE  t.attempt[a] = s.attempt[a] \/ s.attempt[a] = NoAttempt
<1>1. a[1] \in Runs /\ a[2] \in AttemptNumbers /\ a = <<a[1], a[2]>>
  BY AttemptPair
<1>2. s.run[a[1]].attempts \in Nat
  BY <1>1 DEF Consistent, Database, RunRow
<1>3. CASE a[1] \in D /\ a[2] = s.run[a[1]].attempts + 1
  <2>1. ~(a[2] <= s.run[a[1]].attempts)
    BY <1>2, <1>3
  <2>2. s.attempt[<<a[1], a[2]>>].status = "absent"
    BY <1>1, <2>1 DEF Numbered
  <2> QED BY <1>1, <2>2 DEF Consistent, RowShape
<1>4. CASE ~(a[1] \in D /\ a[2] = s.run[a[1]].attempts + 1)
  <2>1. t.attempt[<<a[1], a[2]>>] = s.attempt[<<a[1], a[2]>>]
    BY <1>1, <1>4 DEF Reserves
  <2> QED BY <1>1, <2>1
<1> QED BY <1>3, <1>4

\* completeAttempt, recoverExpired, cancelRun, terminateBatch: the first
\* terminal write of an attempt, a run, a batch or a receipt stands.
THEOREM FirstWriteStands == Spec => FinalStaysFinal
<1>1. ASSUME Inv(db), Numbered(db), [Next]_db
      PROVE  Final(db, db')
  <2>1. CASE Moves(db, db')
    <3>1. ASSUME NEW a \in Attempts
          PROVE  /\ db.attempt[a].status \in AttemptTerminal =>
                      /\ db'.attempt[a].status = db.attempt[a].status
                      /\ db'.attempt[a].code = db.attempt[a].code
                 /\ db.attempt[a].receipt # "none" =>
                      db'.attempt[a].receipt = db.attempt[a].receipt
      <4>1. AttemptStep(db.attempt[a], db'.attempt[a])
        BY <2>1 DEF Moves
      <4> QED BY <4>1 DEF AttemptStep, Ends, RunInFlight, AttemptTerminal
    <3> QED BY <2>1, <3>1 DEF Moves, RunStep, BatchStep, Final
  <2>2. ASSUME NEW D \in SUBSET Runs, Reserves(db, db', D)
        PROVE  Final(db, db')
    <3>1. \A r \in Runs : db.run[r].status \in RunTerminal => db'.run[r] = db.run[r]
      BY <2>2 DEF Reserves, RunTerminal
    <3>2. db.batch.status \notin BatchTerminal
      BY <2>2 DEF Reserves, BatchOpen, BatchTerminal
    <3>3. \A a \in Attempts : db'.attempt[a] = db.attempt[a] \/ db.attempt[a] = NoAttempt
      BY <1>1, <2>2, ReservedAttempts DEF Inv
    <3> QED BY <3>1, <3>2, <3>3 DEF Final, NoAttempt, AttemptTerminal
  <2> QED BY <1>1, <2>1, <2>2, NextInv
<1>2. Inv(db) /\ Numbered(db) /\ [Next]_db =>
        [ /\ \A a \in Attempts :
               /\ db.attempt[a].status \in AttemptTerminal =>
                    /\ db'.attempt[a].status = db.attempt[a].status
                    /\ db'.attempt[a].code = db.attempt[a].code
               /\ db.attempt[a].receipt # "none" =>
                    db'.attempt[a].receipt = db.attempt[a].receipt
          /\ \A r \in Runs : db.run[r].status \in RunTerminal => db'.run[r] = db.run[r]
          /\ db.batch.status \in BatchTerminal => db'.batch.status = db.batch.status ]_db
  BY <1>1 DEF Final
<1> QED BY <1>2, AlwaysInv, AlwaysNumbered, PTL DEF Spec, FinalStaysFinal

\* The run of an active lease is running.
LEMMA LeasedRunRuns ==
  ASSUME Inv(db), NEW r \in Runs, NEW n \in AttemptNumbers,
         db.attempt[<<r, n>>].lease = "active"
  PROVE  db.run[r].status = "running"
<1>1. <<r, n>> \in Attempts /\ RowsAgree(db)
  BY DEF Attempts, Inv, Consistent
<1>2. db.attempt[<<r, n>>].status = "running"
  BY <1>1, InvFacts DEF RowShape, AttemptRow, NoAttempt, RunInFlight, AttemptTerminal
<1> QED BY <1>1, <1>2 DEF RowsAgree, RunInFlight

\* changeBatchScheduling: between two transactions that find scheduling paused
\* nothing is dispatched and nothing waits in vain.
THEOREM PauseIsRespected == Spec => PausedIsQuiet
<1>1. ASSUME Inv(db), [Next]_db, db.batch.paused, db'.batch.paused
      PROVE  /\ db'.batch.round = db.batch.round
             /\ \A p \in RecoverySteps : db.recovery[p] = "idle" => db'.recovery[p] # "pending"
             /\ \A r \in Runs : /\ db'.run[r].attempts = db.run[r].attempts
                                /\ db.run[r].status = "queued" => db'.run[r].status # "failed"
  <2>1. Moves(db, db')
    BY <1>1, NextInv DEF Reserves
  <2> QED BY <1>1, <2>1 DEF Moves, RunStep, BatchStep
<1>2. Inv(db) /\ [Next]_db =>
        [ db.batch.paused /\ db'.batch.paused =>
            /\ db'.batch.round = db.batch.round
            /\ \A p \in RecoverySteps : db.recovery[p] = "idle" => db'.recovery[p] # "pending"
            /\ \A r \in Runs : /\ db'.run[r].attempts = db.run[r].attempts
                               /\ db.run[r].status = "queued" => db'.run[r].status # "failed" ]_db
  BY <1>1
<1> QED BY <1>2, AlwaysInv, PTL DEF Spec, PausedIsQuiet

\* cancelRun, terminateBatch and recoverExpired: an agent loses a lease that
\* holds only with its own report or for an overrun window.
THEOREM ValidLeasesKept == Spec => ValidLeaseIsKept
<1>1. ASSUME Inv(db), [Next]_db, NEW a \in Attempts, Leased(db.attempt[a]),
             db'.attempt[a].lease # "active"
      PROVE  \/ db'.attempt[a].receipt = "accepted"
             \/ /\ db'.attempt[a].lease = "expired"
                /\ db.attempt[a].due \cap {"execution", "upload"} # {}
  <2>1. CASE Moves(db, db')
    <3>1. AttemptStep(db.attempt[a], db'.attempt[a])
      BY <2>1 DEF Moves
    <3> QED BY <1>1, <3>1 DEF AttemptStep, Ends, Leased
  <2>2. ASSUME NEW D \in SUBSET Runs, Reserves(db, db', D)
        PROVE  FALSE
    <3>1. PICK r \in Runs, n \in AttemptNumbers : a = <<r, n>>
      BY AttemptPair
    <3>2. r \in D /\ n = db.run[r].attempts + 1
      BY <1>1, <2>2, <3>1 DEF Reserves, Leased
    <3>3. db.run[r].status = "running"
      BY <1>1, <3>1, LeasedRunRuns DEF Leased
    <3> QED BY <2>2, <3>2, <3>3 DEF Reserves
  <2> QED BY <1>1, <2>1, <2>2, NextInv
<1>2. ASSUME Inv(db), [Next]_db
      PROVE  \A a \in Attempts : Leased(db.attempt[a]) /\ db'.attempt[a].lease # "active" =>
               \/ db'.attempt[a].receipt = "accepted"
               \/ db'.attempt[a].lease = "expired" /\ db.attempt[a].due \cap {"execution", "upload"} # {}
  BY <1>1, <1>2
<1>3. Inv(db) /\ [Next]_db =>
        [ \A a \in Attempts : Leased(db.attempt[a]) /\ db'.attempt[a].lease # "active" =>
            \/ db'.attempt[a].receipt = "accepted"
            \/ db'.attempt[a].lease = "expired" /\ db.attempt[a].due \cap {"execution", "upload"} # {} ]_db
  BY <1>2
<1> QED BY <1>3, AlwaysInv, PTL DEF Spec, ValidLeaseIsKept

-----------------------------------------------------------------------------
(* Concurrency.                                                            *)

\* Only the latest attempts of runs can be active.
LEMMA ActiveFinite ==
  ASSUME Inv(db)
  PROVE  IsFiniteSet(ActiveAttempts(db))
<1> DEFINE f == [r \in Runs |-> <<r, db.run[r].attempts>>]
           T == {f[r] : r \in Runs}
<1>1. f \in Surjection(Runs, T)
  BY DEF Surjection
<1>2. IsFiniteSet(T)
  <2> HIDE DEF f, T
  <2> QED BY <1>1, FS_Surjection, ControlAssumption
<1>3. ASSUME NEW a \in ActiveAttempts(db)
      PROVE  a \in T
  <2>1. PICK r \in Runs, n \in AttemptNumbers : a = <<r, n>>
    BY AttemptPair DEF ActiveAttempts
  <2>2. n = db.run[r].attempts
    BY <1>3, <2>1 DEF ActiveAttempts, Inv, Consistent, RowsAgree
  <2> QED BY <2>1, <2>2
<1> DEFINE A == ActiveAttempts(db)
<1>4. A \subseteq T
  BY <1>3
<1>5. IsFiniteSet(A)
  <2> HIDE DEF A, T
  <2> QED BY <1>2, <1>4, FS_Subset
<1> QED BY <1>5

\* No transaction but a reservation takes a slot.
LEMMA MovesFreeSlots ==
  ASSUME Inv(db), Inv(db'), Moves(db, db')
  PROVE  ActiveAttempts(db') \subseteq ActiveAttempts(db)
<1> SUFFICES ASSUME NEW a \in Attempts, db'.attempt[a].status \in RunInFlight
             PROVE  db.attempt[a].status \in RunInFlight /\ db.run[a[1]].status \in RunInFlight
  BY DEF ActiveAttempts
<1>1. AttemptStep(db.attempt[a], db'.attempt[a])
  BY DEF Moves
<1>2. db.attempt[a].status \in RunInFlight
  BY <1>1 DEF AttemptStep, Ends, RunInFlight, AttemptTerminal
<1>3. a[1] \in Runs /\ a[2] \in AttemptNumbers /\ a = <<a[1], a[2]>>
  BY AttemptPair
<1>4. RowsAgree(db)
  BY DEF Inv, Consistent
<1>5. \A r \in Runs, n \in AttemptNumbers :
        db.attempt[<<r, n>>].status \in RunInFlight => db.run[r].status \in RunInFlight
  BY <1>4 DEF RowsAgree
<1> QED BY <1>2, <1>3, <1>5

\* A reservation takes one slot for each of its runs.
LEMMA ReserveTakesSlots ==
  ASSUME Inv(db), NEW D \in SUBSET Runs, Reserves(db, db', D)
  PROVE  /\ IsFiniteSet(ActiveAttempts(db')) /\ IsFiniteSet(D)
         /\ Cardinality(ActiveAttempts(db')) <= Cardinality(ActiveAttempts(db)) + Cardinality(D)
<1> DEFINE f == [r \in D |-> <<r, db.run[r].attempts + 1>>]
           T == {f[r] : r \in D}
           A == ActiveAttempts(db)
           B == ActiveAttempts(db')
<1>1. IsFiniteSet(D) /\ IsFiniteSet(A)
  BY FS_Subset, ControlAssumption, ActiveFinite
<1>2. f \in Surjection(D, T)
  BY DEF Surjection
<1>3. ASSUME NEW a \in B
      PROVE  a \in A \cup T
  <2>1. PICK r \in Runs, n \in AttemptNumbers : a = <<r, n>>
    BY AttemptPair DEF ActiveAttempts
  <2>2. CASE r \in D /\ n = db.run[r].attempts + 1
    BY <2>1, <2>2
  <2>3. CASE ~(r \in D /\ n = db.run[r].attempts + 1)
    <3>1. db'.attempt[a] = db.attempt[a] /\ a \in Attempts /\ db'.attempt[a].status \in RunInFlight
      BY <2>1, <2>3 DEF Reserves, ActiveAttempts
    <3>2. db.run[r].status \in RunInFlight
      BY <2>1, <3>1 DEF Inv, Consistent, RowsAgree
    <3> QED BY <2>1, <3>1, <3>2 DEF ActiveAttempts
  <2> QED BY <2>2, <2>3
<1> HIDE DEF f, T, A, B
<1>4. IsFiniteSet(T) /\ Cardinality(T) <= Cardinality(D)
  BY <1>1, <1>2, FS_Surjection
<1>5. /\ IsFiniteSet(A \cup T)
      /\ Cardinality(A \cup T) = Cardinality(A) + Cardinality(T) - Cardinality(A \cap T)
      /\ IsFiniteSet(A \cap T)
  BY <1>1, <1>4, FS_Union, FS_Intersection
<1>6. IsFiniteSet(B) /\ Cardinality(B) <= Cardinality(A \cup T)
  BY <1>3, <1>5, FS_Subset
<1>7. /\ Cardinality(A) \in Nat /\ Cardinality(T) \in Nat /\ Cardinality(A \cap T) \in Nat
      /\ Cardinality(B) \in Nat /\ Cardinality(D) \in Nat /\ Cardinality(A \cup T) \in Nat
  BY <1>1, <1>4, <1>5, <1>6, FS_CardinalityType
<1>8. Cardinality(B) <= Cardinality(A) + Cardinality(D)
  BY <1>4, <1>5, <1>6, <1>7
<1> QED BY <1>1, <1>6, <1>8 DEF A, B

\* reserveAssignments: whatever frees slots and however often it is called,
\* the attempts in flight never outnumber the concurrency of the batch's policy.
\* That figure is one constant: a rule that changes it between rounds
\* (retryConcurrencyState) and a policy without one are not covered.
THEOREM ConcurrencySafe == Spec => []ConcurrencyRespected
<1>1. Init => ConcurrencyRespected
  <2> SUFFICES ASSUME Init PROVE ConcurrencyRespected
    OBVIOUS
  <2>1. ActiveAttempts(db) = {}
    BY DEF Init, ActiveAttempts, NoAttempt, RunInFlight
  <2> QED BY <2>1, FS_EmptySet, ControlAssumption DEF ConcurrencyRespected
<1>2. ASSUME Inv(db), ConcurrencyRespected, [Next]_db
      PROVE  ConcurrencyRespected'
  <2>1. Inv(db') /\ (Moves(db, db') \/ \E D \in SUBSET Runs : Reserves(db, db', D))
    BY <1>2, NextInv
  <2>2. IsFiniteSet(ActiveAttempts(db)) /\ Cardinality(ActiveAttempts(db)) \in Nat
    BY <1>2, ActiveFinite, FS_CardinalityType
  <2>3. CASE ActiveAttempts(db') \subseteq ActiveAttempts(db)
    <3>1. /\ IsFiniteSet(ActiveAttempts(db'))
          /\ Cardinality(ActiveAttempts(db')) <= Cardinality(ActiveAttempts(db))
      BY <2>2, <2>3, FS_Subset
    <3>2. Cardinality(ActiveAttempts(db')) \in Nat
      BY <3>1, FS_CardinalityType
    <3> QED BY <1>2, <2>2, <3>1, <3>2, ControlAssumption DEF ConcurrencyRespected
  <2>4. ASSUME NEW D \in SUBSET Runs, Reserves(db, db', D), D # {}
        PROVE  ConcurrencyRespected'
    <3>1. Cardinality(D) <= BatchConcurrency - Cardinality(ActiveAttempts(db))
      BY <2>4 DEF Reserves, FreeSlots
    <3>2. /\ IsFiniteSet(ActiveAttempts(db')) /\ IsFiniteSet(D)
          /\ Cardinality(ActiveAttempts(db')) <= Cardinality(ActiveAttempts(db)) + Cardinality(D)
      BY <1>2, <2>4, ReserveTakesSlots
    <3>3. Cardinality(ActiveAttempts(db')) \in Nat /\ Cardinality(D) \in Nat
      BY <3>2, FS_CardinalityType
    <3> QED BY <2>2, <3>1, <3>2, <3>3, ControlAssumption DEF ConcurrencyRespected
  <2>5. ASSUME Reserves(db, db', {})
        PROVE  ActiveAttempts(db') \subseteq ActiveAttempts(db)
    BY <2>5, AttemptPair DEF Reserves, ActiveAttempts
  <2> QED BY <1>2, <2>1, <2>3, <2>4, <2>5, MovesFreeSlots
<1> QED BY <1>1, <1>2, AlwaysInv, PTL DEF Spec

-----------------------------------------------------------------------------
(* The retry budgets.                                                      *)

OtherCodes == CodeClasses \ {"runner"}

Broken(s, r) == Cardinality(FailedAttempts(s, r, {"runner"}))
Unsuccessful(s, r) == Cardinality(FailedAttempts(s, r, OtherCodes))

InFlight(s, r) == IF s.run[r].status \in RunInFlight THEN 1 ELSE 0

\* While a run is open all of its attempts but the one in flight have failed
\* within the two budgets; the failure that ends it may exceed one of them.
BudgetOf(s, r) ==
  /\ Broken(s, r) <= MaxRunnerReschedules + 1 /\ Unsuccessful(s, r) <= RetryLimit + 1
  /\ s.run[r].attempts <= 1 + RetryLimit + MaxRunnerReschedules
  /\ s.run[r].status \notin RunTerminal =>
       /\ Broken(s, r) <= MaxRunnerReschedules /\ Unsuccessful(s, r) <= RetryLimit
       /\ s.run[r].attempts <= Broken(s, r) + Unsuccessful(s, r) + InFlight(s, r)

Budget(s) == \A r \in Runs : BudgetOf(s, r)

\* Attempts are counted, so the failed ones are finitely many.
LEMMA FailedFinite ==
  ASSUME NEW s \in Database, Numbered(s), NEW r \in Runs, NEW C
  PROVE  /\ IsFiniteSet(FailedAttempts(s, r, C))
         /\ Cardinality(FailedAttempts(s, r, C)) \in Nat
<1>1. s.run[r].attempts \in Nat
  BY DEF Database, RunRow
<1>2. \A n \in FailedAttempts(s, r, C) : n \in Nat /\ n <= s.run[r].attempts
  BY ControlAssumption DEF FailedAttempts, Numbered
<1> QED BY <1>1, <1>2, FS_BoundedSetOfNaturals, FS_CardinalityType

\* An attempt fails once, and only while it is in flight.
LEMMA MovesFailed ==
  ASSUME Inv(db), Moves(db, db'), NEW r \in Runs, NEW C
  PROVE  LET k == db.run[r].attempts
         IN  /\ FailedAttempts(db', r, C) \subseteq FailedAttempts(db, r, C) \cup {k}
             /\ FailedAttempts(db, r, C) \subseteq FailedAttempts(db', r, C)
             /\ k \in FailedAttempts(db', r, C) \ FailedAttempts(db, r, C) =>
                  db.run[r].status \in RunInFlight
<1>1. ASSUME NEW n \in AttemptNumbers
      PROVE  /\ AttemptStep(db.attempt[<<r, n>>], db'.attempt[<<r, n>>])
             /\ db.attempt[<<r, n>>].status \in RunInFlight =>
                  n = db.run[r].attempts /\ db.run[r].status \in RunInFlight
  BY DEF Moves, Attempts, Inv, Consistent, RowsAgree
<1>2. ASSUME NEW n \in FailedAttempts(db', r, C), n \notin FailedAttempts(db, r, C)
      PROVE  n = db.run[r].attempts /\ db.run[r].status \in RunInFlight
  <2>1. n \in AttemptNumbers
    BY DEF FailedAttempts
  <2> QED BY <1>1, <1>2, <2>1 DEF AttemptStep, Ends, FailedAttempts
<1>3. ASSUME NEW n \in FailedAttempts(db, r, C)
      PROVE  n \in FailedAttempts(db', r, C)
  <2>1. n \in AttemptNumbers
    BY DEF FailedAttempts
  <2> QED BY <1>1, <2>1 DEF AttemptStep, Ends, FailedAttempts, RunInFlight
<1> QED BY <1>2, <1>3

\* So a count of failures grows by at most one, and not at all for a run that
\* stays in flight or was not.
LEMMA MovesCount ==
  ASSUME Inv(db), Inv(db'), Numbered(db), Moves(db, db'), NEW r \in Runs, NEW C
  PROVE  LET x == Cardinality(FailedAttempts(db, r, C))
             y == Cardinality(FailedAttempts(db', r, C))
         IN  /\ x \in Nat /\ y \in Nat /\ y <= x + 1
             /\ (db.run[r].status \in RunInFlight => db'.run[r].status \in RunInFlight) => y = x
             /\ db'.attempt[<<r, db.run[r].attempts>>].code \notin C => y = x
             /\ PutBack(db, db', r) /\ db'.attempt[<<r, db.run[r].attempts>>].code \in C =>
                  y = x + 1
<1> DEFINE k == db.run[r].attempts
           X == FailedAttempts(db, r, C)
           Y == FailedAttempts(db', r, C)
<1>1. /\ Y \subseteq X \cup {k} /\ X \subseteq Y
      /\ k \in Y \ X => db.run[r].status \in RunInFlight
  BY MovesFailed
<1>2. IsFiniteSet(X) /\ Cardinality(X) \in Nat
  BY FailedFinite DEF Inv, Consistent
<1>3. k \in Y => /\ db'.attempt[<<r, k>>].code \in C
                 /\ db'.run[r].status \notin RunInFlight
  <2> SUFFICES ASSUME k \in Y
               PROVE  /\ db'.attempt[<<r, k>>].code \in C
                      /\ db'.run[r].status \notin RunInFlight
    OBVIOUS
  <2>1. /\ db'.attempt[<<r, k>>].code \in C
        /\ db'.attempt[<<r, k>>].status \in {"failed", "timed_out"}
    BY DEF FailedAttempts
  <2>2. db'.run[r].attempts = k
    BY DEF Moves, RunStep
  <2> QED BY <2>1, <2>2 DEF Inv, Consistent, RowsAgree, RunInFlight
<1>4. PutBack(db, db', r) /\ db'.attempt[<<r, k>>].code \in C => k \in Y /\ k \notin X
  BY DEF PutBack, FailedStatuses, FailedAttempts, RunInFlight, Inv, Consistent, RowsAgree
<1> HIDE DEF X, Y, k
<1>5. Y = X \/ (Y = X \cup {k} /\ k \in Y)
  BY <1>1
<1>6. /\ IsFiniteSet(X \cup {k})
      /\ Cardinality(X \cup {k}) = IF k \in X THEN Cardinality(X) ELSE Cardinality(X) + 1
  BY <1>2, FS_AddElement
<1>7. CASE Y = X
  BY <1>2, <1>4, <1>7 DEF X, Y, k
<1>8. CASE Y = X \cup {k} /\ k \in Y /\ Y # X
  <2>1. k \notin X /\ Cardinality(Y) = Cardinality(X) + 1
    BY <1>6, <1>8
  <2>2. /\ db'.attempt[<<r, k>>].code \in C
        /\ ~(db.run[r].status \in RunInFlight => db'.run[r].status \in RunInFlight)
    BY <1>1, <1>3, <1>8, <2>1
  <2> QED BY <1>2, <2>1, <2>2 DEF X, Y, k
<1> QED BY <1>5, <1>7, <1>8

\* A failure is put back only within its budget, and only the last one of a
\* run may exceed it.
LEMMA MovesBudget ==
  ASSUME Inv(db), Inv(db'), Numbered(db), Moves(db, db'), NEW r \in Runs, BudgetOf(db, r)
  PROVE  BudgetOf(db', r)
<1> DEFINE n == db.run[r].attempts
           x == Broken(db, r)
           y == Unsuccessful(db, r)
           x1 == Broken(db', r)
           y1 == Unsuccessful(db', r)
           stays == db.run[r].status \in RunInFlight => db'.run[r].status \in RunInFlight
           code == db'.attempt[<<r, n>>].code
<1>1. /\ x \in Nat /\ x1 \in Nat /\ x1 <= x + 1 /\ (stays => x1 = x) /\ (code # "runner" => x1 = x)
      /\ (PutBack(db, db', r) /\ code = "runner" => x1 = x + 1)
      /\ y \in Nat /\ y1 \in Nat /\ y1 <= y + 1 /\ (stays => y1 = y)
      /\ (code \notin OtherCodes => y1 = y)
      /\ (PutBack(db, db', r) /\ code \in OtherCodes => y1 = y + 1)
  BY MovesCount DEF Broken, Unsuccessful
<1>2. /\ n \in Nat /\ MaxRunnerReschedules \in Nat /\ RetryLimit \in Nat
      /\ db'.run[r].attempts = n /\ RunStep(db, db', r)
  BY ControlAssumption DEF Moves, RunStep, Inv, Consistent, Database, RunRow
<1>3. /\ x <= MaxRunnerReschedules + 1 /\ y <= RetryLimit + 1
      /\ n <= 1 + RetryLimit + MaxRunnerReschedules
      /\ db.run[r].status \notin RunTerminal =>
           /\ x <= MaxRunnerReschedules /\ y <= RetryLimit /\ n <= x + y + InFlight(db, r)
  BY DEF BudgetOf
<1> SUFFICES /\ x1 <= MaxRunnerReschedules + 1 /\ y1 <= RetryLimit + 1
             /\ db'.run[r].status \notin RunTerminal =>
                  /\ x1 <= MaxRunnerReschedules /\ y1 <= RetryLimit
                  /\ n <= x1 + y1 + InFlight(db', r)
  BY <1>2, <1>3 DEF BudgetOf
<1> HIDE DEF x, y, x1, y1, n
<1>4. CASE db.run[r].status \in RunTerminal
  <2>1. stays /\ db'.run[r].status \in RunTerminal
    BY <1>2, <1>4 DEF RunStep, RunInFlight, RunTerminal
  <2> QED BY <1>1, <1>3, <2>1
<1>5. CASE db.run[r].status \notin RunTerminal /\ db'.run[r].status \in RunTerminal
  BY <1>1, <1>2, <1>3, <1>5
<1>6. CASE /\ db.run[r].status \notin RunTerminal
           /\ db.run[r].status \in RunInFlight <=> db'.run[r].status \in RunInFlight
  <2>1. stays /\ InFlight(db', r) = InFlight(db, r)
    BY <1>6 DEF InFlight
  <2> HIDE DEF stays
  <2> QED BY <1>1, <1>2, <1>3, <1>6, <2>1
<1>7. CASE PutBack(db, db', r)
  <2>1. /\ code \in CodeClasses /\ RetryAllowed(db, r, code) /\ InFlight(db, r) = 1
        /\ InFlight(db', r) = 0 /\ db.run[r].status \notin RunTerminal
    BY <1>7 DEF PutBack, InFlight, RunInFlight, RunTerminal, n
  <2>2. CASE code = "runner"
    <3>1. x < MaxRunnerReschedules
      BY <2>1, <2>2 DEF RetryAllowed, Broken, x
    <3>2. y1 = y /\ x1 = x + 1
      BY <1>1, <1>7, <2>2 DEF OtherCodes
    <3> QED BY <1>1, <1>2, <1>3, <2>1, <3>1, <3>2
  <2>3. CASE code # "runner"
    <3>1. y < RetryLimit
      BY <2>1, <2>3 DEF RetryAllowed, Unsuccessful, OtherCodes, y
    <3>2. x1 = x /\ y1 = y + 1
      BY <1>1, <1>7, <2>1, <2>3 DEF OtherCodes
    <3> QED BY <1>1, <1>2, <1>3, <2>1, <3>1, <3>2
  <2> QED BY <2>2, <2>3
<1> QED BY <1>2, <1>4, <1>5, <1>6, <1>7 DEF RunStep

\* New work is an attempt that the run's budgets leave room for.
LEMMA ReserveBudget ==
  ASSUME Inv(db), Numbered(db), NEW D \in SUBSET Runs, Reserves(db, db', D),
         NEW r \in Runs, BudgetOf(db, r)
  PROVE  BudgetOf(db', r)
<1>1. ASSUME NEW n \in AttemptNumbers, r \in D
      PROVE  \/ db'.attempt[<<r, n>>] = db.attempt[<<r, n>>]
             \/ /\ db'.attempt[<<r, n>>].status = "assigned"
                /\ db.attempt[<<r, n>>].status = "absent"
  <2>1. <<r, n>> \in Attempts
    BY DEF Attempts
  <2>2. db'.attempt[<<r, n>>] = db.attempt[<<r, n>>] \/ db.attempt[<<r, n>>] = NoAttempt
    BY <2>1, ReservedAttempts DEF Inv
  <2> QED BY <2>2 DEF Reserves, NoAttempt
<1>2. ASSUME NEW C
      PROVE  FailedAttempts(db', r, C) = FailedAttempts(db, r, C)
  <2>1. CASE r \in D
    BY <1>1, <2>1 DEF FailedAttempts
  <2>2. CASE r \notin D
    BY <2>2 DEF Reserves, FailedAttempts
  <2> QED BY <2>1, <2>2
<1>3. Broken(db', r) = Broken(db, r) /\ Unsuccessful(db', r) = Unsuccessful(db, r)
  BY <1>2 DEF Broken, Unsuccessful
<1>4. CASE r \notin D
  <2>1. db'.run[r] = db.run[r]
    BY <1>4 DEF Reserves
  <2> QED BY <1>3, <2>1 DEF BudgetOf, InFlight
<1>5. CASE r \in D
  <2>1. /\ db.run[r].status = "queued" /\ db'.run[r].status = "assigned"
        /\ db'.run[r].attempts = db.run[r].attempts + 1
    BY <1>5 DEF Reserves
  <2>2. /\ db.run[r].attempts \in Nat /\ Broken(db, r) \in Nat /\ Unsuccessful(db, r) \in Nat
        /\ MaxRunnerReschedules \in Nat /\ RetryLimit \in Nat
    BY ControlAssumption, FailedFinite DEF Broken, Unsuccessful, Inv, Consistent, Database, RunRow
  <2>3. /\ InFlight(db, r) = 0 /\ InFlight(db', r) = 1
        /\ db.run[r].status \notin RunTerminal
    BY <2>1 DEF InFlight, RunInFlight, RunTerminal
  <2>4. /\ Broken(db, r) <= MaxRunnerReschedules /\ Unsuccessful(db, r) <= RetryLimit
        /\ db.run[r].attempts <= Broken(db, r) + Unsuccessful(db, r)
    BY <2>2, <2>3 DEF BudgetOf
  <2> QED BY <1>3, <2>1, <2>2, <2>3, <2>4 DEF BudgetOf
<1> QED BY <1>4, <1>5

\* canRetry and countFailures: however machine failures and other failures
\* interleave, a run gets no more attempts than its two budgets and its first.
THEOREM BudgetsHold == Spec => []RetryBudget
<1>1. ASSUME Init
      PROVE  Budget(db)
  <2> SUFFICES ASSUME NEW r \in Runs
               PROVE  BudgetOf(db, r)
    BY DEF Budget
  <2>1. db.run[r] = CreatedRun /\ \A n \in AttemptNumbers : db.attempt[<<r, n>>] = NoAttempt
    BY <1>1 DEF Init, Attempts
  <2>2. \A C : FailedAttempts(db, r, C) = {}
    BY <2>1 DEF FailedAttempts, NoAttempt
  <2>3. Broken(db, r) = 0 /\ Unsuccessful(db, r) = 0
    BY <2>2, FS_EmptySet DEF Broken, Unsuccessful
  <2> QED BY <2>1, <2>3, ControlAssumption DEF BudgetOf, InFlight, CreatedRun, RunInFlight
<1>2. ASSUME Inv(db), Numbered(db), Budget(db), [Next]_db
      PROVE  Budget(db')
  BY <1>2, NextInv, MovesBudget, ReserveBudget DEF Budget
<1>3. Budget(db) => RetryBudget
  BY DEF Budget, BudgetOf, Broken, Unsuccessful, OtherCodes, RetryBudget
<1>4. Inv(db) /\ Numbered(db) /\ Budget(db) /\ [Next]_db => Budget(db)'
  BY <1>2
<1> QED BY <1>1, <1>3, <1>4, AlwaysInv, AlwaysNumbered, PTL DEF Spec
=============================================================================
