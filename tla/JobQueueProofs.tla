----------------------------- MODULE JobQueueProofs -----------------------------
(***************************************************************************)
(* Proof that the queue of the Lite edition delivers as JobDelivery        *)
(* promises.  QueueInv is the inductive invariant: it ties the handlers    *)
(* in flight to the rows they came from, which is all the refinement needs *)
(* to know about stale handlers.  Every step is then shown to make at most *)
(* one move of JobDelivery per job.  Two counts follow: of the handlers of *)
(* a job while nothing is disturbed, and of the restarts that disturbances *)
(* may cost the loops of the workers.                                      *)
(***************************************************************************)
EXTENDS JobQueue, TLAPS, FiniteSetTheorems

Statuses == {"absent", "available", "leased", "completed", "dead_letter"}

\* Columns that the promise depends on, and the handlers in flight.
QueueTypes ==
  /\ row \in [Jobs -> Row] /\ inFlight \subseteq Delivery
  /\ handled \subseteq Jobs /\ redrives \in [Jobs -> 0 .. MaxRedrives]

Tried(j) == row[j].deliveries > 0 \/ redrives[j] > 0

\* What a row says of its deliveries.
RowsSound ==
  \A j \in Jobs :
    /\ row[j].status = "absent" => row[j].deliveries = 0 /\ redrives[j] = 0
    /\ row[j].status = "available" => row[j].deliveries < MaximumDeliveries
    /\ row[j].status = "dead_letter" => row[j].deliveries = MaximumDeliveries
    /\ j \in handled => Tried(j)

\* What a handler knows of its job: it was delivered, and an acknowledgement
\* follows a success.
HandlersSound ==
  \A h \in inFlight :
    /\ Tried(h.job)
    /\ h.at = "acknowledging" => h.job \in handled

QueueInv == QueueTypes /\ RowsSound /\ HandlersSound

\* A job's move from status s, d deliveries and outcome o to t, e and p.
MovedTo(s, d, o, t, e, p) ==
  \/ t = s /\ e = d /\ p = o
  \/ s = "unpublished" /\ t = "pending" /\ e = d /\ p = o
  \/ /\ s = "pending" /\ t = s /\ d < MaximumDeliveries /\ e = d + 1
     /\ p = IF o = "untried" THEN "tried" ELSE o
  \/ t = s /\ e = d /\ o = "tried" /\ p = "handled"
  \/ s = "pending" /\ o = "handled" /\ t = "done" /\ e = d /\ p = o
  \/ s = "pending" /\ d = MaximumDeliveries /\ t = "dead" /\ e = d /\ p = o
  \/ s = "dead" /\ t = "pending" /\ e = 0 /\ p = o

Moved(j) == MovedTo(Standing(j), row[j].deliveries, Outcome(j),
                    Standing(j)', row'[j].deliveries, Outcome(j)')

\* The same move between the records of JobDelivery.
RecordMoved(x, y) ==
  \/ y = x
  \/ x.status = "unpublished" /\ y = [x EXCEPT !.status = "pending"]
  \/ /\ x.status = "pending" /\ x.delivered < MaximumDeliveries
     /\ y = [status    |-> "pending",
             delivered |-> x.delivered + 1,
             outcome   |-> IF x.outcome = "untried" THEN "tried" ELSE x.outcome]
  \/ x.outcome = "tried" /\ y = [x EXCEPT !.outcome = "handled"]
  \/ x.status = "pending" /\ x.outcome = "handled" /\ y = [x EXCEPT !.status = "done"]
  \/ /\ x.status = "pending" /\ x.delivered = MaximumDeliveries
     /\ y = [x EXCEPT !.status = "dead"]
  \/ /\ x.status = "dead"
     /\ y = [status |-> "pending", delivered |-> 0, outcome |-> x.outcome]

\* The moves of a job, written with the fields of its record.
LEMMA RecordMoves ==
  ASSUME NEW s, NEW d, NEW o, NEW t, NEW e, NEW p, MovedTo(s, d, o, t, e, p)
  PROVE  RecordMoved([status |-> s, delivered |-> d, outcome |-> o],
                     [status |-> t, delivered |-> e, outcome |-> p])
<1> DEFINE x == [status |-> s, delivered |-> d, outcome |-> o]
           y == [status |-> t, delivered |-> e, outcome |-> p]
<1>1. CASE t = s /\ e = d /\ p = o
  BY <1>1 DEF RecordMoved
<1>2. CASE s = "unpublished" /\ t = "pending" /\ e = d /\ p = o
  <2>1. y = [x EXCEPT !.status = "pending"]
    BY <1>2
  <2> QED BY <1>2, <2>1 DEF RecordMoved
<1>3. CASE /\ s = "pending" /\ t = s /\ d < MaximumDeliveries /\ e = d + 1
           /\ p = IF o = "untried" THEN "tried" ELSE o
  BY <1>3 DEF RecordMoved
<1>4. CASE t = s /\ e = d /\ o = "tried" /\ p = "handled"
  <2>1. y = [x EXCEPT !.outcome = "handled"]
    BY <1>4
  <2> QED BY <1>4, <2>1 DEF RecordMoved
<1>5. CASE s = "pending" /\ o = "handled" /\ t = "done" /\ e = d /\ p = o
  <2>1. y = [x EXCEPT !.status = "done"]
    BY <1>5
  <2> QED BY <1>5, <2>1 DEF RecordMoved
<1>6. CASE s = "pending" /\ d = MaximumDeliveries /\ t = "dead" /\ e = d /\ p = o
  <2>1. y = [x EXCEPT !.status = "dead"]
    BY <1>6
  <2> QED BY <1>6, <2>1 DEF RecordMoved
<1>7. CASE s = "dead" /\ t = "pending" /\ e = 0 /\ p = o
  BY <1>7 DEF RecordMoved
<1> QED BY <1>1, <1>2, <1>3, <1>4, <1>5, <1>6, <1>7 DEF MovedTo

\* Such moves are steps of JobDelivery.
LEMMA MovesAreSteps ==
  ASSUME QueueTypes, QueueTypes', \A j \in Jobs : Moved(j)
  PROVE  Promise!Next
<1> DEFINE J(j) == [status |-> Standing(j), delivered |-> row[j].deliveries,
                    outcome |-> Outcome(j)]
<1>1. \A j \in Jobs : J(j)' \in Promise!Job
  BY DEF QueueTypes, Row, Standing, Outcome, Promise!Job
<1>2. Promised' \in [Jobs -> Promise!Job]
  BY <1>1 DEF Promised
<1>3. ASSUME NEW j \in Jobs
      PROVE  Promise!Move(j) \/ Promised'[j] = Promised[j]
  <2> DEFINE x == Promised[j]
             y == Promised'[j]
  <2>1. /\ x = [status |-> Standing(j), delivered |-> row[j].deliveries,
                outcome |-> Outcome(j)]
        /\ y = [status |-> Standing(j)', delivered |-> row'[j].deliveries,
                outcome |-> Outcome(j)']
    BY <1>3 DEF Promised
  <2> HIDE DEF x, y
  <2>2. RecordMoved(x, y)
    BY <1>3, <2>1, RecordMoves DEF Moved
  <2> QED
    BY <2>2 DEF RecordMoved, x, y, Promise!Move, Promise!Publish, Promise!Deliver, Promise!Handle,
                Promise!Finish, Promise!GiveUp, Promise!Redrive
<1> QED BY <1>2, <1>3 DEF Promise!Next

-----------------------------------------------------------------------------
(* Steps that change one row, or none.                                     *)

\* Handlers that stay, go or change what they do next keep HandlersSound.
HandlersFrom(old) ==
  /\ inFlight' \subseteq Delivery
  /\ \A h \in inFlight' :
       /\ \E g \in old : g.job = h.job
       /\ h.at = "acknowledging" => h.job \in handled'

\* A row that keeps its deliveries and moves as JobDelivery allows.
LEMMA OneRow ==
  ASSUME QueueInv, NEW j \in Jobs, NEW r \in Row, row' = [row EXCEPT ![j] = r],
         r.deliveries = row[j].deliveries, UNCHANGED <<handled, redrives>>,
         HandlersFrom(inFlight), Moved(j),
         r.status = "absent" => r.deliveries = 0 /\ redrives[j] = 0,
         r.status = "available" => r.deliveries < MaximumDeliveries,
         r.status = "dead_letter" => r.deliveries = MaximumDeliveries
  PROVE  QueueInv' /\ \A k \in Jobs : Moved(k)
<1>1. row \in [Jobs -> Row] /\ row' \in [Jobs -> Row]
  BY DEF QueueInv, QueueTypes
<1>2. /\ row'[j] = r
      /\ \A k \in Jobs : k # j => row'[k] = row[k]
      /\ \A k \in Jobs : row'[k].deliveries = row[k].deliveries
  BY <1>1
<1>3. QueueTypes'
  BY <1>1 DEF QueueInv, QueueTypes, HandlersFrom
<1>4. RowsSound'
  BY <1>2 DEF QueueInv, RowsSound, Tried
<1>5. HandlersSound'
  BY <1>2 DEF QueueInv, QueueTypes, HandlersSound, HandlersFrom, Tried, Delivery
<1>6. ASSUME NEW k \in Jobs, k # j
      PROVE  Moved(k)
  BY <1>2, <1>6 DEF Moved, MovedTo, Standing, Outcome
<1> QED BY <1>3, <1>4, <1>5, <1>6 DEF QueueInv

\* The loops of the workers, and handlers that write nothing.
LEMMA NoRowChanged ==
  ASSUME QueueInv, UNCHANGED <<row, handled, redrives>>, HandlersFrom(inFlight)
  PROVE  QueueInv' /\ \A k \in Jobs : Moved(k)
<1>1. QueueTypes'
  BY DEF QueueInv, QueueTypes, HandlersFrom
<1>2. RowsSound'
  BY DEF QueueInv, RowsSound, Tried
<1>3. HandlersSound'
  BY DEF QueueInv, QueueTypes, HandlersSound, HandlersFrom, Tried, Delivery
<1>4. \A k \in Jobs : Moved(k)
  BY DEF Moved, MovedTo, Standing, Outcome
<1> QED BY <1>1, <1>2, <1>3, <1>4 DEF QueueInv

\* Handlers that stay as they are, and one that takes another step or ends.
LEMMA HandlersStay ==
  ASSUME QueueInv, inFlight' \subseteq inFlight, handled \subseteq handled'
  PROVE  HandlersFrom(inFlight)
  BY DEF QueueInv, QueueTypes, HandlersSound, HandlersFrom

\* The handlers after one of them takes a step or ends.
LEMMA HandlerGoes ==
  ASSUME QueueInv, NEW h \in inFlight, NEW at \in {"acknowledging", "rejecting"}, Goto(h, at),
         handled \subseteq handled', at = "acknowledging" => h.job \in handled'
  PROVE  HandlersFrom(inFlight)
<1> DEFINE g == [h EXCEPT !.at = at]
<1>1. h \in Delivery
  BY DEF QueueInv, QueueTypes
<1>2. g \in Delivery /\ g.job = h.job /\ g.at = at
  BY <1>1 DEF Delivery
<1>3. inFlight' = (inFlight \ {h}) \cup {g}
  BY DEF Goto
<1> HIDE DEF g
<1> QED BY <1>2, <1>3 DEF QueueInv, QueueTypes, HandlersSound, HandlersFrom

\* The rows that acknowledge and reject write.
LEMMA RowWritten ==
  ASSUME NEW r \in Row, NEW due \in BOOLEAN
  PROVE  /\ Settled(r) \in Row /\ Settled(r).status = "completed"
         /\ Settled(r).deliveries = r.deliveries
         /\ Released(r, due) \in Row /\ Released(r, due).deliveries = r.deliveries
         /\ Released(r, due).status =
              IF r.deliveries >= MaximumDeliveries THEN "dead_letter" ELSE "available"
  BY DEF Row, Settled, Released

-----------------------------------------------------------------------------
(* The actions.                                                            *)

Kept == QueueInv' /\ \A k \in Jobs : Moved(k)

\* The steps of a loop that claim nothing: no row changes, handlers only end.
LEMMA LoopKept ==
  ASSUME QueueInv, NEW w \in Workers, LoopStep(w), ~Claim(w)
  PROVE  Kept
<1>1. inFlight' \subseteq inFlight /\ UNCHANGED <<row, handled, redrives>>
  BY DEF LoopStep, Poll, ClaimFails, NoticeFailure, Resume, ShutDown, Drained, Crash, Start
<1> QED BY <1>1, HandlersStay, NoRowChanged DEF Kept

\* A published row starts undelivered.
LEMMA PublishKept ==
  ASSUME QueueInv, NEW j \in Jobs, Publish(j)
  PROVE  Kept
<1> DEFINE r == [row[j] EXCEPT !.status = "available"]
<1>1. row[j] \in Row
  BY DEF QueueInv, QueueTypes
<1>2. /\ r \in Row /\ r.status = "available" /\ r.deliveries = row[j].deliveries
      /\ row' = [row EXCEPT ![j] = r] /\ row'[j] = r
  BY <1>1 DEF Publish, Row, QueueInv, QueueTypes
<1>3. row[j].status = "absent" /\ row[j].deliveries = 0 /\ redrives[j] = 0
  BY DEF Publish, QueueInv, RowsSound
<1> HIDE DEF r
<1>4. 0 < MaximumDeliveries
  BY QueueAssumption
<1>5. UNCHANGED <<inFlight, handled, redrives>>
  BY DEF Publish
<1>6. Moved(j)
  BY <1>2, <1>3, <1>5 DEF Moved, MovedTo, Standing, Outcome
<1> QED BY <1>2, <1>3, <1>4, <1>5, <1>6, HandlersStay, OneRow DEF Kept

\* A row that becomes due stands where it stood.
LEMMA BecomesDueKept ==
  ASSUME QueueInv, NEW j \in Jobs, BecomesDue(j)
  PROVE  Kept
<1> DEFINE r == [row[j] EXCEPT !.due = TRUE]
<1>1. row[j] \in Row
  BY DEF QueueInv, QueueTypes
<1>2. /\ r \in Row /\ r.status = "available" /\ r.deliveries = row[j].deliveries
      /\ row' = [row EXCEPT ![j] = r] /\ row'[j] = r
  BY <1>1 DEF BecomesDue, Row, QueueInv, QueueTypes
<1>3. row[j].status = "available" /\ row[j].deliveries < MaximumDeliveries
  BY DEF BecomesDue, QueueInv, RowsSound
<1> HIDE DEF r
<1>4. UNCHANGED <<inFlight, handled, redrives>>
  BY DEF BecomesDue
<1>5. Moved(j)
  BY <1>2, <1>3, <1>4 DEF Moved, MovedTo, Standing, Outcome
<1> QED BY <1>2, <1>3, <1>4, <1>5, HandlersStay, OneRow DEF Kept

\* A lapsed lease is a matter of the row alone, until a claim recovers it.
LEMMA LeaseLapsesKept ==
  ASSUME QueueInv, NEW j \in Jobs, LeaseLapses(j)
  PROVE  Kept
<1> DEFINE r == [row[j] EXCEPT !.lapsed = TRUE]
<1>1. row[j] \in Row
  BY DEF QueueInv, QueueTypes
<1>2. /\ r \in Row /\ r.status = "leased" /\ r.deliveries = row[j].deliveries
      /\ row' = [row EXCEPT ![j] = r] /\ row'[j] = r
  BY <1>1 DEF LeaseLapses, Row, QueueInv, QueueTypes
<1>3. row[j].status = "leased" /\ UNCHANGED <<inFlight, handled, redrives>>
  BY DEF LeaseLapses
<1> HIDE DEF r
<1>4. Moved(j)
  BY <1>2, <1>3 DEF Moved, MovedTo, Standing, Outcome
<1> QED BY <1>2, <1>3, <1>4, HandlersStay, OneRow DEF Kept

\* A redrive starts dead letters again and touches no other row.
LEMMA RedriveKept ==
  ASSUME QueueInv, RedriveDeadLetters
  PROVE  Kept
<1> DEFINE dead == {j \in Jobs : row[j].status = "dead_letter"}
<1>1. /\ UNCHANGED <<inFlight, handled>>
      /\ row \in [Jobs -> Row] /\ redrives \in [Jobs -> 0 .. MaxRedrives]
      /\ MaxRedrives \in Nat /\ MaximumDeliveries \in Nat \ {0}
  BY QueueAssumption DEF RedriveDeadLetters, QueueInv, QueueTypes
<1>2. ASSUME NEW j \in Jobs, j \notin dead
      PROVE  row'[j] = row[j] /\ redrives'[j] = redrives[j]
  BY <1>2 DEF RedriveDeadLetters
<1>3. ASSUME NEW j \in Jobs, j \in dead
      PROVE  /\ redrives'[j] = redrives[j] + 1 /\ redrives'[j] \in 1 .. MaxRedrives
             /\ row'[j] \in Row /\ row'[j].status = "available" /\ row'[j].deliveries = 0
             /\ row[j].status = "dead_letter" /\ row[j].deliveries = MaximumDeliveries
  <2>1. redrives'[j] = redrives[j] + 1 /\ redrives[j] < MaxRedrives
    BY <1>3 DEF RedriveDeadLetters
  <2>2. row'[j] = [status |-> "available", due |-> TRUE, owner |-> "none",
                   lapsed |-> FALSE, deliveries |-> 0]
    BY <1>3 DEF RedriveDeadLetters
  <2>4. row'[j] \in Row /\ row'[j].status = "available" /\ row'[j].deliveries = 0
    BY <1>1, <2>2 DEF Row
  <2>5. redrives[j] \in 0 .. MaxRedrives
    BY <1>1, <1>3
  <2> QED BY <1>1, <1>3, <2>1, <2>4, <2>5 DEF QueueInv, RowsSound
<1>4. row' \in [Jobs -> Row] /\ redrives' \in [Jobs -> 0 .. MaxRedrives]
  <2>1. DOMAIN row' = Jobs /\ DOMAIN redrives' = Jobs
        /\ row' = [j \in Jobs |-> row'[j]] /\ redrives' = [j \in Jobs |-> redrives'[j]]
    BY DEF RedriveDeadLetters
  <2>2. \A j \in Jobs : row'[j] \in Row /\ redrives'[j] \in 0 .. MaxRedrives
    BY <1>1, <1>2, <1>3
  <2> QED BY <2>1, <2>2
<1> HIDE DEF dead
<1>5. \A j \in Jobs : Tried(j) => Tried(j)'
  BY <1>1, <1>2, <1>3 DEF Tried
<1>6. QueueTypes'
  BY <1>1, <1>4 DEF QueueInv, QueueTypes
<1>7. RowsSound'
  BY <1>1, <1>2, <1>3, <1>5 DEF QueueInv, RowsSound
<1>8. HandlersSound'
  BY <1>1, <1>5 DEF QueueInv, QueueTypes, HandlersSound, Delivery
<1>9. ASSUME NEW j \in Jobs
      PROVE  Moved(j)
  <2>1. CASE j \notin dead
    BY <1>1, <1>2, <2>1 DEF Moved, MovedTo, Standing, Outcome
  <2>2. CASE j \in dead
    <3>1. Standing(j) = "dead" /\ Standing(j)' = "pending" /\ row'[j].deliveries = 0
      BY <1>3, <2>2 DEF Standing
    <3>2. Outcome(j)' = Outcome(j)
      BY <1>1, <1>3, <2>2 DEF Outcome
    <3> QED BY <3>1, <3>2 DEF Moved, MovedTo
  <2> QED BY <2>1, <2>2
<1> QED BY <1>6, <1>7, <1>8, <1>9 DEF Kept, QueueInv

\* What recovery makes of a row, and what a claim makes of the result.
LEMMA RecoveredRow ==
  ASSUME QueueInv, NEW j \in Jobs
  PROVE  LET r == RecoverExpired(row)[j]
         IN  /\ r \in Row /\ r.deliveries = row[j].deliveries
             /\ r.status = "available" => /\ r.deliveries < MaximumDeliveries
                                          /\ row[j].status \in {"available", "leased"}
             /\ r = row[j] \/ /\ row[j].status = "leased" /\ r.status \in {"available", "dead_letter"}
                              /\ r.status = "dead_letter" => r.deliveries = MaximumDeliveries
<1>1. row[j] \in Row
  BY DEF QueueInv, QueueTypes
<1>2. row[j].deliveries \in 0 .. MaximumDeliveries /\ MaximumDeliveries \in Nat
  BY <1>1, QueueAssumption DEF Row
<1>3. CASE Expired(row[j])
  <2>1. RecoverExpired(row)[j] = Released(row[j], TRUE)
    BY <1>3 DEF RecoverExpired
  <2> DEFINE r == Released(row[j], TRUE)
  <2>2. /\ r \in Row /\ r.deliveries = row[j].deliveries
        /\ r.status = IF row[j].deliveries >= MaximumDeliveries THEN "dead_letter" ELSE "available"
    BY <1>1, RowWritten
  <2> HIDE DEF r
  <2>3. row[j].status = "leased"
    BY <1>3 DEF Expired
  <2>4. /\ r.status = "available" => r.deliveries < MaximumDeliveries
        /\ r.status = "dead_letter" => r.deliveries = MaximumDeliveries
        /\ r.status \in {"available", "dead_letter"}
    BY <1>2, <2>2
  <2> QED BY <2>1, <2>2, <2>3, <2>4 DEF r
<1>4. CASE ~Expired(row[j])
  <2>1. RecoverExpired(row)[j] = row[j]
    BY <1>4 DEF RecoverExpired
  <2>2. row[j].status = "available" => row[j].deliveries < MaximumDeliveries
    BY DEF QueueInv, RowsSound
  <2> QED BY <1>1, <2>1, <2>2
<1> QED BY <1>3, <1>4

\* A row that a claim took is leased and counts one delivery more.
LEMMA RowLeased ==
  ASSUME NEW r \in Row, NEW w \in Workers, r.deliveries < MaximumDeliveries
  PROVE  /\ Claimed(r, w) \in Row /\ Claimed(r, w).status = "leased"
         /\ Claimed(r, w).owner = w /\ ~Claimed(r, w).lapsed
         /\ Claimed(r, w).deliveries = r.deliveries + 1
<1>1. r.deliveries + 1 \in 0 .. MaximumDeliveries
  BY QueueAssumption DEF Row
<1> QED BY <1>1 DEF Row, Claimed

\* A claim recovers expired leases and takes available rows, each row by one move or two that amount to one.
LEMMA ClaimKept ==
  ASSUME QueueInv, NEW w \in Workers, Claim(w)
  PROVE  Kept
<1>1. CASE ~HasClaimableWork(w)
  BY <1>1, HandlersStay, NoRowChanged DEF Claim, Kept
<1>2. CASE HasClaimableWork(w)
  <2> DEFINE rows  == RecoverExpired(row)
             taken == FirstOf(rows, w, loop[w].limit)
             new   == {[worker |-> w, job |-> j, redrive |-> redrives[j],
                        delivery |-> rows[j].deliveries + 1, at |-> "handling"] : j \in taken}
  <2>1. /\ row' = [j \in Jobs |->
                     IF j \in taken
                     THEN Claimed(rows[j], w)
                     ELSE rows[j]]
        /\ inFlight' = inFlight \cup new /\ UNCHANGED <<handled, redrives>>
    BY <1>2 DEF Claim
  <2>2. \A j \in taken : j \in Jobs /\ rows[j].status = "available"
    BY QueueAssumption DEF FirstOf, Claimable
  <2>3. ASSUME NEW j \in Jobs
        PROVE  /\ rows[j] \in Row /\ rows[j].deliveries = row[j].deliveries
               /\ rows[j].status = "available" => /\ rows[j].deliveries < MaximumDeliveries
                                                  /\ row[j].status \in {"available", "leased"}
               /\ \/ rows[j] = row[j]
                  \/ /\ row[j].status = "leased" /\ rows[j].status \in {"available", "dead_letter"}
                     /\ rows[j].status = "dead_letter" => rows[j].deliveries = MaximumDeliveries
    BY <2>3, RecoveredRow
  <2>4. \A j \in Jobs : rows[j].deliveries \in 0 .. MaximumDeliveries
    BY <2>3 DEF Row
  <2> HIDE DEF rows, taken
  <2>5. ASSUME NEW j \in taken
        PROVE  /\ j \in Jobs /\ row'[j] \in Row /\ row'[j].status = "leased"
               /\ row'[j].deliveries = row[j].deliveries + 1
               /\ row[j].deliveries < MaximumDeliveries
               /\ row[j].status \in {"available", "leased"}
    <3>1. /\ j \in Jobs /\ rows[j] \in Row /\ rows[j].deliveries < MaximumDeliveries
          /\ rows[j].deliveries = row[j].deliveries /\ row[j].status \in {"available", "leased"}
      BY <2>2, <2>3
    <3>2. row'[j] = Claimed(rows[j], w)
      BY <2>1, <3>1
    <3> QED BY <3>1, <3>2, RowLeased
  <2>6. ASSUME NEW j \in Jobs, j \notin taken
        PROVE  row'[j] = rows[j]
    BY <2>1, <2>6
  <2>7. row' \in [Jobs -> Row]
    <3>1. \A j \in Jobs : row'[j] \in Row
      BY <2>3, <2>5, <2>6
    <3>2. row' = [j \in Jobs |-> row'[j]]
      BY <2>1
    <3> QED BY <3>1, <3>2
  <2>8. \A j \in Jobs : row'[j].deliveries \in Nat /\ row'[j].deliveries >= row[j].deliveries
                        /\ row[j].deliveries \in Nat
    <3>1. \A j \in Jobs : rows[j].deliveries = row[j].deliveries /\ rows[j].deliveries \in Nat
      BY <2>3, <2>4, QueueAssumption
    <3> QED BY <2>5, <2>6, <3>1
  <2>9. new \subseteq Delivery
    <3> SUFFICES ASSUME NEW j \in taken
                 PROVE  [worker |-> w, job |-> j, redrive |-> redrives[j],
                         delivery |-> rows[j].deliveries + 1, at |-> "handling"] \in Delivery
      OBVIOUS
    <3>1. j \in Jobs /\ rows[j].deliveries = row[j].deliveries
          /\ rows[j].deliveries < MaximumDeliveries /\ rows[j].deliveries \in 0 .. MaximumDeliveries
      BY <2>2, <2>3, <2>4
    <3>2. redrives[j] \in 0 .. MaxRedrives
      BY <3>1 DEF QueueInv, QueueTypes
    <3>3. rows[j].deliveries + 1 \in 1 .. MaximumDeliveries
      BY <3>1, QueueAssumption
    <3> QED BY <3>1, <3>2, <3>3 DEF Delivery
  <2>10. QueueTypes'
    BY <2>1, <2>7, <2>9 DEF QueueInv, QueueTypes
  <2>11. ASSUME NEW j \in Jobs, Tried(j)
         PROVE  Tried(j)'
    <3>1. row'[j].deliveries \in Nat /\ row[j].deliveries \in Nat
          /\ row'[j].deliveries >= row[j].deliveries
      BY <2>8
    <3> QED BY <2>1, <2>11, <3>1 DEF Tried
  <2>12. \A j \in taken : Tried(j)'
    <3>1. ASSUME NEW j \in taken
          PROVE  row'[j].deliveries > 0
      BY <2>5, <2>8
    <3> QED BY <3>1 DEF Tried
  <2>13. RowsSound'
    <3> SUFFICES ASSUME NEW j \in Jobs
                 PROVE  /\ row'[j].status = "absent" => row'[j].deliveries = 0 /\ redrives'[j] = 0
                        /\ row'[j].status = "available" => row'[j].deliveries < MaximumDeliveries
                        /\ row'[j].status = "dead_letter" => row'[j].deliveries = MaximumDeliveries
                        /\ j \in handled' => Tried(j)'
      BY DEF RowsSound
    <3>1. j \in handled' => Tried(j)'
      BY <2>1, <2>11 DEF QueueInv, RowsSound
    <3>2. CASE j \in taken
      BY <2>5, <3>1, <3>2
    <3>3. CASE j \notin taken
      BY <2>1, <2>3, <2>6, <3>1, <3>3 DEF QueueInv, RowsSound
    <3> QED BY <3>2, <3>3
  <2>14. HandlersSound'
    <3> SUFFICES ASSUME NEW h \in inFlight'
                 PROVE  Tried(h.job)' /\ (h.at = "acknowledging" => h.job \in handled')
      BY DEF HandlersSound
    <3>1. CASE h \in inFlight
      BY <2>1, <2>11, <3>1 DEF QueueInv, QueueTypes, HandlersSound, Delivery
    <3>2. CASE h \in new
      BY <2>12, <3>2
    <3> QED BY <2>1, <3>1, <3>2
  <2>15. ASSUME NEW j \in Jobs
         PROVE  Moved(j)
    <3>1. CASE j \in taken
      <4>1. Standing(j) = "pending" /\ Standing(j)' = "pending"
        BY <2>5, <3>1 DEF Standing
      <4>2. /\ row[j].deliveries < MaximumDeliveries
            /\ row'[j].deliveries = row[j].deliveries + 1 /\ row[j].deliveries \in Nat
        BY <2>5, <2>8, <3>1
      <4>3. redrives[j] \in Nat
        BY QueueAssumption DEF QueueInv, QueueTypes
      <4>4. Outcome(j)' = IF Outcome(j) = "untried" THEN "tried" ELSE Outcome(j)
        BY <2>1, <4>2, <4>3 DEF Outcome
      <4> QED BY <4>1, <4>2, <4>4 DEF Moved, MovedTo
    <3>2. CASE j \notin taken
      <4>1. row'[j].deliveries = row[j].deliveries /\ Outcome(j)' = Outcome(j)
        BY <2>1, <2>3, <2>6, <3>2 DEF Outcome
      <4> QED BY <2>3, <2>6, <3>2, <4>1 DEF Moved, MovedTo, Standing
    <3> QED BY <3>1, <3>2
  <2> QED BY <2>10, <2>13, <2>14, <2>15 DEF Kept, QueueInv
<1> QED BY <1>1, <1>2

\* The first success with a job is the only step that handles it.
LEMMA SucceedKept ==
  ASSUME QueueInv, NEW h \in inFlight, Succeed(h)
  PROVE  Kept
<1>1. h \in Delivery /\ h.job \in Jobs /\ Tried(h.job)
  BY DEF QueueInv, QueueTypes, HandlersSound, Delivery
<1>2. /\ UNCHANGED <<row, redrives>> /\ handled' = handled \cup {h.job}
      /\ Goto(h, "acknowledging")
  BY DEF Succeed
<1>3. HandlersFrom(inFlight)
  BY <1>1, <1>2, HandlerGoes
<1>4. QueueTypes'
  BY <1>1, <1>2, <1>3 DEF QueueInv, QueueTypes, HandlersFrom
<1>5. RowsSound'
  BY <1>1, <1>2 DEF QueueInv, RowsSound, Tried
<1>6. HandlersSound'
  BY <1>2, <1>3 DEF QueueInv, QueueTypes, HandlersSound, HandlersFrom, Tried
<1>7. ASSUME NEW j \in Jobs
      PROVE  Moved(j)
  <2>1. Standing(j)' = Standing(j) /\ row'[j].deliveries = row[j].deliveries
    BY <1>2 DEF Standing
  <2>2. CASE j # h.job \/ j \in handled
    <3>1. Outcome(j)' = Outcome(j)
      BY <1>2, <2>2 DEF Outcome
    <3> QED BY <2>1, <3>1 DEF Moved, MovedTo
  <2>3. CASE j = h.job /\ j \notin handled
    <3>1. row[j] \in Row /\ redrives[j] \in 0 .. MaxRedrives
      BY DEF QueueInv, QueueTypes
    <3>2. row[j].deliveries + redrives[j] > 0
      BY <1>1, <2>3, <3>1, QueueAssumption DEF Tried, Row
    <3>3. Outcome(j) = "tried" /\ Outcome(j)' = "handled"
      BY <1>2, <2>3, <3>2 DEF Outcome
    <3> QED BY <2>1, <3>3 DEF Moved, MovedTo
  <2> QED BY <2>2, <2>3
<1> QED BY <1>4, <1>5, <1>6, <1>7 DEF Kept, QueueInv

\* A handler settles the row of its worker, whichever delivery that stands for.
LEMMA AcknowledgeKept ==
  ASSUME QueueInv, NEW h \in inFlight, Acknowledge(h)
  PROVE  Kept
<1>1. h \in Delivery /\ h.job \in Jobs /\ h.job \in handled
  BY DEF Acknowledge, QueueInv, QueueTypes, HandlersSound, Delivery
<1>2. UNCHANGED <<handled, redrives>>
  BY DEF Acknowledge
<1>3. CASE ~Owned(h.worker, h.job)
  <2>1. UNCHANGED row /\ (End(h) \/ Goto(h, "rejecting"))
    BY <1>3 DEF Acknowledge
  <2>2. HandlersFrom(inFlight)
    BY <1>2, <2>1, HandlersStay, HandlerGoes DEF End
  <2> QED BY <1>2, <2>1, <2>2, NoRowChanged DEF Kept
<1>4. CASE Owned(h.worker, h.job)
  <2> DEFINE j == h.job
             r == Settled(row[j])
  <2>1. row[j] \in Row /\ row' = [row EXCEPT ![j] = r] /\ End(h)
    BY <1>1, <1>4 DEF Acknowledge, QueueInv, QueueTypes
  <2>2. r \in Row /\ r.status = "completed" /\ r.deliveries = row[j].deliveries
    BY <2>1, RowWritten
  <2>3. row'[j] = r
    BY <1>1, <2>1 DEF QueueInv, QueueTypes
  <2> HIDE DEF r
  <2>4. HandlersFrom(inFlight)
    BY <1>2, <2>1, HandlersStay DEF End
  <2>5. Moved(j)
    BY <1>1, <1>2, <1>4, <2>2, <2>3 DEF Owned, Moved, MovedTo, Standing, Outcome
  <2> QED BY <1>1, <1>2, <2>1, <2>2, <2>4, <2>5, OneRow DEF Kept
<1> QED BY <1>3, <1>4

\* A handler gives up the row of its worker, whichever delivery that stands for.
LEMMA RejectKept ==
  ASSUME QueueInv, NEW h \in inFlight, Reject(h)
  PROVE  Kept
<1>1. h \in Delivery /\ h.job \in Jobs
  BY DEF QueueInv, QueueTypes, Delivery
<1>2. UNCHANGED <<handled, redrives>> /\ End(h)
  BY DEF Reject
<1>3. HandlersFrom(inFlight)
  BY <1>2, HandlersStay DEF End
<1>4. CASE ~Owned(h.worker, h.job)
  BY <1>2, <1>3, <1>4, NoRowChanged DEF Reject, Kept
<1>5. CASE Owned(h.worker, h.job)
  <2> DEFINE j == h.job
             r == Released(row[j], FALSE)
  <2>1. row[j] \in Row /\ row' = [row EXCEPT ![j] = r]
    BY <1>1, <1>5 DEF Reject, QueueInv, QueueTypes
  <2>2. /\ r \in Row /\ r.deliveries = row[j].deliveries
        /\ r.status = IF row[j].deliveries >= MaximumDeliveries THEN "dead_letter" ELSE "available"
    BY <2>1, RowWritten
  <2>3. row'[j] = r
    BY <1>1, <2>1 DEF QueueInv, QueueTypes
  <2> HIDE DEF r
  <2>4. row[j].deliveries \in 0 .. MaximumDeliveries /\ MaximumDeliveries \in Nat
    BY <2>1, QueueAssumption DEF Row
  <2>5. /\ r.status = "available" => r.deliveries < MaximumDeliveries
        /\ r.status = "dead_letter" => r.deliveries = MaximumDeliveries
        /\ r.status \in {"available", "dead_letter"}
    BY <2>2, <2>4
  <2>6. Standing(j) = "pending" /\ Outcome(j)' = Outcome(j)
    BY <1>2, <1>5, <2>2, <2>3 DEF Owned, Standing, Outcome
  <2>7. Moved(j)
    BY <2>2, <2>3, <2>5, <2>6 DEF Moved, MovedTo, Standing
  <2> QED BY <1>1, <1>2, <1>3, <2>1, <2>2, <2>5, <2>7, OneRow DEF Kept
<1> QED BY <1>4, <1>5

\* Every step of a handler.
LEMMA HandlerKept ==
  ASSUME QueueInv, NEW h \in inFlight, HandlerStep(h)
  PROVE  Kept
<1>1. CASE Fail(h) \/ AcknowledgeFails(h)
  <2>1. UNCHANGED <<row, handled, redrives>> /\ Goto(h, "rejecting")
    BY <1>1 DEF Fail, AcknowledgeFails
  <2> QED BY <2>1, HandlerGoes, NoRowChanged DEF Kept
<1>2. CASE RejectFails(h)
  <2>1. UNCHANGED <<row, handled, redrives>> /\ inFlight' \subseteq inFlight
    BY <1>2 DEF RejectFails, End
  <2> QED BY <2>1, HandlersStay, NoRowChanged DEF Kept
<1> QED BY <1>1, <1>2, SucceedKept, AcknowledgeKept, RejectKept DEF HandlerStep

-----------------------------------------------------------------------------
(* The theorems.                                                           *)

\* The empty queue is the start of JobDelivery.
LEMMA StartsPromised == Init => QueueInv /\ Promise!Init
<1> SUFFICES ASSUME Init
             PROVE  QueueInv /\ Promise!Init
  OBVIOUS
<1>1. \A j \in Jobs : row[j] = NoRow /\ redrives[j] = 0 /\ j \notin handled
  BY DEF Init
<1>2. NoRow \in Row
  BY QueueAssumption DEF NoRow, Row
<1>3. QueueInv
  BY <1>1, <1>2, QueueAssumption
     DEF Init, NoRow, QueueInv, QueueTypes, RowsSound, HandlersSound, Tried
<1>4. \A j \in Jobs : Standing(j) = "unpublished" /\ row[j].deliveries = 0 /\ Outcome(j) = "untried"
  BY <1>1 DEF NoRow, Standing, Outcome
<1> QED BY <1>3, <1>4 DEF Promise!Init, Promised

\* Every step keeps the invariant and is a step of JobDelivery or a stutter.
LEMMA StepsKept == QueueInv /\ [Next]_vars => Kept
<1> SUFFICES ASSUME QueueInv, [Next]_vars
             PROVE  Kept
  OBVIOUS
<1>1. CASE UNCHANGED vars
  BY <1>1, HandlersStay, NoRowChanged DEF vars, Kept
<1>2. CASE Next
  BY <1>2, PublishKept, BecomesDueKept, LeaseLapsesKept, RedriveKept, LoopKept, ClaimKept,
     HandlerKept DEF Next
<1> QED BY <1>1, <1>2

\* A handler in flight belongs to a job that was delivered, an acknowledgement
\* follows a success, and the deliveries of a row fit its status.
THEOREM QueueSound == Spec => []QueueInv
<1>1. Init => QueueInv
  BY StartsPromised
<1>2. QueueInv /\ [Next]_vars => QueueInv'
  BY StepsKept DEF Kept
<1> QED BY <1>1, <1>2, PTL DEF Spec

\* The queue implements JobDelivery (claim, acknowledge, reject, redrive), for any
\* number of jobs, workers, deliveries and disturbances.
THEOREM QueueDelivers == Spec => DeliversAsPromised
<1>1. Init => Promise!Init
  BY StartsPromised
<1>2. QueueInv /\ QueueInv' /\ [Next]_vars => [Promise!Next]_Promised
  BY StepsKept, MovesAreSteps DEF Kept, QueueInv
<1> QED BY <1>1, <1>2, QueueSound, PTL DEF Spec, DeliversAsPromised, Promise!Spec

-----------------------------------------------------------------------------
(* One handler per job while nothing goes wrong.                           *)

\* A handler holds a valid lease and has no rival.
Holders ==
  /\ \A h \in inFlight : row[h.job].status = "leased" /\ row[h.job].owner = h.worker
                         /\ ~row[h.job].lapsed
  /\ \A g, h \in inFlight : g.job = h.job => g = h

Calm == disturbances = 0 => Holders

CalmInv == QueueInv /\ disturbances \in Nat /\ Calm

\* The count of disturbances never goes back to nought.
LEMMA Disturbed ==
  ASSUME disturbances \in Nat, Disturb
  PROVE  disturbances' \in Nat /\ disturbances' # 0
  BY DEF Disturb

\* Handlers stay with their rows, but for some that end.
LEMMA HoldersStay ==
  ASSUME Holders, inFlight' \subseteq inFlight,
         \A h \in inFlight' : row'[h.job] = row[h.job]
  PROVE  Holders'
  BY DEF Holders

\* Undisturbed, the steps of a loop but claim leave rows and handlers alone.
LEMMA CalmLoop ==
  ASSUME CalmInv, NEW w \in Workers, LoopStep(w), ~Claim(w)
  PROVE  disturbances' \in Nat /\ Calm'
<1>1. inFlight' \subseteq inFlight /\ UNCHANGED row /\ (disturbances' = disturbances \/ Disturb)
  BY DEF LoopStep, Poll, ClaimFails, NoticeFailure, Resume, ShutDown, Drained, Crash, Start
<1> QED BY <1>1, HoldersStay, Disturbed DEF CalmInv, Calm

\* A claim takes no row that has a handler: its lease has not expired.
LEMMA CalmClaim ==
  ASSUME CalmInv, NEW w \in Workers, Claim(w)
  PROVE  disturbances' \in Nat /\ Calm'
<1> SUFFICES ASSUME disturbances = 0, HasClaimableWork(w)
             PROVE  Holders'
  BY HoldersStay DEF CalmInv, Calm, Claim
<1>1. Holders /\ QueueInv
  BY DEF CalmInv, Calm
<1> DEFINE rows  == RecoverExpired(row)
           taken == FirstOf(rows, w, loop[w].limit)
           Given(j) == [worker |-> w, job |-> j, redrive |-> redrives[j],
                        delivery |-> rows[j].deliveries + 1, at |-> "handling"]
<1>2. /\ row' = [j \in Jobs |-> IF j \in taken THEN Claimed(rows[j], w) ELSE rows[j]]
      /\ inFlight' = inFlight \cup {Given(j) : j \in taken}
  BY DEF Claim
<1>3. ASSUME NEW j \in taken
      PROVE  /\ j \in Jobs /\ rows[j] \in Row /\ rows[j].status = "available"
             /\ rows[j].deliveries < MaximumDeliveries
  <2>1. j \in Jobs /\ rows[j].status = "available"
    BY QueueAssumption DEF FirstOf, Claimable
  <2> QED BY <1>1, <2>1, RecoveredRow
<1>4. ASSUME NEW h \in inFlight
      PROVE  h.job \in Jobs /\ rows[h.job] = row[h.job] /\ h.job \notin taken
  <2>1. h.job \in Jobs
    BY <1>1 DEF QueueInv, QueueTypes, Delivery
  <2>2. rows[h.job] = row[h.job] /\ row[h.job].status = "leased"
    BY <1>1, <2>1 DEF Holders, RecoverExpired, Expired
  <2> QED BY <1>3, <2>1, <2>2
<1> HIDE DEF rows, taken
<1>5. ASSUME NEW h \in inFlight
      PROVE  row'[h.job] = row[h.job]
  BY <1>2, <1>4
<1>6. ASSUME NEW j \in taken
      PROVE  row'[j].status = "leased" /\ row'[j].owner = w /\ ~row'[j].lapsed
  <2>1. row'[j] = Claimed(rows[j], w)
    BY <1>2, <1>3
  <2> QED BY <1>3, <2>1, RowLeased
<1>7. ASSUME NEW h \in inFlight'
      PROVE  row'[h.job].status = "leased" /\ row'[h.job].owner = h.worker
             /\ ~row'[h.job].lapsed
  BY <1>1, <1>2, <1>5, <1>6 DEF Holders
<1>8. ASSUME NEW g \in inFlight', NEW h \in inFlight', g.job = h.job
      PROVE  g = h
  BY <1>1, <1>2, <1>4, <1>8 DEF Holders
<1> QED BY <1>7, <1>8 DEF Holders

\* A handler's job is not available, so rows that are may change freely.
LEMMA CalmRows ==
  ASSUME CalmInv, NEW j \in Jobs, Publish(j) \/ BecomesDue(j) \/ LeaseLapses(j)
  PROVE  disturbances' \in Nat /\ Calm'
<1>1. CASE Disturb
  BY <1>1, Disturbed DEF CalmInv, Calm
<1>2. CASE ~Disturb
  <2>1. disturbances' = disturbances /\ UNCHANGED inFlight
    BY <1>2 DEF Publish, BecomesDue, LeaseLapses
  <2>2. \A k \in Jobs : k # j => row'[k] = row[k]
    BY DEF Publish, BecomesDue, LeaseLapses, CalmInv, QueueInv, QueueTypes
  <2>3. ASSUME Holders, NEW h \in inFlight
        PROVE  h.job \in Jobs /\ h.job # j
    BY <1>2, <2>3 DEF Holders, Publish, BecomesDue, LeaseLapses, CalmInv, QueueInv, QueueTypes,
                     Delivery
  <2> QED BY <2>1, <2>2, <2>3, HoldersStay DEF CalmInv, Calm
<1> QED BY <1>1, <1>2

\* A redriven row has no handler.
LEMMA CalmRedrive ==
  ASSUME CalmInv, RedriveDeadLetters
  PROVE  disturbances' \in Nat /\ Calm'
<1>1. UNCHANGED <<inFlight, disturbances>>
  BY DEF RedriveDeadLetters
<1>2. ASSUME Holders, NEW h \in inFlight
      PROVE  row'[h.job] = row[h.job]
  BY <1>2 DEF Holders, RedriveDeadLetters, CalmInv, QueueInv, QueueTypes, Delivery
<1> QED BY <1>1, <1>2, HoldersStay DEF CalmInv, Calm

\* A handler that ends takes its row along, and no other handler has that row.
LEMMA CalmHandler ==
  ASSUME CalmInv, NEW h \in inFlight, HandlerStep(h)
  PROVE  disturbances' \in Nat /\ Calm'
<1>1. CASE Disturb
  BY <1>1, Disturbed DEF CalmInv, Calm
<1>2. CASE ~Disturb
  <2> SUFFICES ASSUME Holders
               PROVE  Holders'
    BY <1>2 DEF HandlerStep, Succeed, Fail, Acknowledge, AcknowledgeFails, Reject, RejectFails,
                CalmInv, Calm
  <2>1. h \in Delivery /\ h.job \in Jobs /\ row \in [Jobs -> Row] /\ Owned(h.worker, h.job)
    BY DEF CalmInv, QueueInv, QueueTypes, Delivery, Holders, Owned
  <2>2. CASE Succeed(h) \/ Fail(h)
    <3>1. PICK at \in {"acknowledging", "rejecting"} : Goto(h, at) /\ UNCHANGED row
      BY <2>2 DEF Succeed, Fail
    <3> DEFINE g == [h EXCEPT !.at = at]
    <3>2. g.job = h.job /\ g.worker = h.worker /\ inFlight' = (inFlight \ {h}) \cup {g}
      BY <2>1, <3>1 DEF Delivery, Goto
    <3> HIDE DEF g
    <3> QED BY <3>1, <3>2 DEF Holders
  <2>3. CASE Acknowledge(h) \/ Reject(h)
    <3>1. inFlight' = inFlight \ {h} /\ \A j \in Jobs : j # h.job => row'[j] = row[j]
      BY <2>1, <2>3 DEF Acknowledge, Reject, End
    <3>2. ASSUME NEW g \in inFlight'
          PROVE  g.job \in Jobs /\ g.job # h.job
      BY <3>1 DEF Holders, CalmInv, QueueInv, QueueTypes, Delivery
    <3> QED BY <3>1, <3>2, HoldersStay
  <2> QED BY <1>2, <2>2, <2>3 DEF HandlerStep, AcknowledgeFails, RejectFails
<1> QED BY <1>1, <1>2

\* As long as no worker stalls, crashes or fails to write, a job is in the hands
\* of one handler, which holds a valid lease (claim, the renewal of leases).
THEOREM OneHandler == Spec => []OneHandlerUnlessDisturbed
<1>1. Init => CalmInv
  BY StartsPromised DEF Init, CalmInv, Calm, Holders
<1>2. CalmInv /\ [Next]_vars => CalmInv'
  <2> SUFFICES ASSUME CalmInv, [Next]_vars
               PROVE  disturbances' \in Nat /\ Calm'
    BY StepsKept DEF CalmInv, Kept
  <2>1. CASE UNCHANGED vars
    BY <2>1, HoldersStay DEF CalmInv, Calm, vars
  <2>2. CASE Next
    BY <2>2, CalmLoop, CalmClaim, CalmRows, CalmRedrive, CalmHandler DEF Next
  <2> QED BY <2>1, <2>2
<1>3. CalmInv => OneHandlerUnlessDisturbed
  BY DEF CalmInv, Calm, Holders, OneHandlerUnlessDisturbed
<1> QED BY <1>1, <1>2, <1>3, PTL DEF Spec

-----------------------------------------------------------------------------
(* A disturbance costs one restart.                                        *)

\* The jobs whose valid lease a handler of the owner holds.  A handler more than
\* that is the handler of a lost lease: it may cost the loop a restart.
CoveredBy(rows, handlers) ==
  {j \in Jobs : /\ rows[j].status = "leased" /\ ~rows[j].lapsed
                /\ \E h \in handlers : h.worker = rows[j].owner /\ h.job = j}

Covered == CoveredBy(row, inFlight)

Published == {j \in Jobs : row[j].status # "absent"}

Owing(w) == failures[w] + (IF failed[w] = "none" THEN 0 ELSE 1)

LoopTypes ==
  /\ failed \in [Workers -> {"none", "locked", "other"}]
  /\ failures \in [Workers -> 0 .. MaxFailures]
  /\ disturbances \in Nat

Finite == IsFiniteSet(Restarts) /\ IsFiniteSet(inFlight) /\ IsFiniteSet(Published)

Balance(r, i, d, c) == r + i <= d + c

\* Every restart, and every handler without a valid lease of its own job, has its
\* disturbance.
CausesInv ==
  /\ QueueInv /\ LoopTypes /\ Finite
  /\ Balance(Cardinality(Restarts), Cardinality(inFlight), disturbances, Cardinality(Covered))

\* Finite sets that grow by no more than some others.
LEMMA AtMostBoth ==
  ASSUME NEW S, NEW T, NEW U, IsFiniteSet(S), IsFiniteSet(U), T \subseteq S \cup U
  PROVE  /\ IsFiniteSet(T)
         /\ Cardinality(T) \in Nat /\ Cardinality(S) \in Nat /\ Cardinality(U) \in Nat
         /\ Cardinality(T) <= Cardinality(S) + Cardinality(U)
<1>1. /\ IsFiniteSet(S \cup U)
      /\ Cardinality(S \cup U) = Cardinality(S) + Cardinality(U) - Cardinality(S \cap U)
  BY FS_Union
<1>2. IsFiniteSet(T) /\ Cardinality(T) <= Cardinality(S \cup U)
  BY <1>1, FS_Subset
<1>3. IsFiniteSet(S \cap U)
  BY FS_Subset
<1>4. /\ Cardinality(S) \in Nat /\ Cardinality(U) \in Nat /\ Cardinality(T) \in Nat
      /\ Cardinality(S \cap U) \in Nat /\ Cardinality(S \cup U) \in Nat
  BY <1>1, <1>2, <1>3, FS_CardinalityType
<1> QED BY <1>1, <1>2, <1>4

LEMMA BothWhenDisjoint ==
  ASSUME NEW S, NEW T, IsFiniteSet(S), IsFiniteSet(T), S \cap T = {}
  PROVE  /\ IsFiniteSet(S \cup T)
         /\ Cardinality(S \cup T) = Cardinality(S) + Cardinality(T)
<1>1. /\ IsFiniteSet(S \cup T)
      /\ Cardinality(S \cup T) = Cardinality(S) + Cardinality(T) - Cardinality(S \cap T)
  BY FS_Union
<1>2. Cardinality(S \cap T) = 0
  BY FS_EmptySet
<1>3. Cardinality(S) \in Nat /\ Cardinality(T) \in Nat
  BY FS_CardinalityType
<1> QED BY <1>1, <1>2, <1>3

LEMMA AtMostOneMore ==
  ASSUME NEW S, NEW T, NEW x, IsFiniteSet(S), T \subseteq S \cup {x}
  PROVE  /\ IsFiniteSet(T) /\ Cardinality(T) \in Nat /\ Cardinality(S) \in Nat
         /\ Cardinality(T) <= Cardinality(S) + 1
<1>1. IsFiniteSet({x}) /\ Cardinality({x}) = 1
  BY FS_Singleton
<1> QED BY <1>1, AtMostBoth

LEMMA AtMost ==
  ASSUME NEW S, NEW T, IsFiniteSet(S), T \subseteq S
  PROVE  /\ IsFiniteSet(T) /\ Cardinality(T) \in Nat /\ Cardinality(S) \in Nat
         /\ Cardinality(T) <= Cardinality(S)
  BY FS_Subset, FS_CardinalityType

\* A set without one of its elements, without several, or with one in place of another.
LEMMA OneLess ==
  ASSUME NEW S, NEW x \in S, IsFiniteSet(S)
  PROVE  /\ IsFiniteSet(S \ {x}) /\ Cardinality(S) \in Nat /\ Cardinality(S \ {x}) \in Nat
         /\ Cardinality(S \ {x}) = Cardinality(S) - 1
  BY FS_RemoveElement, FS_CardinalityType

LEMMA Without ==
  ASSUME NEW S, NEW T, IsFiniteSet(S), T \subseteq S
  PROVE  /\ IsFiniteSet(T) /\ Cardinality(T) \in Nat /\ Cardinality(S) \in Nat
         /\ IsFiniteSet(S \ T) /\ Cardinality(S \ T) \in Nat
         /\ Cardinality(S \ T) = Cardinality(S) - Cardinality(T)
<1>1. IsFiniteSet(S \ T) /\ Cardinality(S \ T) = Cardinality(S) - Cardinality(S \cap T)
  BY FS_Difference
<1>2. S \cap T = T
  OBVIOUS
<1>3. IsFiniteSet(T)
  BY FS_Subset
<1> QED BY <1>1, <1>2, <1>3, FS_CardinalityType

LEMMA Exchanged ==
  ASSUME NEW S, NEW x \in S, NEW y, IsFiniteSet(S)
  PROVE  /\ IsFiniteSet((S \ {x}) \cup {y})
         /\ Cardinality((S \ {x}) \cup {y}) \in Nat /\ Cardinality(S) \in Nat
         /\ Cardinality((S \ {x}) \cup {y}) <= Cardinality(S)
<1>1. IsFiniteSet(S \ {x}) /\ Cardinality(S) \in Nat /\ Cardinality(S \ {x}) \in Nat
      /\ Cardinality(S \ {x}) = Cardinality(S) - 1
  BY OneLess
<1> DEFINE R == S \ {x}
<1> HIDE DEF R
<1>2. IsFiniteSet(R \cup {y}) /\ Cardinality(R \cup {y}) \in Nat
      /\ Cardinality(R \cup {y}) <= Cardinality(R) + 1
  BY <1>1, AtMostOneMore DEF R
<1> QED BY <1>1, <1>2 DEF R

\* The jobs of some handlers are no more than the handlers.
LEMMA JobsOfHandlers ==
  ASSUME NEW S, IsFiniteSet(S)
  PROVE  /\ IsFiniteSet({h.job : h \in S}) /\ Cardinality({h.job : h \in S}) \in Nat
         /\ Cardinality(S) \in Nat /\ Cardinality({h.job : h \in S}) <= Cardinality(S)
<1> DEFINE T == {h.job : h \in S}
           f == [h \in S |-> h.job]
<1>1. f \in Surjection(S, T)
  BY DEF Surjection
<1> HIDE DEF T, f
<1>2. IsFiniteSet(T) /\ Cardinality(T) <= Cardinality(S)
  BY <1>1, FS_Surjection
<1> QED BY <1>2, FS_CardinalityType DEF T

\* So a job that is covered has a handler, and no handler covers two.
LEMMA CoveredCount ==
  ASSUME NEW rows, NEW handlers, IsFiniteSet(handlers)
  PROVE  /\ IsFiniteSet(CoveredBy(rows, handlers))
         /\ Cardinality(CoveredBy(rows, handlers)) \in Nat
         /\ Cardinality(CoveredBy(rows, handlers)) <= Cardinality(handlers)
<1>1. CoveredBy(rows, handlers) \subseteq {h.job : h \in handlers}
  BY DEF CoveredBy
<1>2. /\ IsFiniteSet({h.job : h \in handlers}) /\ Cardinality({h.job : h \in handlers}) \in Nat
      /\ Cardinality(handlers) \in Nat
      /\ Cardinality({h.job : h \in handlers}) <= Cardinality(handlers)
  BY JobsOfHandlers
<1> DEFINE T == {h.job : h \in handlers}
           C == CoveredBy(rows, handlers)
<1> HIDE DEF T, C
<1>3. IsFiniteSet(C) /\ Cardinality(C) \in Nat /\ Cardinality(C) <= Cardinality(T)
  BY <1>1, <1>2, AtMost DEF T, C
<1> QED BY <1>2, <1>3 DEF T, C

\* Sizes of the sets of an invariant state.
LEMMA Sizes ==
  ASSUME CausesInv
  PROVE  /\ Cardinality(Restarts) \in Nat /\ Cardinality(inFlight) \in Nat
         /\ Cardinality(Covered) \in Nat /\ disturbances \in Nat /\ IsFiniteSet(Covered)
         /\ Cardinality(Covered) <= Cardinality(inFlight)
         /\ Balance(Cardinality(Restarts), Cardinality(inFlight), disturbances,
                    Cardinality(Covered))
  BY CoveredCount, FS_CardinalityType DEF CausesInv, Finite, LoopTypes, Covered


\* What is left to show of a step: that it pays for the restarts and handlers it adds.
LEMMA Paid ==
  ASSUME CausesInv, QueueInv', LoopTypes',
         IsFiniteSet(Restarts'), IsFiniteSet(inFlight'), IsFiniteSet(Published'),
         Cardinality(Restarts') + Cardinality(inFlight') + disturbances + Cardinality(Covered)
           <= Cardinality(Restarts) + Cardinality(inFlight) + disturbances'
                + Cardinality(Covered')
  PROVE  CausesInv'
<1>1. /\ Cardinality(Restarts) \in Nat /\ Cardinality(inFlight) \in Nat
      /\ Cardinality(Covered) \in Nat /\ disturbances \in Nat
      /\ Balance(Cardinality(Restarts), Cardinality(inFlight), disturbances,
                 Cardinality(Covered))
  BY Sizes
<1>2. Cardinality(Covered') \in Nat
  BY CoveredCount DEF Covered
<1>3. Cardinality(Restarts') \in Nat /\ Cardinality(inFlight') \in Nat /\ disturbances' \in Nat
  BY FS_CardinalityType DEF LoopTypes
<1> DEFINE a == Cardinality(Restarts)
           b == Cardinality(inFlight)
           c == Cardinality(Covered)
           d == disturbances
           p == Cardinality(Restarts')
           q == Cardinality(inFlight')
           s == Cardinality(Covered')
           e == disturbances'
<1>4. p + q + d + c <= a + b + e + s
  OBVIOUS
<1>5. Balance(a, b, d, c)
  BY <1>1
<1>6. a \in Nat /\ b \in Nat /\ c \in Nat /\ d \in Nat
  BY <1>1
<1>7. p \in Nat /\ q \in Nat /\ s \in Nat /\ e \in Nat
  BY <1>2, <1>3
<1> HIDE DEF a, b, c, d, p, q, s, e
<1>8. Balance(p, q, e, s)
  <2>1. a + b <= d + c
    BY <1>5 DEF Balance
  <2>2. p + q <= e + s
    BY ONLY <1>4, <1>6, <1>7, <2>1
  <2> QED BY <2>2 DEF Balance
<1> QED BY <1>8 DEF CausesInv, Finite, p, q, s, e

\* Rows that are not published anew.
LEMMA NonePublished ==
  ASSUME CausesInv, \A j \in Jobs : row'[j].status # "absent" => row[j].status # "absent"
  PROVE  IsFiniteSet(Published')
<1>1. Published' \subseteq Published
  BY DEF Published
<1> QED BY <1>1, FS_Subset DEF CausesInv, Finite

\* Restarts of the next state, by what each loop owes.
LEMMA RestartsStay ==
  ASSUME CausesInv, \A w \in Workers : Owing(w)' = Owing(w) \/ Owing(w)' = 0
  PROVE  /\ IsFiniteSet(Restarts') /\ Cardinality(Restarts') \in Nat
         /\ Cardinality(Restarts') <= Cardinality(Restarts)
<1>1. \A w \in Workers : Owing(w) \in Nat
  BY QueueAssumption DEF CausesInv, LoopTypes, Owing
<1>2. Restarts = {r \in Workers \X (1 .. MaxFailures + 1) : r[2] <= Owing(r[1])}
  BY DEF Restarts, Owing
<1>3. Restarts' = {r \in Workers \X (1 .. MaxFailures + 1) : r[2] <= Owing(r[1])'}
  BY DEF Restarts, Owing
<1>4. Restarts' \subseteq Restarts
  <2> SUFFICES ASSUME NEW r \in Restarts'
               PROVE  r \in Restarts
    OBVIOUS
  <2>1. /\ r \in Workers \X (1 .. MaxFailures + 1) /\ r[1] \in Workers /\ r[2] \in Nat \ {0}
        /\ r[2] <= Owing(r[1])'
    BY <1>3
  <2>2. r[2] <= Owing(r[1])
    BY <1>1, <2>1
  <2> QED BY <1>2, <2>1, <2>2
<1> QED BY <1>4, AtMost DEF CausesInv, Finite

LEMMA OneRestartMore ==
  ASSUME CausesInv, NEW w \in Workers, Owing(w)' \in Nat, Owing(w)' <= Owing(w) + 1,
         \A v \in Workers : v # w => Owing(v)' = Owing(v)
  PROVE  /\ IsFiniteSet(Restarts') /\ Cardinality(Restarts') \in Nat
         /\ Cardinality(Restarts') <= Cardinality(Restarts) + 1
         /\ Owing(w)' <= Owing(w) => Cardinality(Restarts') <= Cardinality(Restarts)
<1>1. \A v \in Workers : Owing(v) \in Nat
  BY QueueAssumption DEF CausesInv, LoopTypes, Owing
<1>2. Restarts = {r \in Workers \X (1 .. MaxFailures + 1) : r[2] <= Owing(r[1])}
  BY DEF Restarts, Owing
<1>3. Restarts' = {r \in Workers \X (1 .. MaxFailures + 1) : r[2] <= Owing(r[1])'}
  BY DEF Restarts, Owing
<1>4. ASSUME NEW r \in Restarts'
      PROVE  r \in Restarts \/ (r = <<w, Owing(w) + 1>> /\ Owing(w)' > Owing(w))
  <2>1. /\ r \in Workers \X (1 .. MaxFailures + 1) /\ r[1] \in Workers /\ r[2] \in Nat \ {0}
        /\ r[2] <= Owing(r[1])' /\ r = <<r[1], r[2]>>
    BY <1>3
  <2>2. CASE r[1] # w
    BY <1>2, <2>1, <2>2
  <2>3. CASE r[1] = w
    <3>1. r[2] <= Owing(w) \/ (r[2] = Owing(w) + 1 /\ Owing(w)' > Owing(w))
      BY <1>1, <2>1, <2>3
    <3> QED BY <1>2, <2>1, <2>3, <3>1
  <2> QED BY <2>2, <2>3
<1>5. Restarts' \subseteq Restarts \cup {<<w, Owing(w) + 1>>}
  BY <1>4
<1>6. ASSUME Owing(w)' <= Owing(w)
      PROVE  Restarts' \subseteq Restarts
  BY <1>1, <1>4, <1>6
<1> DEFINE R == Restarts'
<1> HIDE DEF R
<1>7. /\ IsFiniteSet(R) /\ Cardinality(R) \in Nat
      /\ Cardinality(R) <= Cardinality(Restarts) + 1
  BY <1>5, AtMostOneMore DEF CausesInv, Finite, R
<1>8. R \subseteq Restarts => Cardinality(R) <= Cardinality(Restarts)
  BY AtMost DEF CausesInv, Finite
<1> QED BY <1>6, <1>7, <1>8 DEF R

LEMMA MinOfTwo ==
  ASSUME NEW m \in Nat, NEW n \in Nat
  PROVE  Min({m, n}) \in {m, n} /\ Min({m, n}) <= m /\ Min({m, n}) <= n
<1>1. \E x \in {m, n} : \A y \in {m, n} : x <= y
  <2>1. CASE m <= n
    BY <2>1
  <2>2. CASE n < m
    BY <2>2
  <2> QED BY <2>1, <2>2
<1> QED BY <1>1 DEF Min

\* Steps that neither disturb nor restart anything pay nothing, if no handler is
\* added and no job loses its valid lease.
LEMMA QuietPaid ==
  ASSUME CausesInv, QueueInv', UNCHANGED <<failed, failures, disturbances>>,
         \A j \in Jobs : row'[j].status # "absent" => row[j].status # "absent",
         IsFiniteSet(inFlight'), Cardinality(inFlight') <= Cardinality(inFlight),
         Covered \subseteq Covered'
  PROVE  CausesInv'
<1>1. LoopTypes' /\ IsFiniteSet(Published')
  BY NonePublished DEF CausesInv, LoopTypes
<1>2. IsFiniteSet(Restarts') /\ Cardinality(Restarts') = Cardinality(Restarts)
  BY DEF CausesInv, Finite, Restarts
<1>3. IsFiniteSet(Covered')
  BY CoveredCount DEF Covered
<1>4. Cardinality(Covered) \in Nat /\ Cardinality(Covered') \in Nat
      /\ Cardinality(Covered) <= Cardinality(Covered')
  BY <1>3, AtMost
<1>5. Cardinality(inFlight') \in Nat /\ Cardinality(inFlight) \in Nat
      /\ Cardinality(Restarts) \in Nat /\ disturbances \in Nat
  BY Sizes, FS_CardinalityType
<1>6. Cardinality(Restarts') + Cardinality(inFlight') + disturbances + Cardinality(Covered)
        <= Cardinality(Restarts) + Cardinality(inFlight) + disturbances' + Cardinality(Covered')
  BY <1>2, <1>4, <1>5
<1> QED BY <1>1, <1>2, <1>6, Paid

\* A disturbance pays for one job that loses its valid lease, without a restart.
LEMMA LossPaid ==
  ASSUME CausesInv, QueueInv', UNCHANGED <<failed, failures>>, Disturb,
         \A j \in Jobs : row'[j].status # "absent" => row[j].status # "absent",
         IsFiniteSet(inFlight'), Cardinality(inFlight') <= Cardinality(inFlight),
         NEW x, Covered \subseteq Covered' \cup {x}
  PROVE  CausesInv'
<1>1. LoopTypes' /\ IsFiniteSet(Published')
  BY NonePublished DEF CausesInv, LoopTypes, Disturb
<1>2. IsFiniteSet(Restarts') /\ Cardinality(Restarts') = Cardinality(Restarts)
  BY DEF CausesInv, Finite, Restarts
<1>3. IsFiniteSet(Covered')
  BY CoveredCount DEF Covered
<1>4. Cardinality(Covered) \in Nat /\ Cardinality(Covered') \in Nat
      /\ Cardinality(Covered) <= Cardinality(Covered') + 1
  BY <1>3, AtMostOneMore
<1>5. Cardinality(inFlight') \in Nat /\ Cardinality(inFlight) \in Nat
      /\ Cardinality(Restarts) \in Nat /\ disturbances \in Nat
      /\ disturbances' = disturbances + 1
  BY Sizes, FS_CardinalityType DEF Disturb
<1>6. Cardinality(Restarts') + Cardinality(inFlight') + disturbances + Cardinality(Covered)
        <= Cardinality(Restarts) + Cardinality(inFlight) + disturbances' + Cardinality(Covered')
  BY <1>2, <1>4, <1>5
<1> QED BY <1>1, <1>2, <1>6, Paid

\* A row that is published, or comes due, has no lease; one whose lease lapses
\* under its handler has a disturbance.
LEMMA RowPaid ==
  ASSUME CausesInv, QueueInv', NEW j \in Jobs, Publish(j) \/ BecomesDue(j) \/ LeaseLapses(j)
  PROVE  CausesInv'
<1>1. /\ UNCHANGED <<inFlight, failed, failures>> /\ row \in [Jobs -> Row]
      /\ IsFiniteSet(inFlight) /\ IsFiniteSet(inFlight')
      /\ Cardinality(inFlight) \in Nat /\ Cardinality(inFlight') <= Cardinality(inFlight)
  BY FS_CardinalityType
     DEF Publish, BecomesDue, LeaseLapses, CausesInv, Finite, QueueInv, QueueTypes
<1>2. \A k \in Jobs : k # j => row'[k] = row[k]
  BY <1>1 DEF Publish, BecomesDue, LeaseLapses
<1>3. Covered \subseteq Covered' \cup {j}
  BY <1>1, <1>2 DEF Covered, CoveredBy
<1>4. CASE Publish(j)
  <2>1. j \notin Covered /\ UNCHANGED disturbances
    BY <1>4 DEF Covered, CoveredBy, Publish
  <2>2. Covered \subseteq Covered'
    BY <1>3, <2>1
  <2>3. IsFiniteSet(Published')
    <3>1. Published' \subseteq Published \cup {j}
      BY <1>2 DEF Published
    <3> QED BY <3>1, AtMostOneMore DEF CausesInv, Finite
  <2>4. LoopTypes' /\ IsFiniteSet(Restarts') /\ Cardinality(Restarts') = Cardinality(Restarts)
    BY <1>1, <2>1 DEF CausesInv, Finite, LoopTypes, Restarts
  <2>5. Cardinality(Covered) \in Nat /\ Cardinality(Covered') \in Nat
        /\ Cardinality(Covered) <= Cardinality(Covered')
    <3>1. IsFiniteSet(Covered')
      BY <1>1, CoveredCount DEF Covered
    <3> QED BY <2>2, <3>1, AtMost
  <2>6. Cardinality(Restarts) \in Nat /\ disturbances \in Nat
    BY Sizes
  <2>7. Cardinality(Restarts') + Cardinality(inFlight') + disturbances + Cardinality(Covered)
          <= Cardinality(Restarts) + Cardinality(inFlight) + disturbances' + Cardinality(Covered')
    BY <1>1, <2>1, <2>4, <2>5, <2>6
  <2> QED BY <1>1, <2>3, <2>4, <2>7, Paid
<1>5. CASE BecomesDue(j) \/ LeaseLapses(j)
  <2>1. \A k \in Jobs : row'[k].status # "absent" => row[k].status # "absent"
    BY <1>1, <1>2, <1>5 DEF BecomesDue, LeaseLapses
  <2>2. CASE Disturb
    BY <1>1, <1>3, <2>1, <2>2, LossPaid
  <2>3. CASE ~Disturb
    <3>1. UNCHANGED disturbances /\ j \notin Covered
      BY <1>5, <2>3 DEF Covered, CoveredBy, BecomesDue, LeaseLapses
    <3>2. Covered \subseteq Covered'
      BY <1>3, <3>1
    <3> QED BY <1>1, <2>1, <3>1, <3>2, QuietPaid
  <2> QED BY <2>2, <2>3
<1> QED BY <1>4, <1>5

\* A dead letter has no lease.
LEMMA RedrivePaid ==
  ASSUME CausesInv, QueueInv', RedriveDeadLetters
  PROVE  CausesInv'
<1>1. /\ UNCHANGED <<inFlight, failed, failures, disturbances>>
      /\ IsFiniteSet(inFlight') /\ Cardinality(inFlight') <= Cardinality(inFlight)
  BY FS_CardinalityType DEF RedriveDeadLetters, CausesInv, Finite
<1>2. ASSUME NEW k \in Jobs
      PROVE  /\ row[k].status # "dead_letter" => row'[k] = row[k]
             /\ row[k].status = "dead_letter" => row[k].status # "absent"
  BY DEF RedriveDeadLetters
<1>3. Covered \subseteq Covered'
  BY <1>1, <1>2 DEF Covered, CoveredBy
<1>4. \A k \in Jobs : row'[k].status # "absent" => row[k].status # "absent"
  BY <1>2
<1> QED BY <1>1, <1>3, <1>4, QuietPaid

\* A loop that throws counts one failure at most.
LEMMA OneFailure ==
  ASSUME LoopTypes, NEW w \in Workers, NEW error, RunThrows(w, error)
  PROVE  /\ failures' \in [Workers -> 0 .. MaxFailures]
         /\ failures'[w] <= failures[w] + 1
         /\ \A v \in Workers : v # w => failures'[v] = failures[v]
<1>1. failures[w] \in Nat /\ MaxFailures \in Nat \ {0} /\ failures[w] <= MaxFailures
      /\ failures \in [Workers -> 0 .. MaxFailures]
  BY QueueAssumption DEF LoopTypes
<1>2. PICK n \in {1, failures[w] + 1} : failures' = [failures EXCEPT ![w] = Min({n, MaxFailures})]
  BY DEF RunThrows
<1> DEFINE m == Min({n, MaxFailures})
<1>3. n \in Nat /\ n <= failures[w] + 1
  BY <1>1
<1>4. m \in {n, MaxFailures} /\ m <= n /\ m <= MaxFailures
  BY <1>1, <1>3, MinOfTwo
<1>5. failures' = [failures EXCEPT ![w] = m]
  BY <1>2
<1> HIDE DEF m
<1>6. m \in 0 .. MaxFailures /\ m <= failures[w] + 1
  BY <1>1, <1>3, <1>4
<1> QED BY <1>1, <1>5, <1>6

\* A failed claim is a disturbance with its restart.
LEMMA ClaimFailsPaid ==
  ASSUME CausesInv, QueueInv', NEW w \in Workers, ClaimFails(w)
  PROVE  CausesInv'
<1>1. PICK error \in {"locked", "other"} : RunThrows(w, error)
  BY DEF ClaimFails
<1>2. /\ UNCHANGED <<row, inFlight, failed>>
      /\ disturbances \in Nat /\ disturbances' = disturbances + 1 /\ LoopTypes
  BY DEF ClaimFails, Disturb, CausesInv, LoopTypes
<1>3. /\ failures' \in [Workers -> 0 .. MaxFailures] /\ failures'[w] <= failures[w] + 1
      /\ \A v \in Workers : v # w => failures'[v] = failures[v]
  BY <1>1, <1>2, OneFailure
<1>4. LoopTypes'
  BY <1>2, <1>3 DEF LoopTypes
<1>5. /\ Owing(w)' \in Nat /\ Owing(w)' <= Owing(w) + 1
      /\ \A v \in Workers : v # w => Owing(v)' = Owing(v)
  BY <1>2, <1>3, QueueAssumption DEF Owing, LoopTypes
<1>6. /\ IsFiniteSet(Restarts') /\ Cardinality(Restarts') \in Nat
      /\ Cardinality(Restarts') <= Cardinality(Restarts) + 1
  BY <1>5, OneRestartMore
<1>7. /\ IsFiniteSet(Published') /\ Covered' = Covered /\ IsFiniteSet(inFlight')
      /\ Cardinality(inFlight') = Cardinality(inFlight)
  BY <1>2, NonePublished DEF Covered, CausesInv, Finite
<1>8. Cardinality(Restarts) \in Nat /\ Cardinality(inFlight) \in Nat /\ Cardinality(Covered) \in Nat
  BY Sizes
<1>9. Cardinality(Restarts') + Cardinality(inFlight') + disturbances + Cardinality(Covered)
        <= Cardinality(Restarts) + Cardinality(inFlight) + disturbances' + Cardinality(Covered')
  BY <1>2, <1>6, <1>7, <1>8
<1> QED BY <1>4, <1>6, <1>7, <1>9, Paid

\* A failure that the loop sees becomes one of its restarts.
LEMMA NoticePaid ==
  ASSUME CausesInv, QueueInv', NEW w \in Workers, NoticeFailure(w)
  PROVE  CausesInv'
<1>1. /\ UNCHANGED <<row, inFlight, disturbances>> /\ LoopTypes /\ disturbances \in Nat
      /\ failed[w] # "none" /\ failed' = [failed EXCEPT ![w] = "none"]
      /\ RunThrows(w, failed[w])
  BY DEF NoticeFailure, CausesInv, LoopTypes
<1>2. /\ failures' \in [Workers -> 0 .. MaxFailures] /\ failures'[w] <= failures[w] + 1
      /\ \A v \in Workers : v # w => failures'[v] = failures[v]
  BY <1>1, OneFailure
<1>3. LoopTypes' /\ failed'[w] = "none" /\ \A v \in Workers : v # w => failed'[v] = failed[v]
  BY <1>1, <1>2 DEF LoopTypes
<1>4. failures[w] \in Nat /\ failures'[w] \in Nat
  <2>1. MaxFailures \in Nat
    BY QueueAssumption
  <2>2. failures[w] \in 0 .. MaxFailures /\ failures'[w] \in 0 .. MaxFailures
    BY <1>1, <1>2 DEF LoopTypes
  <2> QED BY <2>1, <2>2
<1>5. /\ Owing(w)' \in Nat /\ Owing(w) \in Nat /\ Owing(w)' <= Owing(w)
      /\ \A v \in Workers : v # w => Owing(v)' = Owing(v)
  BY <1>1, <1>2, <1>3, <1>4 DEF Owing
<1>6. IsFiniteSet(Restarts') /\ Cardinality(Restarts') \in Nat
      /\ Cardinality(Restarts') <= Cardinality(Restarts)
  BY <1>5, OneRestartMore
<1>7. /\ IsFiniteSet(Published') /\ Covered' = Covered /\ IsFiniteSet(inFlight')
      /\ Cardinality(inFlight') = Cardinality(inFlight)
  BY <1>1, NonePublished DEF Covered, CausesInv, Finite
<1>8. Cardinality(Restarts) \in Nat /\ Cardinality(inFlight) \in Nat /\ Cardinality(Covered) \in Nat
  BY Sizes
<1>9. Cardinality(Restarts') + Cardinality(inFlight') + disturbances + Cardinality(Covered)
        <= Cardinality(Restarts) + Cardinality(inFlight) + disturbances' + Cardinality(Covered')
  BY <1>1, <1>6, <1>7, <1>8
<1> QED BY <1>3, <1>6, <1>7, <1>9, Paid

\* A process that ends takes its count of restarts along, and its handlers: the
\* jobs they covered are no more than they were.
LEMMA StartPaid ==
  ASSUME CausesInv, QueueInv', NEW w \in Workers, Drained(w) \/ Crash(w)
  PROVE  CausesInv'
<1>1. /\ UNCHANGED row /\ failed' = [failed EXCEPT ![w] = "none"]
      /\ failures' = [failures EXCEPT ![w] = 0] /\ LoopTypes
      /\ disturbances \in Nat /\ disturbances' \in Nat /\ disturbances <= disturbances'
  BY DEF Drained, Crash, Start, Disturb, CausesInv, LoopTypes
<1>2. LoopTypes' /\ IsFiniteSet(Published')
  BY <1>1, NonePublished, QueueAssumption DEF LoopTypes
<1>3. \A v \in Workers : Owing(v)' = Owing(v) \/ Owing(v)' = 0
  BY <1>1 DEF Owing, LoopTypes
<1>4. IsFiniteSet(Restarts') /\ Cardinality(Restarts') \in Nat
      /\ Cardinality(Restarts') <= Cardinality(Restarts)
  BY <1>3, RestartsStay
<1>5. inFlight' = inFlight \ InFlight(w)
  BY DEF Drained, Crash
<1>6. IsFiniteSet(inFlight) /\ InFlight(w) \subseteq inFlight
  BY DEF CausesInv, Finite, InFlight
<1> DEFINE gone == InFlight(w)
           jobs == {h.job : h \in gone}
<1>7. Covered \subseteq Covered' \cup jobs
  BY <1>1, <1>5 DEF Covered, CoveredBy
<1> HIDE DEF gone, jobs
<1>8. /\ IsFiniteSet(gone) /\ Cardinality(gone) \in Nat /\ Cardinality(inFlight) \in Nat
      /\ IsFiniteSet(inFlight')
      /\ Cardinality(inFlight') = Cardinality(inFlight) - Cardinality(gone)
  BY <1>5, <1>6, Without DEF gone
<1>9. IsFiniteSet(jobs) /\ Cardinality(jobs) \in Nat /\ Cardinality(jobs) <= Cardinality(gone)
  BY <1>8, JobsOfHandlers DEF jobs
<1>10. IsFiniteSet(Covered')
  BY <1>1, <1>8, CoveredCount DEF Covered
<1>11. /\ Cardinality(Covered) \in Nat /\ Cardinality(Covered') \in Nat
       /\ Cardinality(Covered) <= Cardinality(Covered') + Cardinality(jobs)
  BY <1>7, <1>9, <1>10, AtMostBoth
<1>12. Cardinality(Restarts) \in Nat
  BY Sizes
<1>13. Cardinality(Restarts') + Cardinality(inFlight') + disturbances + Cardinality(Covered)
         <= Cardinality(Restarts) + Cardinality(inFlight) + disturbances' + Cardinality(Covered')
  BY <1>1, <1>4, <1>8, <1>9, <1>11, <1>12
<1> QED BY <1>2, <1>4, <1>8, <1>13, Paid

\* The steps of a loop that claim nothing.
LEMMA LoopPaid ==
  ASSUME CausesInv, QueueInv', NEW w \in Workers, LoopStep(w), ~Claim(w)
  PROVE  CausesInv'
<1>1. CASE Poll(w) \/ Resume(w) \/ ShutDown(w)
  <2>1. /\ UNCHANGED <<row, inFlight, failed, failures>>
        /\ UNCHANGED disturbances \/ Disturb
    BY <1>1 DEF Poll, Resume, ShutDown
  <2>2. /\ IsFiniteSet(inFlight') /\ Cardinality(inFlight') <= Cardinality(inFlight)
        /\ Covered' = Covered
        /\ \A k \in Jobs : row'[k].status # "absent" => row[k].status # "absent"
    BY <2>1, FS_CardinalityType DEF CausesInv, Finite, Covered
  <2>3. CASE Disturb
    BY <2>1, <2>2, <2>3, LossPaid
  <2>4. CASE UNCHANGED disturbances
    BY <2>1, <2>2, <2>4, QuietPaid
  <2> QED BY <2>1, <2>3, <2>4
<1> QED BY <1>1, ClaimFailsPaid, NoticePaid, StartPaid DEF LoopStep

\* A claim adds a handler for each row it leases, and takes no lease that is valid.
LEMMA ClaimPaid ==
  ASSUME CausesInv, QueueInv', NEW w \in Workers, Claim(w)
  PROVE  CausesInv'
<1>1. UNCHANGED <<failed, failures, disturbances>> /\ QueueInv
  BY DEF Claim, CausesInv
<1>2. CASE ~HasClaimableWork(w)
  <2>1. UNCHANGED <<row, inFlight>>
    BY <1>2 DEF Claim
  <2>2. /\ IsFiniteSet(inFlight') /\ Cardinality(inFlight') <= Cardinality(inFlight)
        /\ Covered \subseteq Covered'
    BY <2>1, FS_CardinalityType DEF CausesInv, Finite, Covered
  <2> QED BY <1>1, <2>1, <2>2, QuietPaid
<1>3. CASE HasClaimableWork(w)
  <2> DEFINE rows  == RecoverExpired(row)
             taken == FirstOf(rows, w, loop[w].limit)
             Given(j) == [worker |-> w, job |-> j, redrive |-> redrives[j],
                          delivery |-> rows[j].deliveries + 1, at |-> "handling"]
             new   == {Given(j) : j \in taken}
  <2>1. /\ row' = [j \in Jobs |-> IF j \in taken THEN Claimed(rows[j], w) ELSE rows[j]]
        /\ inFlight' = inFlight \cup new
    BY <1>3 DEF Claim
  <2>2. ASSUME NEW j \in Jobs
        PROVE  /\ rows[j] \in Row
               /\ rows[j].status = "absent" <=> row[j].status = "absent"
               /\ j \in Covered => rows[j] = row[j] /\ row[j].status = "leased"
    <3>1. rows[j] = IF Expired(row[j]) THEN Released(row[j], TRUE) ELSE row[j]
      BY DEF RecoverExpired
    <3>2. rows[j] \in Row /\ row[j] \in Row
      BY <1>1, RecoveredRow DEF QueueInv, QueueTypes
    <3>3. Expired(row[j]) => row[j].status = "leased" /\ rows[j].status # "absent"
      BY <3>1, <3>2, RowWritten DEF Expired
    <3>4. j \in Covered => row[j].status = "leased" /\ ~row[j].lapsed
      BY DEF Covered, CoveredBy
    <3> QED BY <3>1, <3>2, <3>3, <3>4 DEF Expired
  <2>3. ASSUME NEW j \in taken
        PROVE  /\ j \in Jobs /\ rows[j] \in Row /\ rows[j].status = "available"
               /\ rows[j].deliveries < MaximumDeliveries
    <3>1. j \in Jobs /\ rows[j].status = "available"
      BY QueueAssumption DEF FirstOf, Claimable
    <3> QED BY <1>1, <3>1, RecoveredRow
  <2>4. \A j \in taken : Given(j).worker = w /\ Given(j).job = j
    OBVIOUS
  <2>5. \A j \in taken : Given(j) \in new
    OBVIOUS
  <2>6. /\ IsFiniteSet(taken) /\ IsFiniteSet(new) /\ Cardinality(taken) \in Nat
        /\ Cardinality(new) \in Nat /\ Cardinality(new) <= Cardinality(taken)
    <3>1. taken \subseteq Published
      BY <2>2, <2>3 DEF Published
    <3>2. IsFiniteSet(taken)
      BY <3>1, FS_Subset DEF CausesInv, Finite
    <3> HIDE DEF taken
    <3> DEFINE f == [j \in taken |-> Given(j)]
    <3>3. f \in Surjection(taken, new)
      BY DEF Surjection
    <3> HIDE DEF f, new
    <3>4. IsFiniteSet(new) /\ Cardinality(new) <= Cardinality(taken)
      BY <3>2, <3>3, FS_Surjection
    <3> QED BY <3>2, <3>4, FS_CardinalityType
  <2> HIDE DEF rows, taken, Given, new
  <2>7. ASSUME NEW j \in taken
        PROVE  /\ row'[j].status = "leased" /\ row'[j].owner = w /\ ~row'[j].lapsed
               /\ j \in Covered' /\ j \notin Covered
    <3>1. row'[j] = Claimed(rows[j], w)
      BY <2>1, <2>3
    <3>2. row'[j].status = "leased" /\ row'[j].owner = w /\ ~row'[j].lapsed
      BY <2>3, <3>1, RowLeased
    <3>3. \E h \in inFlight' : h.worker = w /\ h.job = j
      BY <2>1, <2>4, <2>5
    <3>4. j \in Covered'
      BY <2>3, <3>2, <3>3 DEF Covered, CoveredBy
    <3> QED BY <2>2, <2>3, <3>2, <3>4
  <2>8. Covered \subseteq Covered'
    <3> SUFFICES ASSUME NEW j \in Covered
                 PROVE  j \in Covered'
      OBVIOUS
    <3>1. j \in Jobs /\ j \notin taken
      BY <2>7 DEF Covered, CoveredBy
    <3>2. row'[j] = row[j]
      BY <2>1, <2>2, <3>1
    <3> QED BY <2>1, <3>1, <3>2 DEF Covered, CoveredBy
  <2>9. /\ IsFiniteSet(inFlight') /\ Cardinality(inFlight') \in Nat
        /\ Cardinality(inFlight') <= Cardinality(inFlight) + Cardinality(new)
    BY <2>1, <2>6, AtMostBoth DEF CausesInv, Finite
  <2>10. /\ Cardinality(Covered) \in Nat /\ Cardinality(Covered') \in Nat
         /\ Cardinality(Covered) + Cardinality(taken) <= Cardinality(Covered')
    <3>1. IsFiniteSet(Covered) /\ IsFiniteSet(Covered')
      BY <2>9, Sizes, CoveredCount DEF Covered
    <3>2. Covered \cap taken = {} /\ Covered \cup taken \subseteq Covered'
      BY <2>7, <2>8
    <3>3. /\ IsFiniteSet(Covered \cup taken)
          /\ Cardinality(Covered \cup taken) = Cardinality(Covered) + Cardinality(taken)
      BY <2>6, <3>1, <3>2, BothWhenDisjoint
    <3>4. Cardinality(Covered \cup taken) <= Cardinality(Covered')
      BY <3>1, <3>2, <3>3, AtMost
    <3> QED BY <3>1, <3>3, <3>4, FS_CardinalityType
  <2>11. LoopTypes' /\ IsFiniteSet(Restarts') /\ Cardinality(Restarts') = Cardinality(Restarts)
    BY <1>1 DEF CausesInv, Finite, LoopTypes, Restarts
  <2>12. IsFiniteSet(Published')
    <3>1. ASSUME NEW j \in Jobs, row'[j].status # "absent"
          PROVE  row[j].status # "absent"
      BY <2>1, <2>2, <2>3, <3>1
    <3> QED BY <3>1, NonePublished
  <2>13. Cardinality(Restarts) \in Nat /\ Cardinality(inFlight) \in Nat /\ disturbances \in Nat
    BY Sizes
  <2>14. Cardinality(Restarts') + Cardinality(inFlight') + disturbances + Cardinality(Covered)
           <= Cardinality(Restarts) + Cardinality(inFlight) + disturbances' + Cardinality(Covered')
    BY <1>1, <2>6, <2>9, <2>10, <2>11, <2>13
  <2> QED BY <2>9, <2>11, <2>12, <2>14, Paid
<1> QED BY <1>2, <1>3

\* A handler that takes another step covers what it covered.
LEMMA GotoPaid ==
  ASSUME CausesInv, QueueInv', NEW h \in inFlight, NEW at, Goto(h, at),
         UNCHANGED <<row, failed, failures>>, UNCHANGED disturbances \/ Disturb
  PROVE  CausesInv'
<1> DEFINE g == [h EXCEPT !.at = at]
<1>1. h \in Delivery
  BY DEF CausesInv, QueueInv, QueueTypes
<1>2. g.job = h.job /\ g.worker = h.worker /\ inFlight' = (inFlight \ {h}) \cup {g}
  BY <1>1 DEF Delivery, Goto
<1> HIDE DEF g
<1>3. IsFiniteSet(inFlight') /\ Cardinality(inFlight') <= Cardinality(inFlight)
  BY <1>2, Exchanged DEF CausesInv, Finite
<1>4. Covered \subseteq Covered'
  BY <1>2 DEF Covered, CoveredBy
<1>5. \A k \in Jobs : row'[k].status # "absent" => row[k].status # "absent"
  OBVIOUS
<1>6. CASE Disturb
  <2>1. Covered \subseteq Covered' \cup {h}
    BY <1>4
  <2> QED BY <1>3, <1>5, <1>6, <2>1, LossPaid
<1>7. CASE UNCHANGED disturbances
  BY <1>3, <1>4, <1>5, <1>7, QuietPaid
<1> QED BY <1>6, <1>7

\* A handler that ends leaves every job covered but its own, and that one too if
\* the row is not its worker's.
LEMMA CoveredAfterEnd ==
  ASSUME CausesInv, NEW h \in inFlight, End(h),
         \A j \in Jobs : j # h.job => row'[j] = row[j]
  PROVE  /\ IsFiniteSet(inFlight') /\ Cardinality(inFlight') \in Nat
         /\ Cardinality(inFlight) \in Nat
         /\ Cardinality(inFlight') = Cardinality(inFlight) - 1
         /\ Cardinality(Covered) \in Nat /\ Cardinality(Covered') \in Nat
         /\ Cardinality(Covered) <= Cardinality(Covered') + 1
         /\ UNCHANGED row /\ ~Owned(h.worker, h.job) =>
              Cardinality(Covered) <= Cardinality(Covered')
<1>1. inFlight' = inFlight \ {h}
  BY DEF End
<1>2. /\ IsFiniteSet(inFlight') /\ Cardinality(inFlight') \in Nat
      /\ Cardinality(inFlight) \in Nat
      /\ Cardinality(inFlight') = Cardinality(inFlight) - 1
  BY <1>1, OneLess DEF CausesInv, Finite
<1>3. IsFiniteSet(Covered')
  BY <1>2, CoveredCount DEF Covered
<1>4. Covered \subseteq Covered' \cup {h.job}
  BY <1>1 DEF Covered, CoveredBy
<1>5. /\ Cardinality(Covered) \in Nat /\ Cardinality(Covered') \in Nat
      /\ Cardinality(Covered) <= Cardinality(Covered') + 1
  BY <1>3, <1>4, AtMostOneMore
<1>6. ASSUME UNCHANGED row, ~Owned(h.worker, h.job)
      PROVE  Cardinality(Covered) <= Cardinality(Covered')
  <2>1. Covered \subseteq Covered'
    BY <1>1, <1>6 DEF Covered, CoveredBy, Owned
  <2> QED BY <1>3, <2>1, AtMost
<1> QED BY <1>2, <1>5, <1>6

\* A settled delivery takes its handler and the lease along; a handler that does
\* not own the row leaves the leases as they are, and may cost a restart.
LEMMA EndPaid ==
  ASSUME CausesInv, QueueInv', NEW h \in inFlight, End(h),
         \A j \in Jobs : j # h.job => row'[j] = row[j],
         row'[h.job].status # "absent" => row[h.job].status # "absent",
         UNCHANGED failures,
         \/ Owned(h.worker, h.job) /\ UNCHANGED <<failed, disturbances>>
         \/ ~Owned(h.worker, h.job) /\ UNCHANGED <<row, disturbances>>
         \/ Disturb /\ UNCHANGED row,
         NEW error \in {"locked", "other"},
         UNCHANGED failed \/ Remember(h.worker, error)
  PROVE  CausesInv'
<1>1. LoopTypes /\ h \in Delivery /\ h.worker \in Workers
  BY DEF CausesInv, QueueInv, QueueTypes, Delivery
<1> DEFINE w == h.worker
<1>2. LoopTypes'
  BY <1>1 DEF LoopTypes, Remember, Disturb
<1>3. IsFiniteSet(Published')
  <2>1. \A j \in Jobs : row'[j].status # "absent" => row[j].status # "absent"
    OBVIOUS
  <2> QED BY <2>1, NonePublished
<1>4. /\ Owing(w)' \in Nat /\ Owing(w)' <= Owing(w) + 1
      /\ UNCHANGED failed => Owing(w)' <= Owing(w)
      /\ \A v \in Workers : v # w => Owing(v)' = Owing(v)
  <2>1. failures[w] \in Nat /\ UNCHANGED failures
    BY <1>1, QueueAssumption DEF LoopTypes
  <2>2. \A v \in Workers : v # w => failed'[v] = failed[v]
    BY <1>1 DEF LoopTypes, Remember
  <2> QED BY <2>1, <2>2 DEF Owing
<1> HIDE DEF w
<1>5. /\ IsFiniteSet(Restarts') /\ Cardinality(Restarts') \in Nat
      /\ Cardinality(Restarts') <= Cardinality(Restarts) + 1
      /\ UNCHANGED failed => Cardinality(Restarts') <= Cardinality(Restarts)
  BY <1>1, <1>4, OneRestartMore DEF w
<1>6. /\ IsFiniteSet(inFlight') /\ Cardinality(inFlight') \in Nat
      /\ Cardinality(inFlight) \in Nat
      /\ Cardinality(inFlight') = Cardinality(inFlight) - 1
      /\ Cardinality(Covered) \in Nat /\ Cardinality(Covered') \in Nat
      /\ Cardinality(Covered) <= Cardinality(Covered') + 1
      /\ UNCHANGED row /\ ~Owned(h.worker, h.job) =>
           Cardinality(Covered) <= Cardinality(Covered')
  BY CoveredAfterEnd
<1>7. Cardinality(Restarts) \in Nat /\ disturbances \in Nat
  BY Sizes
<1>8. Cardinality(Restarts') + Cardinality(inFlight') + disturbances + Cardinality(Covered)
        <= Cardinality(Restarts) + Cardinality(inFlight) + disturbances' + Cardinality(Covered')
  <2>1. CASE Owned(h.worker, h.job) /\ UNCHANGED <<failed, disturbances>>
    BY <1>5, <1>6, <1>7, <2>1
  <2>2. CASE ~Owned(h.worker, h.job) /\ UNCHANGED <<row, disturbances>>
    BY <1>5, <1>6, <1>7, <2>2
  <2>3. CASE Disturb /\ UNCHANGED row
    BY <1>5, <1>6, <1>7, <2>3 DEF Disturb
  <2> QED BY <2>1, <2>2, <2>3
<1> QED BY <1>2, <1>3, <1>5, <1>6, <1>8, Paid

\* Every step of a handler.
LEMMA HandlerPaid ==
  ASSUME CausesInv, QueueInv', NEW h \in inFlight, HandlerStep(h)
  PROVE  CausesInv'
<1>1. h \in Delivery /\ h.job \in Jobs /\ row \in [Jobs -> Row]
  BY DEF CausesInv, QueueInv, QueueTypes, Delivery
<1>2. CASE Succeed(h) \/ Fail(h) \/ AcknowledgeFails(h)
  BY <1>2, GotoPaid DEF Succeed, Fail, AcknowledgeFails
<1>3. CASE Acknowledge(h)
  <2>1. UNCHANGED <<failed, failures, disturbances>>
    BY <1>3 DEF Acknowledge
  <2>2. CASE Owned(h.worker, h.job)
    <3>1. /\ End(h) /\ \A j \in Jobs : j # h.job => row'[j] = row[j]
          /\ row[h.job].status # "absent"
      BY <1>1, <1>3, <2>2 DEF Acknowledge, Owned
    <3> QED BY <2>1, <2>2, <3>1, EndPaid
  <2>3. CASE ~Owned(h.worker, h.job)
    <3>1. UNCHANGED row /\ (End(h) \/ Goto(h, "rejecting"))
      BY <1>3, <2>3 DEF Acknowledge
    <3>2. CASE End(h)
      BY <2>1, <2>3, <3>1, <3>2, EndPaid
    <3> QED BY <2>1, <3>1, <3>2, GotoPaid
  <2> QED BY <2>2, <2>3
<1>4. CASE Reject(h)
  <2>1. UNCHANGED <<failures, disturbances>> /\ End(h)
    BY <1>4 DEF Reject
  <2>2. CASE Owned(h.worker, h.job)
    <3>1. /\ UNCHANGED failed /\ \A j \in Jobs : j # h.job => row'[j] = row[j]
          /\ row[h.job].status # "absent"
      BY <1>1, <1>4, <2>2 DEF Reject, Owned
    <3> QED BY <2>1, <2>2, <3>1, EndPaid
  <2>3. CASE ~Owned(h.worker, h.job)
    <3>1. UNCHANGED row /\ Remember(h.worker, "other")
      BY <1>4, <2>3 DEF Reject
    <3> QED BY <2>1, <2>3, <3>1, EndPaid
  <2> QED BY <2>2, <2>3
<1>5. CASE RejectFails(h)
  <2>1. PICK error \in {"locked", "other"} : Remember(h.worker, error)
    BY <1>5 DEF RejectFails
  <2>2. Disturb /\ End(h) /\ UNCHANGED <<row, failures>>
    BY <1>5 DEF RejectFails
  <2> QED BY <2>1, <2>2, EndPaid
<1> QED BY <1>2, <1>3, <1>4, <1>5 DEF HandlerStep

\* The restarts of the loops, those under way included, are no more than the
\* disturbances (acknowledge, reject, throwInFlightFailure), for any number of
\* workers, jobs and handlers.
THEOREM RestartsCaused == Spec => []RestartsHaveCauses
<1>1. Init => CausesInv
  <2> SUFFICES ASSUME Init
               PROVE  CausesInv
    OBVIOUS
  <2>1. QueueInv
    BY StartsPromised
  <2>2. LoopTypes
    BY QueueAssumption DEF Init, LoopTypes
  <2>3. Restarts = {} /\ inFlight = {} /\ Published = {} /\ disturbances = 0
    BY QueueAssumption DEF Init, Restarts, Published, NoRow
  <2>4. /\ IsFiniteSet({}) /\ Cardinality({}) = 0
    BY FS_EmptySet
  <2>5. Finite /\ Cardinality(Covered) \in Nat
    BY <2>3, <2>4, CoveredCount DEF Finite, Covered
  <2>6. Balance(Cardinality(Restarts), Cardinality(inFlight), disturbances, Cardinality(Covered))
    BY <2>3, <2>4, <2>5 DEF Balance
  <2> QED BY <2>1, <2>2, <2>5, <2>6 DEF CausesInv
<1>2. CausesInv /\ [Next]_vars => CausesInv'
  <2> SUFFICES ASSUME CausesInv, [Next]_vars
               PROVE  CausesInv'
    OBVIOUS
  <2>1. QueueInv'
    BY StepsKept DEF CausesInv, Kept
  <2>2. CASE UNCHANGED vars
    BY <2>1, <2>2 DEF vars, CausesInv, LoopTypes, Finite, Restarts, Published, Covered
  <2>3. CASE Next
    BY <2>1, <2>3, RowPaid, RedrivePaid, LoopPaid, ClaimPaid, HandlerPaid DEF Next
  <2> QED BY <2>2, <2>3
<1>3. CausesInv => RestartsHaveCauses
  <2> SUFFICES ASSUME CausesInv
               PROVE  RestartsHaveCauses
    OBVIOUS
  <2>1. /\ Cardinality(Restarts) \in Nat /\ Cardinality(inFlight) \in Nat
        /\ Cardinality(Covered) \in Nat /\ disturbances \in Nat
        /\ Cardinality(Covered) <= Cardinality(inFlight)
        /\ Balance(Cardinality(Restarts), Cardinality(inFlight), disturbances,
                   Cardinality(Covered))
    BY Sizes
  <2> QED BY <2>1 DEF Balance, RestartsHaveCauses
<1> QED BY <1>1, <1>2, <1>3, PTL DEF Spec
=================================================================================
