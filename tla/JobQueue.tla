-------------------------------- MODULE JobQueue --------------------------------
(***************************************************************************)
(* The job queue of the Lite edition: the rows of queue_jobs and the       *)
(* workers that claim, handle, acknowledge and reject them.                *)
(*                                                                         *)
(* A worker renews the lease of a job while its handler runs.  A handler   *)
(* that outlives the lease is not stopped: its job can be claimed again,   *)
(* by another worker or by its own, and it still acknowledges or rejects   *)
(* the row in the end.  The row knows the name of the worker only, not the *)
(* delivery.                                                               *)
(*                                                                         *)
(* Jobs are told apart by their deduplication key: a second message with   *)
(* the key of a row is not written.                                        *)
(***************************************************************************)
EXTENDS Naturals, FiniteSets, FiniteSetsExt

CONSTANTS
  Jobs,                \* deduplication keys
  Workers,             \* names of workers, lite-web-<pid>-<class>
  Serves,              \* Serves[w]: the jobs of the class worker w claims
  Rank,                \* Rank[j]: ORDER BY priority DESC, created_at, message_id
  Concurrency,         \* handlers a worker runs at once
  MaximumDeliveries,   \* maximum_deliveries, 8 in the schema
  MaxFailures,         \* maximumConsecutiveFailures of a worker's loop, 60
  MaxDisturbances,     \* stalls, crashes, shutdowns, database errors (a bound)
  MaxRedrives          \* redrives of a job by an operator (a bound)

ASSUME QueueAssumption ==
  /\ Serves \in [Workers -> SUBSET Jobs]
  /\ Rank \in [Jobs -> Nat] /\ \A j, k \in Jobs : Rank[j] = Rank[k] => j = k
  /\ {Concurrency, MaximumDeliveries, MaxFailures} \subseteq Nat \ {0}
  /\ {MaxDisturbances, MaxRedrives} \subseteq Nat
  /\ "none" \notin Workers

VARIABLES
  row,                 \* queue_jobs
  inFlight,            \* the handlers of all workers
  loop,                \* where each worker's loop is
  failed,              \* inFlightFailure of each worker
  failures,            \* consecutive failures of each worker's loop
  handled,             \* jobs some handler succeeded with
  redrives,            \* redrives of each job so far
  disturbances         \* disturbances so far

vars == <<row, inFlight, loop, failed, failures, handled, redrives, disturbances>>

\* A row; "absent" until the job is published.
Row == [status: {"absent", "available", "leased", "completed", "dead_letter"},
        due: BOOLEAN, owner: Workers \cup {"none"}, lapsed: BOOLEAN,
        deliveries: 0 .. MaximumDeliveries]

\* A handler: the delivery it was given and what it does next.
Delivery == [worker: Workers, job: Jobs, redrive: 0 .. MaxRedrives,
             delivery: 1 .. MaximumDeliveries,
             at: {"handling", "acknowledging", "rejecting"}]

NoRow == [status |-> "absent", due |-> FALSE, owner |-> "none", lapsed |-> FALSE,
          deliveries |-> 0]

Polling == [at |-> "poll", limit |-> 0]

Init ==
  /\ row = [j \in Jobs |-> NoRow]
  /\ inFlight = {}
  /\ loop = [w \in Workers |-> Polling]
  /\ failed = [w \in Workers |-> "none"]
  /\ failures = [w \in Workers |-> 0]
  /\ handled = {} /\ redrives = [j \in Jobs |-> 0] /\ disturbances = 0

-----------------------------------------------------------------------------
(* The rows.                                                               *)

Disturb == disturbances < MaxDisturbances /\ disturbances' = disturbances + 1

ExpiredOrNot(r) == r.status = "leased"

\* A lease that ran out and was not settled.
Expired(r) == r.status = "leased" /\ r.lapsed

\* What becomes of a row whose delivery came to nothing.
Released(r, due) ==
  [r EXCEPT !.status = IF r.deliveries >= MaximumDeliveries THEN "dead_letter" ELSE "available",
            !.owner = "none", !.lapsed = FALSE, !.due = due]

Claimed(r, w) ==
  [r EXCEPT !.status = "leased", !.owner = w, !.lapsed = FALSE, !.deliveries = @ + 1]

Settled(r) == [r EXCEPT !.status = "completed", !.owner = "none", !.lapsed = FALSE]

RecoverExpired(rows) ==
  [j \in Jobs |-> IF Expired(rows[j]) THEN Released(rows[j], TRUE) ELSE rows[j]]

ClaimableDespiteLease(rows, w) ==
  {j \in Serves[w] : rows[j].status \in {"available", "leased"} /\ rows[j].due}

Claimable(rows, w) == {j \in Serves[w] : rows[j].status = "available" /\ rows[j].due}

\* The first n claimable rows in the order of the queue.
FirstOf(rows, w, n) ==
  {j \in Claimable(rows, w) :
     Cardinality({k \in Claimable(rows, w) : Rank[k] < Rank[j]}) < n}

\* The row belongs to the worker: all that acknowledge and reject ask.
Owned(w, j) == row[j].status = "leased" /\ row[j].owner = w

Publish(j) ==
  /\ row[j].status = "absent"
  /\ row' = [row EXCEPT ![j].status = "available"]
  /\ UNCHANGED <<inFlight, loop, failed, failures, handled, redrives, disturbances>>

\* available_at, set by the publisher or by the pause after a rejection, passes.
BecomesDue(j) ==
  /\ row[j].status = "available" /\ ~row[j].due
  /\ row' = [row EXCEPT ![j].due = TRUE]
  /\ UNCHANGED <<inFlight, loop, failed, failures, handled, redrives, disturbances>>

\* A handler of the owner keeps the lease alive; only a stall lets it lapse.
LeaseLapses(j) ==
  /\ row[j].status = "leased" /\ ~row[j].lapsed
  /\ row' = [row EXCEPT ![j].lapsed = TRUE]
  /\ IF \E h \in inFlight : h.worker = row[j].owner /\ h.job = j
     THEN Disturb
     ELSE UNCHANGED disturbances
  /\ UNCHANGED <<inFlight, loop, failed, failures, handled, redrives>>

RedriveDeadLetters ==
  LET dead == {j \in Jobs : row[j].status = "dead_letter"}
  IN  /\ dead # {} /\ \A j \in dead : redrives[j] < MaxRedrives
      /\ redrives' = [j \in Jobs |-> IF j \in dead THEN redrives[j] + 1 ELSE redrives[j]]
      /\ row' = [j \in Jobs |->
                   IF j \in dead
                   THEN [status |-> "available", due |-> TRUE, owner |-> "none",
                         lapsed |-> FALSE, deliveries |-> 0]
                   ELSE row[j]]
      /\ UNCHANGED <<inFlight, loop, failed, failures, handled, disturbances>>

-----------------------------------------------------------------------------
(* The loop of a worker, and what restarts it.                             *)

InFlight(w) == {h \in inFlight : h.worker = w}

Room(w) == Concurrency - Cardinality(InFlight(w))

\* The loop looks for room; without any it waits until a handler ends.
Poll(w) ==
  /\ loop[w].at = "poll" /\ failed[w] = "none" /\ Room(w) > 0
  /\ loop' = [loop EXCEPT ![w] = [at |-> "claim", limit |-> Room(w)]]
  /\ UNCHANGED <<row, inFlight, failed, failures, handled, redrives, disturbances>>

HasAvailableWork(w) == \E j \in Serves[w] : row[j].status = "available" /\ row[j].due

HasClaimableWork(w) ==
  \E j \in Serves[w] : Expired(row[j]) \/ (row[j].status = "available" /\ row[j].due)

\* All expired leases are recovered, if there is anything for this worker.
Claim(w) ==
  /\ loop[w].at = "claim"
  /\ loop' = [loop EXCEPT ![w] = Polling]
  /\ IF HasClaimableWork(w)
     THEN LET rows == RecoverExpired(row)
              taken == FirstOf(rows, w, loop[w].limit)
          IN  /\ row' = [j \in Jobs |->
                           IF j \in taken
                           THEN Claimed(rows[j], w)
                           ELSE rows[j]]
              /\ inFlight' = inFlight \cup
                   {[worker |-> w, job |-> j, redrive |-> redrives[j],
                     delivery |-> rows[j].deliveries + 1, at |-> "handling"] : j \in taken}
     ELSE UNCHANGED <<row, inFlight>>
  /\ UNCHANGED <<failed, failures, handled, redrives, disturbances>>

\* run() throws: the loop pauses and starts again, unless it failed too often in
\* a row.  A run of 30 s clears the count; a locked database never ends the loop.
RunThrows(w, error) ==
  \E stable \in BOOLEAN :
    LET n == IF stable THEN 1 ELSE failures[w] + 1
    IN  /\ failures' = [failures EXCEPT ![w] = Min({n, MaxFailures})]
        /\ loop' = [loop EXCEPT ![w] =
                      [at |-> IF n >= MaxFailures /\ error # "locked" THEN "stopped" ELSE "pause",
                       limit |-> 0]]

ClaimFails(w) ==
  /\ loop[w].at = "claim" /\ Disturb
  /\ \E error \in {"locked", "other"} : RunThrows(w, error)
  /\ UNCHANGED <<row, inFlight, failed, handled, redrives>>

\* throwInFlightFailure
NoticeFailure(w) ==
  /\ loop[w].at = "poll" /\ failed[w] # "none"
  /\ RunThrows(w, failed[w])
  /\ failed' = [failed EXCEPT ![w] = "none"]
  /\ UNCHANGED <<row, inFlight, handled, redrives, disturbances>>

Resume(w) ==
  /\ loop[w].at = "pause"
  /\ loop' = [loop EXCEPT ![w] = Polling]
  /\ UNCHANGED <<row, inFlight, failed, failures, handled, redrives, disturbances>>

\* A signal ends the loop; the handlers are waited for, then the process ends.
ShutDown(w) ==
  /\ loop[w].at \in {"poll", "pause"} /\ Disturb
  /\ loop' = [loop EXCEPT ![w] = [at |-> "drain", limit |-> 0]]
  /\ UNCHANGED <<row, inFlight, failed, failures, handled, redrives>>

\* A new process, in the worst case with the pid and so the name of the old one.
Start(w) ==
  /\ loop' = [loop EXCEPT ![w] = Polling]
  /\ failed' = [failed EXCEPT ![w] = "none"]
  /\ failures' = [failures EXCEPT ![w] = 0]
  /\ UNCHANGED <<row, handled, redrives>>

Drained(w) ==
  /\ loop[w].at = "drain" /\ InFlight(w) = {}
  /\ Start(w)
  /\ UNCHANGED <<inFlight, disturbances>>

Crash(w) ==
  /\ Disturb
  /\ inFlight' = inFlight \ InFlight(w)
  /\ Start(w)

-----------------------------------------------------------------------------
(* A handler.                                                              *)

Goto(h, at) == inFlight' = (inFlight \ {h}) \cup {[h EXCEPT !.at = at]}

End(h) == inFlight' = inFlight \ {h}

Succeed(h) ==
  /\ h.at = "handling" /\ Goto(h, "acknowledging")
  /\ handled' = handled \cup {h.job}
  /\ UNCHANGED <<row, loop, failed, failures, redrives, disturbances>>

\* The handler throws, because of the job or because the lost lease aborted it.
Fail(h) ==
  /\ h.at = "handling" /\ Goto(h, "rejecting")
  /\ UNCHANGED <<row, loop, failed, failures, handled, redrives, disturbances>>

AcknowledgeWhateverRow(h) ==
  /\ h.at = "acknowledging" /\ End(h)
  /\ row' = [row EXCEPT ![h.job] = Settled(@)]
  /\ UNCHANGED <<loop, failed, failures, handled, redrives, disturbances>>

Acknowledge(h) ==
  /\ h.at = "acknowledging"
  /\ IF Owned(h.worker, h.job)
     THEN /\ row' = [row EXCEPT ![h.job] = Settled(@)]
          /\ End(h)
     ELSE /\ IF row[h.job].status = "completed" THEN End(h) ELSE Goto(h, "rejecting")
          /\ UNCHANGED row
  /\ UNCHANGED <<loop, failed, failures, handled, redrives, disturbances>>

AcknowledgeFails(h) ==
  /\ h.at = "acknowledging" /\ Disturb
  /\ Goto(h, "rejecting")
  /\ UNCHANGED <<row, loop, failed, failures, handled, redrives>>

\* The first failure of a handler is kept until the loop sees it.
Remember(w, error) == failed' = [failed EXCEPT ![w] = IF @ = "none" THEN error ELSE @]

Reject(h) ==
  /\ h.at = "rejecting" /\ End(h)
  /\ IF Owned(h.worker, h.job)
     THEN row' = [row EXCEPT ![h.job] = Released(@, FALSE)] /\ UNCHANGED failed
     ELSE Remember(h.worker, "other") /\ UNCHANGED row
  /\ UNCHANGED <<loop, failures, handled, redrives, disturbances>>

RejectFails(h) ==
  /\ h.at = "rejecting" /\ Disturb /\ End(h)
  /\ \E error \in {"locked", "other"} : Remember(h.worker, error)
  /\ UNCHANGED <<row, loop, failures, handled, redrives>>

-----------------------------------------------------------------------------
HandlerStep(h) ==
  \/ Succeed(h) \/ Fail(h) \/ Acknowledge(h) \/ AcknowledgeFails(h)
  \/ Reject(h) \/ RejectFails(h)

LoopStep(w) ==
  \/ Poll(w) \/ Claim(w) \/ ClaimFails(w) \/ NoticeFailure(w) \/ Resume(w)
  \/ ShutDown(w) \/ Drained(w) \/ Crash(w)

Next ==
  \/ \E j \in Jobs : Publish(j) \/ BecomesDue(j) \/ LeaseLapses(j)
  \/ RedriveDeadLetters
  \/ \E w \in Workers : LoopStep(w)
  \/ \E h \in inFlight : HandlerStep(h)

Spec == Init /\ [][Next]_vars

\* Time passes; a process that runs goes on with its loop, its handlers end, and a
\* process that has to end is started again.
Fairness ==
  /\ \A j \in Jobs :
       WF_vars(BecomesDue(j)) /\ WF_vars(LeaseLapses(j) /\ UNCHANGED disturbances)
  /\ \A w \in Workers :
       /\ WF_vars(Poll(w) \/ Claim(w) \/ NoticeFailure(w) \/ Resume(w) \/ Drained(w))
       /\ \A j \in Jobs :
            WF_vars(\E h \in {g \in InFlight(w) : g.job = j} :
                      Succeed(h) \/ Fail(h) \/ Acknowledge(h) \/ Reject(h))

FairSpec == Spec /\ Fairness

-----------------------------------------------------------------------------
(* Properties.                                                             *)

\* The rows are as the schema allows, and a row has an owner exactly while it is
\* leased: publish, claim, acknowledge, reject, recover and redrive keep the
\* columns of a row in step.
TypeOK ==
  /\ row \in [Jobs -> Row] /\ inFlight \subseteq Delivery
  /\ loop \in [Workers -> [at: {"poll", "claim", "pause", "drain", "stopped"},
                           limit: 0 .. Concurrency]]
  /\ failed \in [Workers -> {"none", "locked", "other"}]
  /\ failures \in [Workers -> 0 .. MaxFailures]
  /\ handled \subseteq Jobs
  /\ redrives \in [Jobs -> 0 .. MaxRedrives] /\ disturbances \in 0 .. MaxDisturbances
  /\ \A j \in Jobs : (row[j].status = "leased") <=> (row[j].owner # "none")

\* The job as JobDelivery sees it.
Standing(j) ==
  CASE row[j].status = "absent"      -> "unpublished"
    [] row[j].status = "completed"   -> "done"
    [] row[j].status = "dead_letter" -> "dead"
    [] OTHER                         -> "pending"

Outcome(j) ==
  IF j \in handled THEN "handled"
  ELSE IF row[j].deliveries + redrives[j] > 0 THEN "tried" ELSE "untried"

Promised == [j \in Jobs |-> [status    |-> Standing(j),
                             delivered |-> row[j].deliveries,
                             outcome   |-> Outcome(j)]]

Promise == INSTANCE JobDelivery WITH job <- Promised

\* The queue and its workers deliver every job as JobDelivery promises, whatever
\* stale handlers, crashes and lost leases do to its row: done only after a
\* handler's success, dead only after all deliveries, never more deliveries than
\* the limit, and a job that is done stays done (claim, acknowledge, reject).
DeliversAsPromised == Promise!Spec

\* A job is in the hands of one handler at a time as long as no worker stalls,
\* crashes or fails to write (claim's conditional update, the renewal of leases).
OneHandlerUnlessDisturbed ==
  disturbances = 0 => \A g, h \in inFlight : g.job = h.job => g = h

\* The restarts of the workers' loops, numbered: those in a row so far, and one for a
\* failure that the loop has still to see.
Restarts ==
  {r \in Workers \X (1 .. MaxFailures + 1) :
     r[2] <= failures[r[1]] + (IF failed[r[1]] = "none" THEN 0 ELSE 1)}

\* A disturbance costs the loops of the workers one restart at most: a handler
\* that lost its lease settles the delivery of its successor, and only the last
\* of them finds the row taken (acknowledge, reject, throwInFlightFailure).  So
\* maximumConsecutiveFailures counts disturbances, not jobs.
RestartsHaveCauses == Cardinality(Restarts) <= disturbances

\* A published job is completed or ends as a dead letter in the end, unless every
\* worker that serves it gave up; it is not left behind with a lease nobody
\* holds (recoverExpired) or behind a loop nobody restarts.
EveryJobSettles ==
  \A j \in Jobs :
    row[j].status \in {"available", "leased"} ~>
      \/ row[j].status \in {"completed", "dead_letter"}
      \/ \A w \in Workers : j \in Serves[w] => loop[w].at = "stopped"
================================================================================
