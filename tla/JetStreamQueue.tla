----------------------------- MODULE JetStreamQueue -----------------------------
(***************************************************************************)
(* The job queue of the Full edition: rows of transactional_outbox, the    *)
(* relays that publish them, the JetStream stream and consumer, and the    *)
(* workers that handle what it delivers.                                   *)
(*                                                                         *)
(* The stream is external and modelled by what the code asks of it: a      *)
(* message whose msgID was seen within the duplicate window is not stored  *)
(* again; a message that is not settled within the acknowledgement wait is *)
(* delivered again, until it was delivered max_deliver times; then nothing *)
(* happens to it.  A repetition after the window of 24 h is left out.      *)
(*                                                                         *)
(* A message with an Available-At later than its job's creation is not     *)
(* handled but stored again without it, and then acknowledged: redriven    *)
(* jobs take that way.  A worker that runs renews its deliveries in time.  *)
(***************************************************************************)
EXTENDS Integers, Sequences, FiniteSets, FiniteSetsExt

CONSTANTS
  Jobs,                \* deduplication keys
  Relays,              \* worker ids of the outbox relays
  Workers,             \* workers of the queue
  MaximumDeliveries,   \* max_deliver of the consumer, 8 in the code
  MaxPublishAttempts,  \* maximum_publish_attempts, 16 in the schema
  MaxDisturbances,     \* crashes, lost confirmations, slow relays (a bound)
  MaxRedrives          \* redrives by an operator (a bound)

ASSUME StreamAssumption ==
  /\ {MaximumDeliveries, MaxPublishAttempts} \subseteq Nat \ {0}
  /\ {MaxDisturbances, MaxRedrives} \subseteq Nat
  /\ "none" \notin Relays

VARIABLES
  outbox,       \* transactional_outbox
  relay,        \* what each relay has claimed and is about to do
  stream,       \* the stored messages, by stream sequence
  window,       \* the msgIDs stored so far
  inFlight,     \* deliveries in the hands of workers
  redriving,    \* the dead letter an operator's redrive is about to delete, or 0
  handled,      \* jobs some handler succeeded with
  disturbances

vars == <<outbox, relay, stream, window, inFlight, redriving, handled, disturbances>>

queueVars == <<stream, window, inFlight, redriving, handled>>
relayVars == <<outbox, relay>>

NotEnqueued ==
  [status |-> "absent", owner |-> "none", lapsed |-> FALSE, due |-> FALSE, attempts |-> 0]

Idle == [batch |-> {}, stored |-> {}]

Init ==
  /\ outbox = [j \in Jobs |-> NotEnqueued]
  /\ relay = [k \in Relays |-> Idle]
  /\ stream = <<>> /\ window = {} /\ inFlight = {} /\ redriving = 0
  /\ handled = {} /\ disturbances = 0

Disturb == disturbances < MaxDisturbances /\ disturbances' = disturbances + 1

-----------------------------------------------------------------------------
(* The stream.                                                             *)

Message(j, subject, deferred) ==
  [job |-> j, subject |-> subject, deferred |-> deferred, status |-> "waiting",
   due |-> TRUE, deliveries |-> 0]

StoreEachTime(log, id, m) == Append(log, m)

\* publish with a msgID: a duplicate is confirmed and not stored.
Store(log, id, m) == IF id \in window THEN log ELSE Append(log, m)

Publish(id, m) ==
  /\ stream' = Store(stream, id, m)
  /\ window' = window \cup {id}

Seqs == DOMAIN stream

Holders(i) == {h \in inFlight : h.seq = i}

Settled(log, i) == [log EXCEPT ![i].status = "acked"]

\* nak: the message comes again after a pause, unless it is settled already.
PutBack(log, i) ==
  IF log[i].status = "out" THEN [log EXCEPT ![i].status = "waiting", ![i].due = FALSE] ELSE log

AckWaitPasses(i) ==
  /\ stream[i].status = "out" /\ Holders(i) = {}
  /\ stream' = [stream EXCEPT ![i].status = "waiting", ![i].due = TRUE]
  /\ UNCHANGED <<relayVars, window, inFlight, redriving, handled, disturbances>>

PausePasses(i) ==
  /\ stream[i].status = "waiting" /\ ~stream[i].due
  /\ stream' = [stream EXCEPT ![i].due = TRUE]
  /\ UNCHANGED <<relayVars, window, inFlight, redriving, handled, disturbances>>

-----------------------------------------------------------------------------
(* The outbox and its relays.                                              *)

\* The transaction that creates the work also writes the row.
Enqueue(j) ==
  /\ outbox[j].status = "absent"
  /\ outbox' = [outbox EXCEPT ![j] = [@ EXCEPT !.status = "waiting", !.due = TRUE]]
  /\ UNCHANGED <<relay, queueVars, disturbances>>

UnclaimedRow(r) == r.status = "waiting" /\ r.due /\ r.owner = "none"

ClaimableRow(r) == r.status = "waiting" /\ r.due /\ (r.owner = "none" \/ r.lapsed)

RelayClaim(k) ==
  LET rows == {j \in Jobs : ClaimableRow(outbox[j])}
  IN  /\ relay[k].batch = {} /\ rows # {}
      /\ outbox' = [j \in Jobs |->
                      IF j \in rows
                      THEN [outbox[j] EXCEPT !.owner = k, !.lapsed = FALSE, !.attempts = @ + 1]
                      ELSE outbox[j]]
      /\ relay' = [relay EXCEPT ![k] = [batch |-> rows, stored |-> {}]]
      /\ UNCHANGED <<queueVars, disturbances>>

\* The rows of a batch are published one after the other.
RelayPublish(k, j) ==
  /\ j \in relay[k].batch /\ relay[k].stored = {}
  /\ Publish(<<"job", j>>, Message(j, "ready", FALSE))
  /\ relay' = [relay EXCEPT ![k].stored = {j}]
  /\ UNCHANGED <<outbox, inFlight, redriving, handled, disturbances>>

Leave(k, j) == relay' = [relay EXCEPT ![k] = [batch |-> @.batch \ {j}, stored |-> {}]]

OwnedBy(k, j) == outbox[j].owner = k /\ outbox[j].status = "waiting"

\* published_at is written only by the owner of the row's lease.
RelayMark(k, j) ==
  /\ j \in relay[k].stored
  /\ Leave(k, j)
  /\ outbox' = [outbox EXCEPT ![j] =
                  IF OwnedBy(k, j)
                  THEN [@ EXCEPT !.status = "published", !.owner = "none", !.lapsed = FALSE]
                  ELSE @]
  /\ UNCHANGED <<queueVars, disturbances>>

\* recordFailure, when the stream did not confirm (it may have stored the
\* message) or the row could not be written.
RelayFails(k, j) ==
  /\ j \in relay[k].batch /\ (relay[k].stored = {} \/ j \in relay[k].stored)
  /\ Disturb /\ Leave(k, j)
  /\ outbox' = [outbox EXCEPT ![j] =
                  IF OwnedBy(k, j)
                  THEN [@ EXCEPT !.owner = "none", !.lapsed = FALSE, !.due = FALSE,
                                 !.status = IF outbox[j].attempts >= MaxPublishAttempts
                                            THEN "failed" ELSE "waiting"]
                  ELSE @]
  /\ \/ Publish(<<"job", j>>, Message(j, "ready", FALSE))
     \/ UNCHANGED <<stream, window>>
  /\ UNCHANGED <<inFlight, redriving, handled>>

RelayCrashes(k) ==
  /\ relay[k].batch # {} /\ Disturb
  /\ relay' = [relay EXCEPT ![k] = Idle]
  /\ UNCHANGED <<outbox, queueVars>>

\* A relay whose batch takes longer than the lease is not stopped.
RelayLeaseLapses(j) ==
  /\ outbox[j].status = "waiting" /\ outbox[j].owner # "none" /\ ~outbox[j].lapsed
  /\ outbox' = [outbox EXCEPT ![j].lapsed = TRUE]
  /\ IF j \in relay[outbox[j].owner].batch THEN Disturb ELSE UNCHANGED disturbances
  /\ UNCHANGED <<relay, queueVars>>

RetryPausePasses(j) ==
  /\ outbox[j].status = "waiting" /\ ~outbox[j].due
  /\ outbox' = [outbox EXCEPT ![j].due = TRUE]
  /\ UNCHANGED <<relay, queueVars, disturbances>>

-----------------------------------------------------------------------------
(* Workers.                                                                *)

Goto(h, at) == inFlight' = (inFlight \ {h}) \cup {[h EXCEPT !.at = at]}

End(h) == inFlight' = inFlight \ {h}

\* fetch, and claimFrom's look at the headers.
Fetch(w, i) ==
  LET m == stream[i]
  IN  /\ m.subject = "ready" /\ m.status = "waiting" /\ m.due
      /\ m.deliveries < MaximumDeliveries
      /\ stream' = [stream EXCEPT ![i].status = "out", ![i].deliveries = @ + 1]
      /\ inFlight' = inFlight \cup
           {[worker |-> w, seq |-> i, delivery |-> m.deliveries + 1,
             at |-> IF m.deferred THEN "moving" ELSE "handling"]}
      /\ UNCHANGED <<relayVars, window, redriving, handled, disturbances>>

\* promoteDeferredMessage stores the job again first and then acknowledges.
Move(h) ==
  /\ h.at = "moving" /\ Goto(h, "settling")
  /\ Publish(<<"moved", h.seq>>, Message(stream[h.seq].job, "ready", FALSE))
  /\ UNCHANGED <<relayVars, redriving, handled, disturbances>>

Succeed(h) ==
  /\ h.at = "handling" /\ Goto(h, "acknowledging")
  /\ handled' = handled \cup {stream[h.seq].job}
  /\ UNCHANGED <<relayVars, stream, window, redriving, disturbances>>

HandlerFails(h) ==
  /\ h.at = "handling" /\ Goto(h, "rejecting")
  /\ UNCHANGED <<relayVars, stream, window, redriving, handled, disturbances>>

\* ackAck of a handled, a moved or a buried message.
Acknowledge(h) ==
  /\ h.at \in {"acknowledging", "settling"} /\ End(h)
  /\ stream' = Settled(stream, h.seq)
  /\ UNCHANGED <<relayVars, window, redriving, handled, disturbances>>

\* No confirmation came, though the stream may have taken the acknowledgement:
\* the worker rejects a job its handler succeeded with.
AcknowledgeFails(h) ==
  /\ h.at = "acknowledging" /\ Disturb /\ Goto(h, "rejecting")
  /\ stream' \in {stream, Settled(stream, h.seq)}
  /\ UNCHANGED <<relayVars, window, redriving, handled>>

LastDelivery(h) == h.delivery >= MaximumDeliveries

RejectOneEarly(h) ==
  /\ h.at = "rejecting"
  /\ IF h.delivery + 1 >= MaximumDeliveries
     THEN /\ Publish(<<"dead", h.seq>>, Message(stream[h.seq].job, "dead", FALSE))
          /\ Goto(h, "settling")
     ELSE /\ stream' = PutBack(stream, h.seq) /\ UNCHANGED window
          /\ End(h)
  /\ UNCHANGED <<relayVars, redriving, handled, disturbances>>

\* The last delivery leaves a dead letter, and only then settles the message.
Reject(h) ==
  /\ h.at = "rejecting"
  /\ IF LastDelivery(h)
     THEN /\ Publish(<<"dead", h.seq>>, Message(stream[h.seq].job, "dead", FALSE))
          /\ Goto(h, "settling")
     ELSE /\ stream' = PutBack(stream, h.seq) /\ UNCHANGED window
          /\ End(h)
  /\ UNCHANGED <<relayVars, redriving, handled, disturbances>>

\* A publication or its acknowledgement throws: the worker lets go of the message.
LetGo(h) ==
  /\ h.at \in {"moving", "settling"} \/ (h.at = "rejecting" /\ LastDelivery(h))
  /\ Disturb /\ End(h)
  /\ UNCHANGED <<relayVars, stream, window, redriving, handled>>

Crash(w) ==
  /\ Disturb /\ \E h \in inFlight : h.worker = w
  /\ inFlight' = {h \in inFlight : h.worker # w}
  /\ UNCHANGED <<relayVars, stream, window, redriving, handled>>

-----------------------------------------------------------------------------
(* redriveDeadLetters of an operator, for one dead letter after the other. *)

RedrivenOnce(i) == <<"redrive", i>> \in window

Redrive(i) ==
  /\ redriving = 0 /\ stream[i].subject = "dead" /\ stream[i].status = "waiting"
  /\ RedrivenOnce(i) \/ Cardinality({n \in Seqs : RedrivenOnce(n)}) < MaxRedrives
  /\ Publish(<<"redrive", i>>, Message(stream[i].job, "ready", TRUE))
  /\ redriving' = i
  /\ UNCHANGED <<relayVars, inFlight, handled, disturbances>>

DeleteDeadLetter ==
  /\ redriving # 0 /\ redriving' = 0
  /\ stream' = [stream EXCEPT ![redriving].status = "deleted"]
  /\ UNCHANGED <<relayVars, window, inFlight, handled, disturbances>>

RedriveFails ==
  /\ redriving # 0 /\ Disturb /\ redriving' = 0
  /\ UNCHANGED <<relayVars, stream, window, inFlight, handled>>

-----------------------------------------------------------------------------
HandlerStep(h) == Move(h) \/ Succeed(h) \/ HandlerFails(h) \/ Acknowledge(h) \/ Reject(h)

RelayStep(k) == RelayClaim(k) \/ \E j \in Jobs : RelayPublish(k, j) \/ RelayMark(k, j)

Next ==
  \/ \E j \in Jobs : Enqueue(j) \/ RelayLeaseLapses(j) \/ RetryPausePasses(j)
  \/ \E k \in Relays : \/ RelayStep(k) \/ RelayCrashes(k)
                       \/ \E j \in Jobs : RelayFails(k, j)
  \/ \E i \in Seqs : \/ AckWaitPasses(i) \/ PausePasses(i) \/ Redrive(i)
                     \/ \E w \in Workers : Fetch(w, i)
  \/ \E h \in inFlight : HandlerStep(h) \/ AcknowledgeFails(h) \/ LetGo(h)
  \/ \E w \in Workers : Crash(w)
  \/ DeleteDeadLetter \/ RedriveFails

Spec == Init /\ [][Next]_vars

\* Relays and workers run, their pauses end, and what a process held when it
\* ended is offered again.
Fairness ==
  /\ \A j \in Jobs :
       WF_vars(RetryPausePasses(j)) /\ WF_vars(RelayLeaseLapses(j) /\ UNCHANGED disturbances)
  /\ \A k \in Relays : WF_vars(RelayStep(k))
  /\ WF_vars(\E i \in Seqs : AckWaitPasses(i) \/ PausePasses(i) \/ \E w \in Workers : Fetch(w, i))
  /\ WF_vars(\E h \in inFlight : HandlerStep(h))

FairSpec == Spec /\ Fairness

-----------------------------------------------------------------------------
(* Properties.                                                             *)

Row == [status : {"absent", "waiting", "published", "failed"}, owner : Relays \cup {"none"},
        lapsed : BOOLEAN, due : BOOLEAN, attempts : 0 .. MaxDisturbances + 1]

StoredMessage == [job : Jobs, subject : {"ready", "dead"}, deferred : BOOLEAN,
                  status : {"waiting", "out", "acked", "deleted"}, due : BOOLEAN,
                  deliveries : 0 .. MaximumDeliveries]

\* The messages of a job that a handler may get or has got.
Handleable(i) ==
  /\ stream[i].subject = "ready" /\ ~stream[i].deferred
  /\ stream[i].status \in {"waiting", "out"} /\ <<"dead", i>> \notin window
  /\ stream[i].deliveries < MaximumDeliveries \/ Holders(i) # {}

\* Rows and messages are as schema and stream allow, and whatever is published
\* twice by relays that overtake each other, by a worker that ends between
\* storing and acknowledging, or by a repeated redrive, there is one message of
\* a job to be handled, and it is in one worker's hands.
OneMessagePerJob ==
  /\ outbox \in [Jobs -> Row] /\ stream \in Seq(StoredMessage)
  /\ \A j \in Jobs : Cardinality({i \in Seqs : stream[i].job = j /\ Handleable(i)}) <= 1
  /\ \A i \in Seqs : Cardinality(Holders(i)) <= 1

ReadyMessages(j) == {i \in Seqs : stream[i].job = j /\ stream[i].subject = "ready"}

Current(j) == Max(ReadyMessages(j))

\* An acknowledgement nobody confirmed may still be followed by a dead letter.
Undecided(i) == \E h \in Holders(i) : h.at = "rejecting" /\ LastDelivery(h)

Standing(j) ==
  IF ReadyMessages(j) = {} THEN "unpublished"
  ELSE LET i == Current(j)
       IN  IF <<"dead", i>> \in window THEN "dead"
           ELSE IF stream[i].status = "acked" /\ ~Undecided(i) THEN "done" ELSE "pending"

Outcome(j) ==
  IF j \in handled THEN "handled"
  ELSE IF \E i \in ReadyMessages(j) : ~stream[i].deferred /\ stream[i].deliveries > 0
       THEN "tried" ELSE "untried"

Deliveries(j) ==
  IF ReadyMessages(j) = {} \/ stream[Current(j)].deferred THEN 0
  ELSE stream[Current(j)].deliveries

Promised == [j \in Jobs |-> [status    |-> Standing(j),
                             delivered |-> Deliveries(j),
                             outcome   |-> Outcome(j)]]

Promise == INSTANCE JobDelivery WITH job <- Promised

\* The Full queue keeps the same promise as the Lite one: done only after a
\* handler succeeded, dead only after all deliveries, started again only by an
\* operator (publish, claimFrom, acknowledge, reject, redriveDeadLetters).
DeliversAsPromised == Promise!Spec

UsedUp(j) ==
  /\ Standing(j) = "pending"
  /\ stream[Current(j)].deliveries = MaximumDeliveries /\ Holders(Current(j)) = {}

\* Every job of the outbox is handled, ends as a dead letter or in a row marked
\* failed, or has used up its deliveries: a relay that ends between publishing
\* and marking, or a lease it outlives, leaves no row behind.
EveryJobSettles ==
  \A j \in Jobs : outbox[j].status = "waiting" ~>
    \/ Standing(j) \in {"done", "dead"} \/ UsedUp(j) \/ outbox[j].status = "failed"
=============================================================================
