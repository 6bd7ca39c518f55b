-------------------------- MODULE JetStreamQueueProofs --------------------------
(***************************************************************************)
(* Proof that the queue of the Full edition keeps one message per job in   *)
(* hand and delivers as JobDelivery promises.                              *)
(*                                                                         *)
(* The messages of a job that are there to be handled form a chain: the    *)
(* published one, and after each redrive of its dead letter a deferred one *)
(* and the one that is stored in its place.  Every message of the chain    *)
(* but the last is spent, that is, its own successor was asked for under a *)
(* msgID that the duplicate window remembers (Chain).  Publishing again    *)
(* therefore never adds a second live message, and the last message of the *)
(* chain is the job that JobDelivery speaks of.                            *)
(***************************************************************************)
EXTENDS JetStreamQueue, TLAPS, FiniteSetTheorems, SequenceTheorems

Delivery ==
  [worker: Workers, seq: Nat, delivery: 1 .. MaximumDeliveries,
   at: {"moving", "handling", "acknowledging", "rejecting", "settling"}]

\* The shape of what the stream stores and the workers hold.
Shapes ==
  /\ stream \in Seq(StoredMessage) /\ handled \subseteq Jobs
  /\ inFlight \subseteq Delivery
  /\ redriving = 0 \/ (redriving \in Seqs /\ stream[redriving].subject = "dead")

\* The definitions below take the stream as s and the duplicate window as W.
SameJob(s, i, n) == s[i].job = s[n].job

IsReady(s, i) == s[i].subject = "ready"

\* Nothing more can come of the message: it was moved, or left a dead letter.
Spent(s, W, i) == IF s[i].deferred THEN <<"moved", i>> \in W ELSE <<"dead", i>> \in W

\* What the remembered msgIDs tell of the messages they were derived from.
Letters(s, W) ==
  /\ \A i \in Nat : <<"dead", i>> \in W =>
       /\ i \in DOMAIN s /\ IsReady(s, i) /\ ~s[i].deferred
       /\ s[i].deliveries = MaximumDeliveries
  /\ \A i \in Nat : <<"moved", i>> \in W =>
       /\ i \in DOMAIN s /\ IsReady(s, i) /\ s[i].deferred
       /\ \E n \in DOMAIN s : IsReady(s, n) /\ SameJob(s, n, i) /\ n > i
  /\ \A d \in Nat : <<"redrive", d>> \in W => d \in DOMAIN s /\ ~IsReady(s, d)
  /\ \A i \in DOMAIN s : <<"job", s[i].job>> \in W

\* The last message of a job's chain.
Latest(s, i) ==
  IsReady(s, i) /\ \A n \in DOMAIN s : IsReady(s, n) /\ SameJob(s, n, i) => n <= i

\* One link of the chain is live at most; while a dead letter is not redriven, none is.
Chain(s, W) ==
  /\ \A i \in DOMAIN s : \E n \in DOMAIN s : SameJob(s, n, i) /\ Latest(s, n)
  /\ \A i, n \in DOMAIN s :
       IsReady(s, i) /\ IsReady(s, n) /\ SameJob(s, n, i) /\ i < n => Spent(s, W, i)
  /\ \A d, i \in DOMAIN s :
       ~IsReady(s, d) /\ IsReady(s, i) /\ SameJob(s, d, i)
         => Spent(s, W, i) \/ <<"redrive", d>> \in W
  /\ \A d, e \in DOMAIN s :
       ~IsReady(s, d) /\ ~IsReady(s, e) /\ SameJob(s, d, e) /\ d # e
         => <<"redrive", d>> \in W \/ <<"redrive", e>> \in W

\* What a worker's place in its work tells of the message in its hands, where
\* the handlers have succeeded with the jobs in H.
Knows(s, W, H, h) ==
  LET m == s[h.seq]
  IN  /\ h.seq \in DOMAIN s /\ IsReady(s, h.seq) /\ m.status \in {"out", "acked"}
      /\ h.delivery = m.deliveries
      /\ h.at = "moving" => m.deferred /\ m.status = "out"
      /\ h.at \in {"handling", "acknowledging", "rejecting"} =>
           ~m.deferred /\ <<"dead", h.seq>> \notin W
      /\ h.at \in {"handling", "acknowledging"} => m.status = "out"
      /\ h.at = "acknowledging" => m.job \in H
      /\ h.at = "rejecting" => m.status = "out" \/ m.job \in H
      /\ h.at = "settling" => Spent(s, W, h.seq)

Alone(h) == \A g \in inFlight : g.seq = h.seq => g = h

Hands == \A h \in inFlight : Knows(stream, window, handled, h) /\ Alone(h)

StreamInv == Shapes /\ Letters(stream, window) /\ Chain(stream, window) /\ Hands

\* A row was claimed as often as something went wrong, and once more while its
\* relay is at work in time.
RowSound(j) ==
  LET o == outbox[j]
  IN  /\ o \in Row /\ o.attempts <= disturbances + 1
      /\ o.status # "waiting" => o.owner = "none"
      /\ o.status = "absent" => o.attempts = 0
      /\ o.status = "waiting" /\ (o.owner = "none" \/ o.lapsed \/ j \notin relay[o.owner].batch)
           => o.attempts <= disturbances

OutboxSound ==
  /\ disturbances \in 0 .. MaxDisturbances
  /\ relay \in [Relays -> [batch: SUBSET Jobs, stored: SUBSET Jobs]]
  /\ outbox \in [Jobs -> Row]
  /\ \A j \in Jobs : RowSound(j)

-----------------------------------------------------------------------------
(* Storing and touching messages.                                          *)

\* The message m is new in the log t, with sequence n, and its msgID id in V.
Stored(s, W, t, V, id, m, n) ==
  /\ id \notin W /\ V = W \cup {id}
  /\ n \in Nat /\ DOMAIN t = DOMAIN s \cup {n}
  /\ \A i \in DOMAIN s : i \in Nat /\ i < n /\ t[i] = s[i]
  /\ t[n] = m

\* No message is new in t, and none has changed what it is.
Touched(s, W, t) ==
  /\ DOMAIN t = DOMAIN s
  /\ \A i \in DOMAIN s :
       /\ t[i].job = s[i].job /\ t[i].subject = s[i].subject /\ t[i].deferred = s[i].deferred
       /\ t[i].deliveries # s[i].deliveries => <<"dead", i>> \notin W

LEMMA NewMessage ==
  ASSUME NEW j \in Jobs, NEW s \in {"ready", "dead"}, NEW b \in BOOLEAN
  PROVE  /\ Message(j, s, b) \in StoredMessage
         /\ Message(j, s, b).job = j /\ Message(j, s, b).subject = s
         /\ Message(j, s, b).deferred = b /\ Message(j, s, b).status = "waiting"
         /\ Message(j, s, b).deliveries = 0
  BY StreamAssumption DEF Message, StoredMessage

\* The same of the message of a job that is to be handled.
LEMMA NewReady ==
  ASSUME NEW j \in Jobs
  PROVE  \A b \in BOOLEAN :
           /\ Message(j, "ready", b) \in StoredMessage
           /\ Message(j, "ready", b).job = j /\ Message(j, "ready", b).subject = "ready"
           /\ Message(j, "ready", b).status = "waiting"
           /\ Message(j, "ready", b).deliveries = 0
  BY NewMessage

\* A publication stores its message unless the msgID is remembered.
LEMMA PublishStores ==
  ASSUME stream \in Seq(StoredMessage), NEW id, NEW m \in StoredMessage, Publish(id, m)
  PROVE  /\ stream' \in Seq(StoredMessage)
         /\ \/ UNCHANGED <<stream, window>> /\ id \in window
            \/ Stored(stream, window, stream', window', id, m, Len(stream) + 1)
<1>1. CASE id \in window
  BY <1>1 DEF Publish, Store
<1>2. CASE id \notin window
  <2>1. stream' = Append(stream, m) /\ window' = window \cup {id}
    BY <1>2 DEF Publish, Store
  <2>2. /\ Len(stream) \in Nat /\ DOMAIN stream = 1 .. Len(stream)
        /\ Len(stream') = Len(stream) + 1 /\ DOMAIN stream' = 1 .. Len(stream')
        /\ stream' \in Seq(StoredMessage)
        /\ \A i \in 1 .. Len(stream) : stream'[i] = stream[i]
        /\ stream'[Len(stream) + 1] = m
    BY <2>1
  <2> DEFINE n == Len(stream) + 1
  <2>3. /\ n \in Nat /\ DOMAIN stream' = DOMAIN stream \cup {n}
        /\ \A i \in DOMAIN stream : i \in Nat /\ i < n
    BY <2>2
  <2>4. Stored(stream, window, stream', window', id, m, n)
    BY <1>2, <2>1, <2>2, <2>3 DEF Stored
  <2> QED BY <2>2, <2>4
<1> QED BY <1>1, <1>2

LEMMA Sequences ==
  ASSUME NEW s \in Seq(StoredMessage)
  PROVE  DOMAIN s \subseteq Nat \ {0} /\ \A i \in DOMAIN s : s[i] \in StoredMessage
  OBVIOUS

\* Touched messages stay linked as they were.
LEMMA TouchedStays ==
  ASSUME NEW s \in Seq(StoredMessage), NEW t, NEW W, Letters(s, W), Chain(s, W), Touched(s, W, t)
  PROVE  Letters(t, W) /\ Chain(t, W)
<1>1. \A i \in DOMAIN s : /\ IsReady(t, i) <=> IsReady(s, i)
                          /\ Spent(t, W, i) <=> Spent(s, W, i)
  BY DEF Touched, IsReady, Spent
<1>2. \A i, n \in DOMAIN s : SameJob(t, i, n) <=> SameJob(s, i, n)
  BY DEF Touched, SameJob
<1>3. DOMAIN t = DOMAIN s
  BY DEF Touched
<1>4. Letters(t, W)
  <2>1. ASSUME NEW i \in Nat, <<"dead", i>> \in W
        PROVE  i \in DOMAIN t /\ IsReady(t, i) /\ ~t[i].deferred /\ t[i].deliveries = MaximumDeliveries
    BY <1>1, <1>3, <2>1 DEF Letters, Touched
  <2>2. ASSUME NEW i \in Nat, <<"moved", i>> \in W
        PROVE  /\ i \in DOMAIN t /\ IsReady(t, i) /\ t[i].deferred
               /\ \E n \in DOMAIN t : IsReady(t, n) /\ SameJob(t, n, i) /\ n > i
    <3>1. i \in DOMAIN s /\ IsReady(s, i) /\ s[i].deferred
      BY <2>2 DEF Letters
    <3>2. PICK n \in DOMAIN s : IsReady(s, n) /\ SameJob(s, n, i) /\ n > i
      BY <2>2 DEF Letters
    <3> QED BY <1>1, <1>2, <1>3, <3>1, <3>2 DEF Touched
  <2>3. ASSUME NEW d \in Nat, <<"redrive", d>> \in W
        PROVE  d \in DOMAIN t /\ ~IsReady(t, d)
    BY <1>1, <1>3, <2>3 DEF Letters
  <2>4. \A i \in DOMAIN t : <<"job", t[i].job>> \in W
    BY <1>3 DEF Letters, Touched
  <2> QED BY <2>1, <2>2, <2>3, <2>4 DEF Letters
<1>5. \A i \in DOMAIN s : Latest(t, i) <=> Latest(s, i)
  BY <1>1, <1>2, <1>3 DEF Latest
<1>6. Chain(t, W)
  BY <1>1, <1>2, <1>3, <1>5 DEF Chain
<1> QED BY <1>4, <1>6

\* What is known of every other message when one is stored.
Carries(s, W, t, V, id, m, n) ==
  /\ DOMAIN t = DOMAIN s \cup {n} /\ n \in Nat /\ n \notin DOMAIN s
  /\ V = W \cup {id} /\ t[n] = m
  /\ \A i \in DOMAIN s : i \in Nat /\ i < n /\ t[i] = s[i]
  /\ \A i \in DOMAIN s : IsReady(t, i) <=> IsReady(s, i)
  /\ \A i \in DOMAIN s : Spent(s, W, i) => Spent(t, V, i)
  /\ \A i \in DOMAIN s : Spent(s, V, i) <=> Spent(t, V, i)
  /\ \A i \in DOMAIN s : SameJob(t, n, i) <=> s[i].job = m.job
  /\ \A i \in DOMAIN s : SameJob(t, i, n) <=> s[i].job = m.job
  /\ \A i, k \in DOMAIN s : SameJob(t, i, k) <=> SameJob(s, i, k)

LEMMA StoredCarries ==
  ASSUME NEW s, NEW t, NEW W, NEW V, NEW id, NEW m, NEW n, Stored(s, W, t, V, id, m, n)
  PROVE  Carries(s, W, t, V, id, m, n)
<1>1. \A i \in DOMAIN s : i \in Nat /\ i < n /\ t[i] = s[i]
  BY DEF Stored
<1>2. t[n] = m /\ V = W \cup {id} /\ DOMAIN t = DOMAIN s \cup {n} /\ n \in Nat
  BY DEF Stored
<1>3. \A i \in DOMAIN s : IsReady(t, i) <=> IsReady(s, i)
  BY <1>1 DEF IsReady
<1>4. \A i \in DOMAIN s : Spent(s, W, i) => Spent(t, V, i)
  BY <1>1, <1>2 DEF Spent
<1>5. \A i \in DOMAIN s : Spent(s, V, i) <=> Spent(t, V, i)
  BY <1>1 DEF Spent
<1>6. /\ \A i \in DOMAIN s : SameJob(t, n, i) <=> s[i].job = m.job
      /\ \A i \in DOMAIN s : SameJob(t, i, n) <=> s[i].job = m.job
      /\ \A i, k \in DOMAIN s : SameJob(t, i, k) <=> SameJob(s, i, k)
  BY <1>1, <1>2 DEF SameJob
<1>7. n \notin DOMAIN s
  BY <1>1, <1>2
<1> QED BY <1>1, <1>2, <1>3, <1>4, <1>5, <1>6, <1>7 DEF Carries

\* What a new message must come from.
Grounds(s, id, m) ==
  /\ \A i \in Nat : id = <<"dead", i>> =>
       i \in DOMAIN s /\ IsReady(s, i) /\ ~s[i].deferred /\ s[i].deliveries = MaximumDeliveries
  /\ \A i \in Nat : id = <<"moved", i>> =>
       /\ i \in DOMAIN s /\ IsReady(s, i) /\ s[i].deferred
       /\ s[i].job = m.job /\ m.subject = "ready"
  /\ \A i \in Nat : id = <<"redrive", i>> => i \in DOMAIN s /\ ~IsReady(s, i)

LEMMA LettersGrow ==
  ASSUME NEW s, NEW t, NEW W, NEW V, NEW id, NEW m, NEW n,
         Letters(s, W), Stored(s, W, t, V, id, m, n), <<"job", m.job>> \in V, Grounds(s, id, m)
  PROVE  Letters(t, V)
<1>c. Carries(s, W, t, V, id, m, n)
  BY StoredCarries
<1>1. ASSUME NEW i \in Nat, <<"dead", i>> \in V
      PROVE  i \in DOMAIN t /\ IsReady(t, i) /\ ~t[i].deferred /\ t[i].deliveries = MaximumDeliveries
  <2>1. i \in DOMAIN s /\ IsReady(s, i) /\ ~s[i].deferred /\ s[i].deliveries = MaximumDeliveries
    BY <1>1, <1>c DEF Letters, Carries, Grounds
  <2> QED BY <2>1, <1>c DEF Carries
<1>2. ASSUME NEW i \in Nat, <<"moved", i>> \in V
      PROVE  /\ i \in DOMAIN t /\ IsReady(t, i) /\ t[i].deferred
             /\ \E k \in DOMAIN t : IsReady(t, k) /\ SameJob(t, k, i) /\ k > i
  <2>1. CASE id = <<"moved", i>>
    <3>1. i \in DOMAIN s /\ IsReady(s, i) /\ s[i].deferred /\ s[i].job = m.job
      BY <2>1 DEF Grounds
    <3>2. IsReady(t, n)
      BY <2>1, <1>c DEF IsReady, Carries, Grounds
    <3> QED BY <3>1, <3>2, <1>c DEF Carries
  <2>2. CASE id # <<"moved", i>>
    <3>1. i \in DOMAIN s /\ IsReady(s, i) /\ s[i].deferred
      BY <1>2, <2>2, <1>c DEF Letters, Carries
    <3>2. PICK k \in DOMAIN s : IsReady(s, k) /\ SameJob(s, k, i) /\ k > i
      BY <1>2, <2>2, <1>c DEF Letters, Carries
    <3> QED BY <3>1, <3>2, <1>c DEF Carries
  <2> QED BY <2>1, <2>2
<1>3. ASSUME NEW d \in Nat, <<"redrive", d>> \in V
      PROVE  d \in DOMAIN t /\ ~IsReady(t, d)
  <2>1. d \in DOMAIN s /\ ~IsReady(s, d)
    BY <1>3, <1>c DEF Letters, Carries, Grounds
  <2> QED BY <2>1, <1>c DEF Carries
<1>4. \A i \in DOMAIN t : <<"job", t[i].job>> \in V
  BY <1>c DEF Letters, Carries
<1> QED BY <1>1, <1>2, <1>3, <1>4 DEF Letters

\* A message may join the chain of its job when all that is there is spent.
LEMMA ChainGrows ==
  ASSUME NEW s, NEW t, NEW W, NEW V, NEW id, NEW m, NEW n,
         Chain(s, W), Stored(s, W, t, V, id, m, n),
         \A i \in DOMAIN s : s[i].job = m.job =>
           IF IsReady(s, i) THEN Spent(s, V, i) ELSE <<"redrive", i>> \in V,
         m.subject = "ready" \/ \E i \in DOMAIN s : s[i].job = m.job
  PROVE  Chain(t, V)
<1>c. Carries(s, W, t, V, id, m, n)
  BY StoredCarries
<1>1. ASSUME NEW i \in DOMAIN t
      PROVE  \E k \in DOMAIN t : SameJob(t, k, i) /\ Latest(t, k)
  <2>1. CASE m.subject = "ready" /\ t[i].job = m.job
    <3>1. Latest(t, n) /\ SameJob(t, n, i)
      BY <2>1, <1>c DEF Latest, IsReady, SameJob, Carries
    <3> QED BY <3>1, <1>c DEF Carries
  <2>2. CASE ~(m.subject = "ready" /\ t[i].job = m.job)
    <3>1. PICK j \in DOMAIN s : s[j].job = t[i].job
      BY <2>2, <1>c DEF Carries
    <3>2. PICK k \in DOMAIN s : SameJob(s, k, j) /\ Latest(s, k)
      BY <3>1 DEF Chain
    <3>3. t[k].job = t[i].job /\ IsReady(t, k) /\ k \in DOMAIN t
      BY <3>1, <3>2, <1>c DEF SameJob, Latest, Carries
    <3>4. ASSUME NEW l \in DOMAIN t, IsReady(t, l), SameJob(t, l, k)
          PROVE  l <= k
      <4>1. l \in DOMAIN s
        BY <2>2, <3>3, <3>4, <1>c DEF IsReady, SameJob, Carries
      <4> QED BY <3>2, <3>4, <4>1, <1>c DEF Latest, Carries
    <3> QED BY <3>3, <3>4 DEF Latest, SameJob
  <2> QED BY <2>1, <2>2
<1>2. ASSUME NEW i \in DOMAIN t, NEW k \in DOMAIN t,
             IsReady(t, i), IsReady(t, k), SameJob(t, k, i), i < k
      PROVE  Spent(t, V, i)
  <2>1. i \in DOMAIN s
    BY <1>2, <1>c DEF Carries
  <2>2. CASE k \in DOMAIN s
    BY <1>2, <2>1, <2>2, <1>c DEF Chain, Carries
  <2>3. CASE k = n
    BY <1>2, <2>1, <2>3, <1>c DEF Carries
  <2> QED BY <2>2, <2>3, <1>c DEF Carries
<1>3. ASSUME NEW d \in DOMAIN t, NEW i \in DOMAIN t,
             ~IsReady(t, d), IsReady(t, i), SameJob(t, d, i)
      PROVE  Spent(t, V, i) \/ <<"redrive", d>> \in V
  <2>1. CASE i \in DOMAIN s /\ d \in DOMAIN s
    <3>1. Spent(s, W, i) \/ <<"redrive", d>> \in W
      BY <1>3, <2>1, <1>c DEF Chain, Carries
    <3> QED BY <2>1, <3>1, <1>c DEF Carries
  <2>2. CASE i \in DOMAIN s /\ d = n
    BY <1>3, <2>2, <1>c DEF Carries
  <2>3. CASE d \in DOMAIN s /\ i = n
    BY <1>3, <2>3, <1>c DEF Carries
  <2> QED BY <1>3, <2>1, <2>2, <2>3, <1>c DEF Carries
<1>4. ASSUME NEW d \in DOMAIN t, NEW e \in DOMAIN t,
             ~IsReady(t, d), ~IsReady(t, e), SameJob(t, d, e), d # e
      PROVE  <<"redrive", d>> \in V \/ <<"redrive", e>> \in V
  <2>1. CASE d \in DOMAIN s /\ e \in DOMAIN s
    BY <1>4, <2>1, <1>c DEF Chain, Carries
  <2>2. CASE d = n \/ e = n
    BY <1>4, <2>2, <1>c DEF Carries
  <2> QED BY <2>1, <2>2, <1>c DEF Carries
<1> QED BY <1>1, <1>2, <1>3, <1>4 DEF Chain

-----------------------------------------------------------------------------
(* Publications keep the chains.                                           *)

\* What holds of the stream after a step that may publish.
Linked ==
  /\ stream' \in Seq(StoredMessage) /\ Letters(stream', window') /\ Chain(stream', window')
  /\ window \subseteq window'
  /\ \A i \in Seqs : i \in Seqs' /\ stream'[i] = stream[i]

LEMMA NothingNew ==
  ASSUME StreamInv, UNCHANGED <<stream, window>>
  PROVE  Linked
  BY DEF Linked, StreamInv, Shapes, Seqs

LEMMA FirstPublished ==
  ASSUME StreamInv, NEW j \in Jobs, Publish(<<"job", j>>, Message(j, "ready", FALSE))
  PROVE  Linked /\ \A i \in Nat : <<"dead", i>> \in window' => <<"dead", i>> \in window
<1> DEFINE m == Message(j, "ready", FALSE)
           id == <<"job", j>>
           n == Len(stream) + 1
<1>1. m \in StoredMessage /\ m.job = j /\ m.subject = "ready"
  BY NewMessage
<1>2. stream \in Seq(StoredMessage) /\ Letters(stream, window) /\ Chain(stream, window)
  BY DEF StreamInv, Shapes
<1> HIDE DEF m, n
<1>3. CASE UNCHANGED <<stream, window>>
  BY <1>3, NothingNew
<1>4. CASE ~UNCHANGED <<stream, window>>
  <2>1. stream' \in Seq(StoredMessage) /\ Stored(stream, window, stream', window', id, m, n)
    BY <1>1, <1>2, <1>4, PublishStores DEF m, n
  <2>2. \A i \in Seqs : stream[i].job # j
    BY <1>2, <2>1 DEF Letters, Stored, Seqs
  <2>3. id \in window' /\ Carries(stream, window, stream', window', id, m, n)
    BY <2>1, StoredCarries DEF Stored
  <2>4. Letters(stream', window')
    <3>1. Grounds(stream, id, m) /\ <<"job", m.job>> \in window'
      BY <1>1, <2>3 DEF Grounds
    <3> HIDE DEF id
    <3> QED BY <1>2, <2>1, <3>1, LettersGrow
  <2>5. Chain(stream', window')
    BY <1>1, <1>2, <2>1, <2>2, ChainGrows DEF Seqs
  <2> QED BY <2>1, <2>3, <2>4, <2>5 DEF Linked, Carries, Seqs
<1> QED BY <1>3, <1>4

LEMMA MovedOn ==
  ASSUME StreamInv, NEW i \in Seqs, IsReady(stream, i), stream[i].deferred,
         Publish(<<"moved", i>>, Message(stream[i].job, "ready", FALSE))
  PROVE  /\ Linked /\ <<"moved", i>> \in window'
         /\ \A k \in Nat : <<"dead", k>> \in window' => <<"dead", k>> \in window
<1> DEFINE j == stream[i].job
           m == Message(j, "ready", FALSE)
           id == <<"moved", i>>
           n == Len(stream) + 1
<1>1. stream \in Seq(StoredMessage) /\ Letters(stream, window) /\ Chain(stream, window)
  BY DEF StreamInv, Shapes
<1>2. i \in Nat /\ j \in Jobs
  BY <1>1, Sequences DEF Seqs, StoredMessage
<1>3. m \in StoredMessage /\ m.job = j /\ m.subject = "ready"
  BY <1>2, NewMessage
<1> HIDE DEF m, n
<1>4. CASE UNCHANGED <<stream, window>>
  BY <1>1, <1>3, <1>4, NothingNew, PublishStores DEF Stored, m
<1>5. CASE ~UNCHANGED <<stream, window>>
  <2>1. stream' \in Seq(StoredMessage) /\ Stored(stream, window, stream', window', id, m, n)
    BY <1>1, <1>3, <1>5, PublishStores DEF m, n
  <2>2. ~Spent(stream, window, i)
    BY <2>1 DEF Spent, Stored
  <2>3. id \in window' /\ Carries(stream, window, stream', window', id, m, n)
    BY <2>1, StoredCarries DEF Stored
  <2>4. Letters(stream', window')
    <3>1. <<"job", m.job>> \in window'
      BY <1>1, <1>3, <2>3 DEF Letters, Carries, Seqs
    <3>2. Grounds(stream, id, m)
      BY <1>3 DEF Grounds, Seqs
    <3> HIDE DEF id
    <3> QED BY <1>1, <2>1, <3>1, <3>2, LettersGrow
  <2>5. ASSUME NEW k \in DOMAIN stream, stream[k].job = m.job
        PROVE  IF IsReady(stream, k) THEN Spent(stream, window', k) ELSE <<"redrive", k>> \in window'
    <3>1. SameJob(stream, k, i) /\ SameJob(stream, i, k)
      BY <1>3, <2>5 DEF SameJob
    <3>2. CASE k = i
      BY <2>3, <3>2 DEF Spent
    <3>3. CASE IsReady(stream, k) /\ k # i
      <4>1. k < i
        BY <1>1, <1>2, <2>2, <2>3, <3>1, <3>3 DEF Chain, Carries, Seqs
      <4> QED BY <1>1, <2>3, <3>1, <3>3, <4>1 DEF Chain, Spent, Carries, Seqs
    <3>4. CASE ~IsReady(stream, k)
      BY <1>1, <2>2, <2>3, <3>1, <3>4 DEF Chain, Carries, Seqs
    <3> QED BY <3>2, <3>3, <3>4
  <2>6. Chain(stream', window')
    BY <1>1, <1>3, <2>1, <2>5, ChainGrows
  <2> QED BY <2>1, <2>3, <2>4, <2>6 DEF Linked, Carries, Seqs
<1> QED BY <1>4, <1>5

\* A dead letter of a message that is not spent.
LEMMA Buried ==
  ASSUME StreamInv, NEW i \in Seqs, IsReady(stream, i), ~stream[i].deferred,
         stream[i].deliveries = MaximumDeliveries, <<"dead", i>> \notin window,
         Publish(<<"dead", i>>, Message(stream[i].job, "dead", FALSE))
  PROVE  /\ Linked /\ <<"dead", i>> \in window'
         /\ \A k \in Nat : <<"dead", k>> \in window' /\ k # i => <<"dead", k>> \in window
<1> DEFINE j == stream[i].job
           m == Message(j, "dead", FALSE)
           id == <<"dead", i>>
           n == Len(stream) + 1
<1>1. stream \in Seq(StoredMessage) /\ Letters(stream, window) /\ Chain(stream, window)
  BY DEF StreamInv, Shapes
<1>2. i \in Nat /\ j \in Jobs
  BY <1>1, Sequences DEF Seqs, StoredMessage
<1>3. m \in StoredMessage /\ m.job = j /\ m.subject = "dead"
  BY <1>2, NewMessage
<1> HIDE DEF m, n
<1>4. stream' \in Seq(StoredMessage) /\ Stored(stream, window, stream', window', id, m, n)
  BY <1>1, <1>3, PublishStores DEF m, n
<1>5. ~Spent(stream, window, i)
  BY DEF Spent
<1>6. id \in window' /\ Carries(stream, window, stream', window', id, m, n)
  BY <1>4, StoredCarries DEF Stored
<1>7. Letters(stream', window')
  <2>1. <<"job", m.job>> \in window'
    BY <1>1, <1>3, <1>6 DEF Letters, Carries, Seqs
  <2>2. Grounds(stream, id, m)
    BY DEF Grounds, Seqs
  <2> HIDE DEF id
  <2> QED BY <1>1, <1>4, <2>1, <2>2, LettersGrow
<1>8. ASSUME NEW k \in DOMAIN stream, stream[k].job = m.job
      PROVE  IF IsReady(stream, k) THEN Spent(stream, window', k) ELSE <<"redrive", k>> \in window'
  <2>1. SameJob(stream, k, i) /\ SameJob(stream, i, k)
    BY <1>3, <1>8 DEF SameJob
  <2>2. CASE k = i
    BY <1>6, <2>2 DEF Spent
  <2>3. CASE IsReady(stream, k) /\ k # i
    <3>1. k < i
      <4>1. k \in Nat /\ ~(i < k)
        BY <1>1, <1>5, <1>6, <2>1, <2>3 DEF Chain, Carries, Seqs
      <4> QED BY <1>2, <2>3, <4>1
    <3> QED BY <1>1, <1>6, <2>1, <2>3, <3>1 DEF Chain, Spent, Carries, Seqs
  <2>4. CASE ~IsReady(stream, k)
    BY <1>1, <1>5, <1>6, <2>1, <2>4 DEF Chain, Carries, Seqs
  <2> QED BY <2>2, <2>3, <2>4
<1>9. Chain(stream', window')
  BY <1>1, <1>3, <1>4, <1>8, ChainGrows DEF Seqs
<1> QED BY <1>4, <1>6, <1>7, <1>9 DEF Linked, Carries, Seqs

LEMMA Redriven ==
  ASSUME StreamInv, NEW d \in Seqs, ~IsReady(stream, d),
         Publish(<<"redrive", d>>, Message(stream[d].job, "ready", TRUE))
  PROVE  /\ Linked /\ <<"redrive", d>> \in window'
         /\ \A k \in Nat : <<"dead", k>> \in window' => <<"dead", k>> \in window
<1> DEFINE j == stream[d].job
           m == Message(j, "ready", TRUE)
           id == <<"redrive", d>>
           n == Len(stream) + 1
<1>1. stream \in Seq(StoredMessage) /\ Letters(stream, window) /\ Chain(stream, window)
  BY DEF StreamInv, Shapes
<1>2. d \in Nat /\ j \in Jobs
  BY <1>1, Sequences DEF Seqs, StoredMessage
<1>3. m \in StoredMessage /\ m.job = j /\ m.subject = "ready"
  BY <1>2, NewMessage
<1> HIDE DEF m, n
<1>4. CASE UNCHANGED <<stream, window>>
  BY <1>1, <1>3, <1>4, NothingNew, PublishStores DEF Stored, m
<1>5. CASE ~UNCHANGED <<stream, window>>
  <2>1. stream' \in Seq(StoredMessage) /\ Stored(stream, window, stream', window', id, m, n)
    BY <1>1, <1>3, <1>5, PublishStores DEF m, n
  <2>2. id \notin window
    BY <2>1 DEF Stored
  <2>3. id \in window' /\ Carries(stream, window, stream', window', id, m, n)
    BY <2>1, StoredCarries DEF Stored
  <2>4. Letters(stream', window')
    <3>1. <<"job", m.job>> \in window'
      BY <1>1, <1>3, <2>3 DEF Letters, Carries, Seqs
    <3>2. Grounds(stream, id, m)
      BY DEF Grounds, Seqs
    <3> HIDE DEF id
    <3> QED BY <1>1, <2>1, <3>1, <3>2, LettersGrow
  <2>5. ASSUME NEW k \in DOMAIN stream, stream[k].job = m.job
        PROVE  IF IsReady(stream, k) THEN Spent(stream, window', k) ELSE <<"redrive", k>> \in window'
    <3>1. SameJob(stream, k, d) /\ SameJob(stream, d, k)
      BY <1>3, <2>5 DEF SameJob
    <3>2. CASE IsReady(stream, k)
      <4>1. Spent(stream, window, k)
        BY <1>1, <2>2, <3>1, <3>2 DEF Chain, Seqs
      <4> QED BY <2>3, <3>2, <4>1 DEF Spent, Carries
    <3>3. CASE ~IsReady(stream, k)
      BY <1>1, <2>2, <2>3, <3>1, <3>3 DEF Chain, Carries, Seqs
    <3> QED BY <3>2, <3>3
  <2>6. Chain(stream', window')
    BY <1>1, <1>3, <2>1, <2>5, ChainGrows
  <2> QED BY <2>1, <2>3, <2>4, <2>6 DEF Linked, Carries, Seqs
<1> QED BY <1>4, <1>5

-----------------------------------------------------------------------------
(* What the workers know.                                                  *)

\* The step is about message i and its holders only.
OnlyAt(i) ==
  /\ window \subseteq window' /\ handled \subseteq handled'
  /\ \A k \in Seqs : k # i => /\ k \in Seqs' /\ stream'[k] = stream[k]
                              /\ <<"dead", k>> \in window' => <<"dead", k>> \in window
  /\ \A g \in inFlight' : g.seq # i => g \in inFlight

\* Whoever holds message i after the step is alone and knows what it is.
HeldAt(i) ==
  /\ \A g \in inFlight' : g.seq = i => Knows(stream', window', handled', g)
  /\ \A f, g \in inFlight' : f.seq = i /\ g.seq = i => f = g

LEMMA HandsStay ==
  ASSUME StreamInv, NEW i, OnlyAt(i), HeldAt(i)
  PROVE  Hands'
<1>1. ASSUME NEW g \in inFlight', g.seq # i
      PROVE  Knows(stream', window', handled', g)
  <2>1. g \in inFlight /\ Knows(stream, window, handled, g)
    BY <1>1 DEF OnlyAt, StreamInv, Hands
  <2> DEFINE k == g.seq
  <2>2. /\ k \in Seqs' /\ stream'[k] = stream[k] /\ window \subseteq window' /\ handled \subseteq handled'
        /\ <<"dead", k>> \in window' => <<"dead", k>> \in window
    BY <1>1, <2>1 DEF OnlyAt, Knows, Seqs
  <2> QED BY <2>1, <2>2 DEF Knows, Seqs, IsReady, Spent
<1>2. ASSUME NEW f \in inFlight', NEW g \in inFlight', f.seq = g.seq
      PROVE  f = g
  BY <1>2 DEF OnlyAt, HeldAt, StreamInv, Hands, Alone
<1>3. \A g \in inFlight' : Knows(stream', window', handled', g)
  BY <1>1 DEF HeldAt
<1> QED BY <1>2, <1>3 DEF Hands, Alone

\* Where a handler is, as far as its message is concerned.
LEMMA Held ==
  ASSUME StreamInv, NEW h \in inFlight
  PROVE  /\ h \in Delivery /\ h.seq \in Seqs /\ h.seq \in Nat
         /\ stream \in Seq(StoredMessage) /\ stream[h.seq] \in StoredMessage
         /\ Knows(stream, window, handled, h) /\ Alone(h)
<1>1. h \in Delivery /\ Knows(stream, window, handled, h) /\ Alone(h) /\ stream \in Seq(StoredMessage)
  BY DEF StreamInv, Shapes, Hands
<1>2. h.seq \in Seqs
  BY <1>1 DEF Knows, Seqs
<1> QED BY <1>1, <1>2, Sequences DEF Seqs

\* A handler that goes on or ends; no other holds its message.
LEMMA GoneTo ==
  ASSUME StreamInv, NEW h \in inFlight,
         NEW at \in {"moving", "handling", "acknowledging", "rejecting", "settling"}, Goto(h, at)
  PROVE  LET g == [h EXCEPT !.at = at]
         IN  /\ g \in Delivery /\ g.seq = h.seq /\ g.at = at /\ g.delivery = h.delivery
             /\ g \in inFlight' /\ inFlight' \subseteq Delivery
             /\ \A f \in inFlight' : f.seq = h.seq => f = g
             /\ \A f \in inFlight' : f.seq # h.seq => f \in inFlight
             /\ \A f \in inFlight : f.seq # h.seq => f \in inFlight'
<1> DEFINE g == [h EXCEPT !.at = at]
<1>1. g \in Delivery /\ g.seq = h.seq /\ g.at = at /\ g.delivery = h.delivery
  BY Held DEF Delivery
<1>2. inFlight' = (inFlight \ {h}) \cup {g} /\ inFlight \subseteq Delivery
  BY DEF Goto, StreamInv, Shapes
<1> HIDE DEF g
<1>3. \A f \in inFlight : f.seq = h.seq => f = h
  BY Held DEF Alone
<1>4. g \in inFlight' /\ inFlight' \subseteq Delivery
  BY <1>1, <1>2
<1>5. \A f \in inFlight' : f.seq = h.seq => f = g
  BY <1>2, <1>3
<1>6. /\ \A f \in inFlight' : f.seq # h.seq => f \in inFlight
      /\ \A f \in inFlight : f.seq # h.seq => f \in inFlight'
  BY <1>1, <1>2
<1> QED BY <1>1, <1>4, <1>5, <1>6 DEF g

LEMMA Ended ==
  ASSUME StreamInv, NEW h \in inFlight, End(h)
  PROVE  /\ inFlight' \subseteq inFlight /\ inFlight' \subseteq Delivery
         /\ \A f \in inFlight' : f.seq # h.seq
         /\ \A f \in inFlight : f.seq # h.seq => f \in inFlight'
  BY Held DEF End, Alone, StreamInv, Shapes

\* The log s with message i replaced by m.
Replaced(s, i, m) == [k \in DOMAIN s |-> IF k = i THEN m ELSE s[k]]

\* m differs from message i, but not in what it is.
Alters(s, W, i, m) ==
  /\ s \in Seq(StoredMessage) /\ i \in DOMAIN s /\ m \in StoredMessage
  /\ m.job = s[i].job /\ m.subject = s[i].subject /\ m.deferred = s[i].deferred
  /\ m.deliveries = s[i].deliveries \/ <<"dead", i>> \notin W

LEMMA Changed ==
  ASSUME NEW s, NEW W, NEW i, NEW m, NEW t, t = Replaced(s, i, m), Alters(s, W, i, m)
  PROVE  /\ t \in Seq(StoredMessage) /\ Touched(s, W, t) /\ DOMAIN t = DOMAIN s
         /\ t[i] = m /\ \A k \in DOMAIN s : k # i => t[k] = s[k]
<1>0. s \in Seq(StoredMessage) /\ i \in DOMAIN s /\ m \in StoredMessage
  BY DEF Alters
<1>1. t[i] = m /\ DOMAIN t = DOMAIN s /\ \A k \in DOMAIN s : k # i => t[k] = s[k]
  BY <1>0 DEF Replaced
<1>2. t \in Seq(StoredMessage)
  <2> DEFINE n == Len(s)
  <2>1. DOMAIN s = 1 .. n /\ n \in Nat
    BY <1>0
  <2>2. t = [k \in 1 .. n |-> t[k]] /\ \A k \in 1 .. n : t[k] \in StoredMessage
    BY <1>0, <1>1, <2>1, Sequences DEF Replaced
  <2> HIDE DEF n
  <2>3. t \in [1 .. n -> StoredMessage]
    BY <2>2
  <2>4. Seq(StoredMessage) = UNION {[1 .. k -> StoredMessage] : k \in Nat}
    BY SeqDef
  <2> QED BY <2>1, <2>3, <2>4, Zenon
<1>3. Touched(s, W, t)
  BY <1>1 DEF Touched, Alters
<1> QED BY <1>1, <1>2, <1>3

WithStatus(s, i, b) == [s EXCEPT ![i].status = b]
DueNow(s, i) == [s EXCEPT ![i].status = "waiting", ![i].due = TRUE]
DueLater(s, i) == [s EXCEPT ![i].status = "waiting", ![i].due = FALSE]
DueAgain(s, i) == [s EXCEPT ![i].due = TRUE]
Delivered(s, i) == [s EXCEPT ![i].status = "out", ![i].deliveries = @ + 1]

\* t is s with message i changed.
Rewritten(s, W, t, i) ==
  /\ t \in Seq(StoredMessage) /\ Touched(s, W, t) /\ DOMAIN t = DOMAIN s
  /\ \A k \in DOMAIN s : k # i => t[k] = s[k]

\* The changes the code makes: acknowledged, deleted, put back, due again, delivered.
LEMMA StatusSet ==
  ASSUME NEW s \in Seq(StoredMessage), NEW W, NEW i \in DOMAIN s,
         NEW b \in {"waiting", "out", "acked", "deleted"}, NEW t, t = WithStatus(s, i, b)
  PROVE  Rewritten(s, W, t, i) /\ t[i].status = b /\ t[i].deliveries = s[i].deliveries
<1> DEFINE m == [s[i] EXCEPT !.status = b]
<1>1. s[i] \in StoredMessage
  BY Sequences
<1>2. /\ m \in StoredMessage /\ m.status = b /\ m.job = s[i].job /\ m.subject = s[i].subject
      /\ m.deferred = s[i].deferred /\ m.deliveries = s[i].deliveries
  BY <1>1 DEF StoredMessage
<1>3. t = Replaced(s, i, m)
  BY DEF Replaced, WithStatus
<1> HIDE DEF m
<1>4. /\ t \in Seq(StoredMessage) /\ Touched(s, W, t) /\ DOMAIN t = DOMAIN s
      /\ t[i] = m /\ \A k \in DOMAIN s : k # i => t[k] = s[k]
  <2>1. Alters(s, W, i, m)
    BY <1>2, <1>3 DEF Alters
  <2> QED BY <1>2, <1>3, <2>1, Changed
<1> QED BY <1>2, <1>4 DEF Rewritten

LEMMA DueSet ==
  ASSUME NEW s \in Seq(StoredMessage), NEW W, NEW i \in DOMAIN s, NEW t,
         t = DueNow(s, i) \/ t = DueLater(s, i)
  PROVE  /\ t \in Seq(StoredMessage) /\ Touched(s, W, t) /\ DOMAIN t = DOMAIN s
         /\ t[i].status = "waiting" /\ t[i].deliveries = s[i].deliveries
         /\ \A k \in DOMAIN s : k # i => t[k] = s[k]
<1>1. PICK c \in BOOLEAN : t = [s EXCEPT ![i].status = "waiting", ![i].due = c]
  BY DEF DueNow, DueLater
<1> DEFINE m == [s[i] EXCEPT !.status = "waiting", !.due = c]
<1>2. s[i] \in StoredMessage
  BY Sequences
<1>3. /\ m \in StoredMessage /\ m.status = "waiting" /\ m.job = s[i].job /\ m.subject = s[i].subject
      /\ m.deferred = s[i].deferred /\ m.deliveries = s[i].deliveries
  BY <1>2 DEF StoredMessage
<1>4. t = Replaced(s, i, m)
  BY <1>1 DEF Replaced
<1> HIDE DEF m
<1>5. Alters(s, W, i, m)
  BY <1>3 DEF Alters
<1>6. /\ t \in Seq(StoredMessage) /\ Touched(s, W, t) /\ DOMAIN t = DOMAIN s
      /\ t[i] = m /\ \A k \in DOMAIN s : k # i => t[k] = s[k]
  BY <1>4, <1>5, Changed
<1> QED BY <1>3, <1>6

LEMMA OutSet ==
  ASSUME NEW s \in Seq(StoredMessage), NEW W, NEW i \in DOMAIN s, NEW t,
         s[i].deliveries < MaximumDeliveries, <<"dead", i>> \notin W,
         t = Delivered(s, i)
  PROVE  /\ t \in Seq(StoredMessage) /\ Touched(s, W, t) /\ DOMAIN t = DOMAIN s
         /\ t[i].status = "out" /\ t[i].deliveries = s[i].deliveries + 1
         /\ \A k \in DOMAIN s : k # i => t[k] = s[k]
<1> DEFINE d == s[i].deliveries + 1
           m == [s[i] EXCEPT !.status = "out", !.deliveries = d]
<1>1. s[i] \in StoredMessage /\ d \in 0 .. MaximumDeliveries
  <2>1. s[i] \in StoredMessage
    BY Sequences
  <2> QED BY <2>1, StreamAssumption DEF StoredMessage
<1>2. t = Replaced(s, i, m)
  BY DEF Replaced, Delivered
<1> HIDE DEF d
<1>3. /\ m \in StoredMessage /\ m.status = "out" /\ m.job = s[i].job /\ m.subject = s[i].subject
      /\ m.deferred = s[i].deferred /\ m.deliveries = d
  BY <1>1 DEF StoredMessage
<1> HIDE DEF m
<1>4. /\ t \in Seq(StoredMessage) /\ Touched(s, W, t) /\ DOMAIN t = DOMAIN s
      /\ t[i] = m /\ \A k \in DOMAIN s : k # i => t[k] = s[k]
  <2>1. Alters(s, W, i, m)
    BY <1>2, <1>3 DEF Alters
  <2> QED BY <1>2, <1>3, <2>1, Changed
<1> QED BY <1>3, <1>4 DEF d

LEMMA DueOnly ==
  ASSUME NEW s \in Seq(StoredMessage), NEW W, NEW i \in DOMAIN s, NEW t,
         t = DueAgain(s, i)
  PROVE  /\ t \in Seq(StoredMessage) /\ Touched(s, W, t) /\ DOMAIN t = DOMAIN s
         /\ t[i].status = s[i].status /\ t[i].deliveries = s[i].deliveries
         /\ \A k \in DOMAIN s : k # i => t[k] = s[k]
<1> DEFINE m == [s[i] EXCEPT !.due = TRUE]
<1>1. s[i] \in StoredMessage
  BY Sequences
<1>2. /\ m \in StoredMessage /\ m.status = s[i].status /\ m.job = s[i].job /\ m.subject = s[i].subject
      /\ m.deferred = s[i].deferred /\ m.deliveries = s[i].deliveries
  BY <1>1 DEF StoredMessage
<1>3. t = Replaced(s, i, m)
  BY DEF Replaced, DueAgain
<1> HIDE DEF m
<1>4. /\ t \in Seq(StoredMessage) /\ Touched(s, W, t) /\ DOMAIN t = DOMAIN s
      /\ t[i] = m /\ \A k \in DOMAIN s : k # i => t[k] = s[k]
  <2>1. Alters(s, W, i, m)
    BY <1>2, <1>3 DEF Alters
  <2> QED BY <1>2, <1>3, <2>1, Changed
<1> QED BY <1>2, <1>4

-----------------------------------------------------------------------------
(* Every step keeps the stream in order.                                   *)

\* The holders of other messages stay.
Around(i) == \A g \in inFlight : g.seq # i => g \in inFlight'

LEMMA TouchKeeps ==
  ASSUME StreamInv, NEW i, OnlyAt(i), HeldAt(i), stream' \in Seq(StoredMessage),
         Touched(stream, window, stream'), window' = window,
         inFlight' \subseteq Delivery, handled' \subseteq Jobs, redriving' \in {0, redriving}
  PROVE  StreamInv'
<1>1. Letters(stream', window') /\ Chain(stream', window')
  BY TouchedStays DEF StreamInv, Shapes
<1>2. redriving' = 0 \/ (redriving' \in Seqs' /\ stream'[redriving'].subject = "dead")
  BY DEF StreamInv, Shapes, Touched, Seqs
<1> QED BY <1>1, <1>2, HandsStay DEF StreamInv, Shapes

LEMMA LinkKeeps ==
  ASSUME StreamInv, NEW i, OnlyAt(i), HeldAt(i), Linked,
         inFlight' \subseteq Delivery, handled' \subseteq Jobs, redriving' \in {0, redriving}
  PROVE  StreamInv'
<1>1. redriving' = 0 \/ (redriving' \in Seqs' /\ stream'[redriving'].subject = "dead")
  BY DEF StreamInv, Shapes, Linked
<1> QED BY <1>1, HandsStay DEF StreamInv, Shapes, Linked

\* Hands that stay where they are, whatever is published beside them.
LEMMA IdleHands ==
  ASSUME StreamInv, UNCHANGED <<inFlight, handled>>, window \subseteq window',
         \A k \in Seqs : k \in Seqs' /\ stream'[k] = stream[k],
         \A k \in Nat : <<"dead", k>> \in window' => <<"dead", k>> \in window
  PROVE  OnlyAt(0) /\ HeldAt(0) /\ inFlight' \subseteq Delivery /\ handled' \subseteq Jobs
<1>1. OnlyAt(0)
  BY Sequences DEF OnlyAt, StreamInv, Shapes, Seqs
<1>2. HeldAt(0)
  BY Held, Sequences DEF HeldAt, StreamInv, Shapes, Seqs
<1> QED BY <1>1, <1>2 DEF StreamInv, Shapes

LEMMA RelayPublishSound ==
  ASSUME StreamInv, NEW j \in Jobs, UNCHANGED <<inFlight, redriving, handled>>,
         Publish(<<"job", j>>, Message(j, "ready", FALSE)) \/ UNCHANGED <<stream, window>>
  PROVE  StreamInv'
<1>1. Linked /\ \A k \in Nat : <<"dead", k>> \in window' => <<"dead", k>> \in window
  BY FirstPublished, NothingNew
<1>2. OnlyAt(0) /\ HeldAt(0) /\ inFlight' \subseteq Delivery /\ handled' \subseteq Jobs
  BY <1>1, IdleHands DEF Linked
<1> QED BY <1>1, <1>2, LinkKeeps

LEMMA AckWaitSound ==
  ASSUME StreamInv, NEW i \in Seqs, AckWaitPasses(i)
  PROVE  /\ StreamInv' /\ OnlyAt(i) /\ Touched(stream, window, stream')
         /\ stream'[i].status = "waiting" /\ stream'[i].deliveries = stream[i].deliveries
<1>1. stream \in Seq(StoredMessage) /\ i \in DOMAIN stream /\ Holders(i) = {}
  BY DEF StreamInv, Shapes, Seqs, AckWaitPasses
<1>2. /\ stream' \in Seq(StoredMessage) /\ Touched(stream, window, stream')
      /\ DOMAIN stream' = DOMAIN stream /\ \A k \in DOMAIN stream : k # i => stream'[k] = stream[k]
      /\ stream'[i].status = "waiting" /\ stream'[i].deliveries = stream[i].deliveries
  <2>1. stream' = DueNow(stream, i)
    BY DEF AckWaitPasses, DueNow
  <2> QED BY <1>1, <2>1, DueSet
<1>3. UNCHANGED <<window, inFlight, redriving, handled>>
  BY DEF AckWaitPasses
<1>4. OnlyAt(i) /\ HeldAt(i)
  BY <1>1, <1>2, <1>3 DEF OnlyAt, HeldAt, Holders, Seqs
<1> QED BY <1>2, <1>3, <1>4, TouchKeeps DEF StreamInv, Shapes

LEMMA PauseSound ==
  ASSUME StreamInv, NEW i \in Seqs, PausePasses(i)
  PROVE  /\ StreamInv' /\ OnlyAt(i) /\ Touched(stream, window, stream')
         /\ stream'[i].status = "waiting" /\ stream'[i].deliveries = stream[i].deliveries
<1>1. stream \in Seq(StoredMessage) /\ i \in DOMAIN stream /\ stream[i].status = "waiting"
  BY DEF StreamInv, Shapes, Seqs, PausePasses
<1>2. /\ stream' \in Seq(StoredMessage) /\ Touched(stream, window, stream')
      /\ DOMAIN stream' = DOMAIN stream /\ \A k \in DOMAIN stream : k # i => stream'[k] = stream[k]
      /\ stream'[i].status = "waiting" /\ stream'[i].deliveries = stream[i].deliveries
  <2>1. stream' = DueAgain(stream, i)
    BY DEF PausePasses, DueAgain
  <2>2. /\ stream' \in Seq(StoredMessage) /\ Touched(stream, window, stream')
        /\ DOMAIN stream' = DOMAIN stream
        /\ stream'[i].status = stream[i].status /\ stream'[i].deliveries = stream[i].deliveries
        /\ \A k \in DOMAIN stream : k # i => stream'[k] = stream[k]
    BY <1>1, <2>1, DueOnly
  <2> QED BY <1>1, <2>2
<1>3. UNCHANGED <<window, inFlight, redriving, handled>>
  BY DEF PausePasses
<1>4. \A g \in inFlight : g.seq # i
  BY <1>1, Held DEF Knows
<1>5. OnlyAt(i) /\ HeldAt(i)
  BY <1>2, <1>3, <1>4 DEF OnlyAt, HeldAt, Seqs
<1> QED BY <1>2, <1>3, <1>5, TouchKeeps DEF StreamInv, Shapes

LEMMA FetchSound ==
  ASSUME StreamInv, NEW i \in Seqs, NEW w \in Workers, Fetch(w, i)
  PROVE  /\ StreamInv' /\ OnlyAt(i) /\ Around(i) /\ Touched(stream, window, stream')
         /\ stream'[i].status = "out" /\ stream'[i].deliveries = stream[i].deliveries + 1
<1> DEFINE g == [worker |-> w, seq |-> i, delivery |-> stream[i].deliveries + 1,
                 at |-> IF stream[i].deferred THEN "moving" ELSE "handling"]
<1>1. /\ stream \in Seq(StoredMessage) /\ i \in DOMAIN stream /\ stream[i] \in StoredMessage /\ i \in Nat
      /\ stream[i].status = "waiting" /\ stream[i].deliveries < MaximumDeliveries
      /\ IsReady(stream, i)
  BY Sequences DEF StreamInv, Shapes, Seqs, Fetch, IsReady
<1>2. <<"dead", i>> \notin window
  BY <1>1, StreamAssumption DEF StreamInv, Letters, StoredMessage
<1>3. /\ stream' \in Seq(StoredMessage) /\ Touched(stream, window, stream')
      /\ DOMAIN stream' = DOMAIN stream /\ \A k \in DOMAIN stream : k # i => stream'[k] = stream[k]
      /\ stream'[i].status = "out" /\ stream'[i].deliveries = stream[i].deliveries + 1
  <2>1. stream' = Delivered(stream, i)
    BY DEF Fetch, Delivered
  <2> QED BY <1>1, <1>2, <2>1, OutSet
<1>4. UNCHANGED <<window, redriving, handled>> /\ inFlight' = inFlight \cup {g}
  BY DEF Fetch
<1>5. \A f \in inFlight : f.seq # i
  BY <1>1, Held DEF Knows
<1>6. g \in Delivery /\ g.seq = i
  BY <1>1, StreamAssumption DEF Delivery, StoredMessage
<1>7. Knows(stream', window', handled', g)
  BY <1>1, <1>2, <1>3, <1>4 DEF Knows, Touched, IsReady
<1> HIDE DEF g
<1>8. OnlyAt(i) /\ HeldAt(i) /\ Around(i)
  BY <1>3, <1>4, <1>5, <1>6, <1>7 DEF OnlyAt, HeldAt, Around, Seqs
<1> QED BY <1>3, <1>4, <1>6, <1>8, TouchKeeps DEF StreamInv, Shapes

LEMMA SucceedSound ==
  ASSUME StreamInv, NEW h \in inFlight, Succeed(h) \/ HandlerFails(h)
  PROVE  /\ StreamInv' /\ OnlyAt(h.seq) /\ Around(h.seq)
         /\ \A g \in inFlight' : g.seq = h.seq => g.at \in {"acknowledging", "rejecting"}
<1> DEFINE i == h.seq
<1>1. PICK at \in {"acknowledging", "rejecting"} : Goto(h, at)
        /\ handled' = IF at = "acknowledging" THEN handled \cup {stream[i].job} ELSE handled
  BY DEF Succeed, HandlerFails
<1>2. h.at = "handling" /\ UNCHANGED <<stream, window, redriving>>
  BY DEF Succeed, HandlerFails
<1> DEFINE g == [h EXCEPT !.at = at]
<1>3. /\ g \in Delivery /\ g.seq = i /\ g.at = at /\ g.delivery = h.delivery
      /\ g \in inFlight' /\ inFlight' \subseteq Delivery
      /\ \A f \in inFlight' : f.seq = i => f = g
      /\ \A f \in inFlight' : f.seq # i => f \in inFlight
      /\ \A f \in inFlight : f.seq # i => f \in inFlight'
  <2>1. at \in {"moving", "handling", "acknowledging", "rejecting", "settling"} /\ Goto(h, at)
    BY <1>1
  <2> QED BY <2>1, GoneTo
<1>4. Knows(stream, window, handled, h) /\ stream[i] \in StoredMessage /\ stream[i].job \in Jobs
  BY Held DEF StoredMessage
<1> HIDE DEF g
<1>5. Knows(stream', window', handled', g)
  BY <1>1, <1>2, <1>3, <1>4 DEF Knows
<1>6. OnlyAt(i) /\ HeldAt(i) /\ Around(i)
  BY <1>1, <1>2, <1>3, <1>5 DEF OnlyAt, HeldAt, Around, Seqs
<1>7. handled' \subseteq Jobs
  BY <1>1, <1>4 DEF StreamInv, Shapes
<1>8. stream' \in Seq(StoredMessage) /\ Touched(stream, window, stream') /\ window' = window
  BY <1>2 DEF StreamInv, Shapes, Touched
<1> QED BY <1>1, <1>2, <1>3, <1>6, <1>7, <1>8, TouchKeeps

LEMMA AcknowledgeSound ==
  ASSUME StreamInv, NEW h \in inFlight, Acknowledge(h)
  PROVE  /\ StreamInv' /\ OnlyAt(h.seq) /\ Around(h.seq) /\ Touched(stream, window, stream')
         /\ stream'[h.seq].status = "acked" /\ stream'[h.seq].deliveries = stream[h.seq].deliveries
         /\ \A g \in inFlight' : g.seq # h.seq
<1> DEFINE i == h.seq
<1>1. stream \in Seq(StoredMessage) /\ i \in DOMAIN stream
  BY Held DEF Seqs
<1>2. End(h) /\ UNCHANGED <<window, redriving, handled>>
  BY DEF Acknowledge
<1>3. /\ stream' \in Seq(StoredMessage) /\ Touched(stream, window, stream')
      /\ DOMAIN stream' = DOMAIN stream /\ \A k \in DOMAIN stream : k # i => stream'[k] = stream[k]
      /\ stream'[i].status = "acked" /\ stream'[i].deliveries = stream[i].deliveries
  <2>1. stream' = WithStatus(stream, i, "acked")
    BY DEF Acknowledge, Settled, WithStatus
  <2>2. /\ Rewritten(stream, window, stream', i)
        /\ stream'[i].status = "acked" /\ stream'[i].deliveries = stream[i].deliveries
    BY <1>1, <2>1, StatusSet
  <2> QED BY <2>2 DEF Rewritten
<1>4. /\ inFlight' \subseteq inFlight /\ inFlight' \subseteq Delivery
      /\ \A f \in inFlight' : f.seq # i
      /\ \A f \in inFlight : f.seq # i => f \in inFlight'
  BY <1>2, Ended
<1>5. OnlyAt(i) /\ HeldAt(i) /\ Around(i)
  BY <1>2, <1>3, <1>4 DEF OnlyAt, HeldAt, Around, Seqs
<1>6. handled' \subseteq Jobs
  BY <1>2 DEF StreamInv, Shapes
<1> QED BY <1>2, <1>3, <1>4, <1>5, <1>6, TouchKeeps

LEMMA AcknowledgeFailsSound ==
  ASSUME StreamInv, NEW h \in inFlight, AcknowledgeFails(h)
  PROVE  /\ StreamInv' /\ OnlyAt(h.seq) /\ Around(h.seq) /\ Touched(stream, window, stream')
         /\ stream'[h.seq].deliveries = stream[h.seq].deliveries
<1> DEFINE i == h.seq
           g == [h EXCEPT !.at = "rejecting"]
<1>1. /\ stream \in Seq(StoredMessage) /\ i \in DOMAIN stream /\ Knows(stream, window, handled, h)
      /\ h.at = "acknowledging"
  BY Held DEF Seqs, AcknowledgeFails
<1>2. Goto(h, "rejecting") /\ UNCHANGED <<window, redriving, handled>>
  BY DEF AcknowledgeFails
<1>3. /\ stream' \in Seq(StoredMessage) /\ Touched(stream, window, stream')
      /\ DOMAIN stream' = DOMAIN stream /\ \A k \in DOMAIN stream : k # i => stream'[k] = stream[k]
      /\ stream'[i].status \in {"acked", stream[i].status}
      /\ stream'[i].deliveries = stream[i].deliveries
  <2>1. CASE stream' = stream
    BY <1>1, <2>1 DEF Touched
  <2>2. CASE stream' = WithStatus(stream, i, "acked")
    <3> HIDE DEF i, g
    <3>1. stream \in Seq(StoredMessage) /\ i \in DOMAIN stream
      BY <1>1
    <3>2. /\ Rewritten(stream, window, stream', i)
          /\ stream'[i].status = "acked" /\ stream'[i].deliveries = stream[i].deliveries
      BY <2>2, <3>1, StatusSet
    <3> QED BY <3>2 DEF Rewritten
  <2> QED BY <2>1, <2>2 DEF AcknowledgeFails, Settled, WithStatus
<1>4. /\ g \in Delivery /\ g.seq = i /\ g.at = "rejecting" /\ g.delivery = h.delivery
      /\ g \in inFlight' /\ inFlight' \subseteq Delivery
      /\ \A f \in inFlight' : f.seq = i => f = g
      /\ \A f \in inFlight' : f.seq # i => f \in inFlight
      /\ \A f \in inFlight : f.seq # i => f \in inFlight'
  BY <1>2, GoneTo
<1> HIDE DEF g
<1>5. Knows(stream', window', handled', g)
  BY <1>1, <1>2, <1>3, <1>4 DEF Knows, Touched, IsReady
<1>6. OnlyAt(i) /\ HeldAt(i) /\ Around(i)
  BY <1>2, <1>3, <1>4, <1>5 DEF OnlyAt, HeldAt, Around, Seqs
<1>7. handled' \subseteq Jobs
  BY <1>2 DEF StreamInv, Shapes
<1> QED BY <1>2, <1>3, <1>4, <1>6, <1>7, TouchKeeps

LEMMA MoveSound ==
  ASSUME StreamInv, NEW h \in inFlight, Move(h)
  PROVE  /\ StreamInv' /\ OnlyAt(h.seq) /\ Around(h.seq) /\ Linked
         /\ stream[h.seq].deferred /\ IsReady(stream, h.seq) /\ <<"moved", h.seq>> \in window'
<1> DEFINE i == h.seq
           g == [h EXCEPT !.at = "settling"]
<1>1. /\ stream \in Seq(StoredMessage) /\ i \in Seqs /\ Knows(stream, window, handled, h)
      /\ h.at = "moving" /\ stream[i].deferred /\ IsReady(stream, i)
  BY Held DEF Move, Knows
<1>2. /\ Linked /\ <<"moved", i>> \in window'
      /\ \A k \in Nat : <<"dead", k>> \in window' => <<"dead", k>> \in window
  BY <1>1, MovedOn DEF Move
<1>3. Goto(h, "settling") /\ UNCHANGED <<redriving, handled>>
  BY DEF Move
<1>4. /\ g \in Delivery /\ g.seq = i /\ g.at = "settling" /\ g.delivery = h.delivery
      /\ g \in inFlight' /\ inFlight' \subseteq Delivery
      /\ \A f \in inFlight' : f.seq = i => f = g
      /\ \A f \in inFlight' : f.seq # i => f \in inFlight
      /\ \A f \in inFlight : f.seq # i => f \in inFlight'
  BY <1>3, GoneTo
<1> HIDE DEF g
<1>5. Knows(stream', window', handled', g)
  BY <1>1, <1>2, <1>3, <1>4 DEF Knows, Linked, Seqs, IsReady, Spent
<1>6. OnlyAt(i) /\ HeldAt(i) /\ Around(i)
  BY <1>1, <1>2, <1>3, <1>4, <1>5, Sequences DEF OnlyAt, HeldAt, Around, Linked, Seqs
<1>7. handled' \subseteq Jobs
  BY <1>3 DEF StreamInv, Shapes
<1> QED BY <1>1, <1>2, <1>3, <1>4, <1>6, <1>7, LinkKeeps

LEMMA BurySound ==
  ASSUME StreamInv, NEW h \in inFlight, Reject(h), LastDelivery(h)
  PROVE  /\ StreamInv' /\ OnlyAt(h.seq) /\ Around(h.seq) /\ Linked
         /\ ~stream[h.seq].deferred /\ IsReady(stream, h.seq) /\ <<"dead", h.seq>> \in window'
         /\ <<"dead", h.seq>> \notin window /\ stream[h.seq].deliveries = MaximumDeliveries
<1> DEFINE i == h.seq
           g == [h EXCEPT !.at = "settling"]
<1>1. /\ stream \in Seq(StoredMessage) /\ i \in Seqs /\ Knows(stream, window, handled, h)
      /\ h.at = "rejecting" /\ ~stream[i].deferred /\ IsReady(stream, i) /\ <<"dead", i>> \notin window
  BY Held DEF Reject, Knows
<1>2. stream[i].deliveries = MaximumDeliveries
  <2>1. stream[i].deliveries \in 0 .. MaximumDeliveries
    BY Held DEF StoredMessage
  <2>2. h.delivery = stream[i].deliveries
    BY <1>1 DEF Knows
  <2> QED BY <2>1, <2>2, StreamAssumption DEF LastDelivery
<1>3. /\ Linked /\ <<"dead", i>> \in window'
      /\ \A k \in Nat : <<"dead", k>> \in window' /\ k # i => <<"dead", k>> \in window
  BY <1>1, <1>2, Buried DEF Reject
<1>4. Goto(h, "settling") /\ UNCHANGED <<redriving, handled>>
  BY DEF Reject
<1>5. /\ g \in Delivery /\ g.seq = i /\ g.at = "settling" /\ g.delivery = h.delivery
      /\ g \in inFlight' /\ inFlight' \subseteq Delivery
      /\ \A f \in inFlight' : f.seq = i => f = g
      /\ \A f \in inFlight' : f.seq # i => f \in inFlight
      /\ \A f \in inFlight : f.seq # i => f \in inFlight'
  BY <1>4, GoneTo
<1> HIDE DEF g
<1>6. Knows(stream', window', handled', g)
  BY <1>1, <1>3, <1>4, <1>5 DEF Knows, Linked, Seqs, IsReady, Spent
<1>7. OnlyAt(i) /\ HeldAt(i) /\ Around(i)
  BY <1>1, <1>3, <1>4, <1>5, <1>6, Sequences DEF OnlyAt, HeldAt, Around, Linked, Seqs
<1>8. handled' \subseteq Jobs
  BY <1>4 DEF StreamInv, Shapes
<1> QED BY <1>1, <1>2, <1>3, <1>4, <1>5, <1>7, <1>8, LinkKeeps

LEMMA PutBackSound ==
  ASSUME StreamInv, NEW h \in inFlight, Reject(h), ~LastDelivery(h)
  PROVE  /\ StreamInv' /\ OnlyAt(h.seq) /\ Around(h.seq) /\ Touched(stream, window, stream')
         /\ stream'[h.seq].status = "acked" <=> stream[h.seq].status = "acked"
         /\ stream'[h.seq].deliveries = stream[h.seq].deliveries
         /\ \A g \in inFlight' : g.seq # h.seq
<1> DEFINE i == h.seq
<1>1. stream \in Seq(StoredMessage) /\ i \in DOMAIN stream
  BY Held DEF Seqs
<1>2. End(h) /\ UNCHANGED <<window, redriving, handled>>
  BY DEF Reject
<1>3. /\ stream' \in Seq(StoredMessage) /\ Touched(stream, window, stream')
      /\ DOMAIN stream' = DOMAIN stream /\ \A k \in DOMAIN stream : k # i => stream'[k] = stream[k]
      /\ stream'[i].status = "acked" <=> stream[i].status = "acked"
      /\ stream'[i].deliveries = stream[i].deliveries
  <2>1. CASE stream[i].status = "out" /\ stream' = DueLater(stream, i)
    <3>1. /\ stream' \in Seq(StoredMessage) /\ Touched(stream, window, stream')
          /\ DOMAIN stream' = DOMAIN stream
          /\ stream'[i].status = "waiting" /\ stream'[i].deliveries = stream[i].deliveries
          /\ \A k \in DOMAIN stream : k # i => stream'[k] = stream[k]
      <4>1. stream' = DueNow(stream, i) \/ stream' = DueLater(stream, i)
        BY <2>1
      <4> HIDE DEF i
      <4> QED BY <1>1, <4>1, DueSet
    <3> QED BY <2>1, <3>1
  <2>2. CASE stream' = stream
    BY <1>1, <2>2 DEF Touched
  <2> QED BY <2>1, <2>2 DEF Reject, PutBack, DueLater
<1>4. /\ inFlight' \subseteq inFlight /\ inFlight' \subseteq Delivery
      /\ \A f \in inFlight' : f.seq # i
      /\ \A f \in inFlight : f.seq # i => f \in inFlight'
  BY <1>2, Ended
<1>5. OnlyAt(i) /\ HeldAt(i) /\ Around(i)
  BY <1>2, <1>3, <1>4 DEF OnlyAt, HeldAt, Around, Seqs
<1>6. handled' \subseteq Jobs
  BY <1>2 DEF StreamInv, Shapes
<1> QED BY <1>2, <1>3, <1>4, <1>5, <1>6, TouchKeeps

\* Handlers that end without a trace.
LEMMA GoneSound ==
  ASSUME StreamInv, inFlight' \subseteq inFlight, UNCHANGED <<stream, window, redriving, handled>>
  PROVE  StreamInv'
<1>1. OnlyAt(0) /\ HeldAt(0)
  BY Held, Sequences DEF OnlyAt, HeldAt, StreamInv, Shapes, Seqs
<1>2. stream' \in Seq(StoredMessage) /\ Touched(stream, window, stream')
  BY DEF StreamInv, Shapes, Touched
<1> QED BY <1>1, <1>2, TouchKeeps DEF StreamInv, Shapes

LEMMA RedriveSound ==
  ASSUME StreamInv, NEW d \in Seqs, Redrive(d)
  PROVE  StreamInv' /\ Linked /\ \A k \in Nat : <<"dead", k>> \in window' => <<"dead", k>> \in window
<1>1. ~IsReady(stream, d) /\ stream[d].subject = "dead" /\ UNCHANGED <<inFlight, handled>>
  BY DEF Redrive, IsReady
<1>2. Linked /\ \A k \in Nat : <<"dead", k>> \in window' => <<"dead", k>> \in window
  BY <1>1, Redriven DEF Redrive
<1>3. OnlyAt(0) /\ HeldAt(0) /\ inFlight' \subseteq Delivery /\ handled' \subseteq Jobs
  BY <1>1, <1>2, IdleHands DEF Linked
<1>4. redriving' \in Seqs' /\ stream'[redriving'].subject = "dead"
  BY <1>1, <1>2 DEF Redrive, Linked
<1> QED BY <1>2, <1>3, <1>4, HandsStay DEF StreamInv, Shapes, Linked

LEMMA DeleteSound ==
  ASSUME StreamInv, DeleteDeadLetter
  PROVE  /\ StreamInv' /\ OnlyAt(redriving) /\ Touched(stream, window, stream')
         /\ ~IsReady(stream, redriving) /\ UNCHANGED <<inFlight, window, handled>>
<1> DEFINE i == redriving
<1>1. /\ stream \in Seq(StoredMessage) /\ i \in DOMAIN stream /\ ~IsReady(stream, i)
  BY DEF StreamInv, Shapes, Seqs, DeleteDeadLetter, IsReady
<1>2. /\ stream' \in Seq(StoredMessage) /\ Touched(stream, window, stream')
      /\ DOMAIN stream' = DOMAIN stream /\ \A k \in DOMAIN stream : k # i => stream'[k] = stream[k]
  <2>1. stream' = WithStatus(stream, i, "deleted")
    BY DEF DeleteDeadLetter, WithStatus
  <2>2. Rewritten(stream, window, stream', i)
    BY <1>1, <2>1, StatusSet
  <2> QED BY <2>2 DEF Rewritten
<1>3. UNCHANGED <<window, inFlight, handled>> /\ redriving' = 0
  BY DEF DeleteDeadLetter
<1>4. \A g \in inFlight : g.seq # i
  BY <1>1, Held DEF Knows
<1>5. OnlyAt(i) /\ HeldAt(i)
  BY <1>2, <1>3, <1>4 DEF OnlyAt, HeldAt, Seqs
<1> QED BY <1>1, <1>2, <1>3, <1>5, TouchKeeps DEF StreamInv, Shapes

-----------------------------------------------------------------------------
(* What JobDelivery sees of the stream.                                    *)

LEMMA MaxIs ==
  ASSUME NEW S, S \subseteq Nat, NEW i \in S, \A n \in S : n <= i
  PROVE  Max(S) = i
<1>1. \A k \in S : (\A n \in S : k >= n) => k = i
  OBVIOUS
<1>2. \A n \in S : i >= n
  OBVIOUS
<1> QED BY <1>1, <1>2, Zenon DEF Max

LEMMA ReadyMessage ==
  ASSUME StreamInv, NEW j, NEW i
  PROVE  i \in ReadyMessages(j) <=> i \in Seqs /\ IsReady(stream, i) /\ stream[i].job = j
  BY DEF ReadyMessages, IsReady

\* The last message of a job's chain stands for the job.
LEMMA CurrentLatest ==
  ASSUME StreamInv, NEW j, ReadyMessages(j) # {}
  PROVE  /\ Current(j) \in ReadyMessages(j) /\ Current(j) \in Seqs
         /\ IsReady(stream, Current(j)) /\ stream[Current(j)].job = j
         /\ \A n \in ReadyMessages(j) : n <= Current(j)
<1>1. PICK k \in ReadyMessages(j) : TRUE
  OBVIOUS
<1>2. PICK c \in Seqs : SameJob(stream, c, k) /\ Latest(stream, c)
  BY <1>1, ReadyMessage DEF StreamInv, Chain, Seqs
<1>3. c \in ReadyMessages(j) /\ IsReady(stream, c) /\ stream[c].job = j
  BY <1>1, <1>2, ReadyMessage DEF Latest, SameJob
<1>4. \A n \in ReadyMessages(j) : n <= c
  BY <1>2, <1>3, ReadyMessage DEF Latest, SameJob, Seqs
<1>5. ReadyMessages(j) \subseteq Nat
  BY Sequences DEF ReadyMessages, Seqs, StreamInv, Shapes
<1>6. Current(j) = c
  BY <1>3, <1>4, <1>5, MaxIs DEF Current
<1> QED BY <1>3, <1>4, <1>6

\* A message that is not spent is the last of its job.
LEMMA LiveIsCurrent ==
  ASSUME StreamInv, NEW i \in Seqs, IsReady(stream, i), ~Spent(stream, window, i)
  PROVE  i \in ReadyMessages(stream[i].job) /\ Current(stream[i].job) = i
<1> DEFINE j == stream[i].job
           c == Current(j)
<1>1. i \in ReadyMessages(j)
  BY ReadyMessage
<1>2. c \in Seqs /\ IsReady(stream, c) /\ stream[c].job = j /\ i <= c
  BY <1>1, CurrentLatest
<1>3. i \in Nat /\ c \in Nat
  BY <1>2, Sequences DEF Seqs, StreamInv, Shapes
<1> HIDE DEF c
<1>4. ~(i < c)
  BY <1>2 DEF StreamInv, Chain, SameJob, Seqs
<1> QED BY <1>1, <1>2, <1>3, <1>4 DEF c

Acked(i) == stream[i].status = "acked" /\ ~Undecided(i)

\* What JobDelivery sees of job j stays.
Same(j) ==
  /\ Standing(j)' = Standing(j) /\ Deliveries(j)' = Deliveries(j) /\ Outcome(j)' = Outcome(j)

Tried(j) == \E i \in ReadyMessages(j) : ~stream[i].deferred /\ stream[i].deliveries > 0

\* A step about message i that changes nothing JobDelivery sees of job j.
LEMMA Unmoved ==
  ASSUME StreamInv, NEW i, OnlyAt(i), Around(i), NEW j \in Jobs,
         ReadyMessages(j)' = ReadyMessages(j), j \in handled' <=> j \in handled,
         i \in ReadyMessages(j) =>
           /\ stream'[i].deferred = stream[i].deferred
           /\ stream[i].deferred \/ stream'[i].deliveries = stream[i].deliveries,
         i \in ReadyMessages(j) /\ i = Current(j) =>
           /\ <<"dead", i>> \in window' <=> <<"dead", i>> \in window
           /\ <<"dead", i>> \in window \/ (Acked(i)' <=> Acked(i))
  PROVE  Same(j)
<1>1. \A k \in ReadyMessages(j) : k # i => stream'[k] = stream[k]
  BY ReadyMessage DEF OnlyAt
<1>2. Tried(j)' <=> Tried(j)
  BY <1>1 DEF Tried
<1>3. Outcome(j)' = Outcome(j)
  BY <1>2 DEF Outcome, Tried
<1>4. CASE ReadyMessages(j) = {}
  BY <1>3, <1>4 DEF Same, Standing, Deliveries
<1>5. CASE ReadyMessages(j) # {}
  <2>1. PICK c : c = Current(j)
    OBVIOUS
  <2>2. c \in ReadyMessages(j) /\ c \in Seqs /\ Current(j)' = c
    BY <1>5, <2>1, CurrentLatest DEF Current
  <2>3. Deliveries(j)' = Deliveries(j)
    BY <1>1, <2>1, <2>2 DEF Deliveries
  <2>4. ASSUME c = i
        PROVE  Standing(j)' = Standing(j)
    BY <1>5, <2>1, <2>2, <2>4 DEF Standing, Acked
  <2>5. ASSUME c # i
        PROVE  Standing(j)' = Standing(j)
    <3>1. /\ stream'[c] = stream[c]
          /\ <<"dead", c>> \in window' <=> <<"dead", c>> \in window
      BY <1>1, <2>2, <2>5 DEF OnlyAt
    <3>2. Holders(c)' = Holders(c)
      BY <2>5 DEF Holders, OnlyAt, Around
    <3>3. Acked(c)' <=> Acked(c)
      BY <3>1, <3>2 DEF Acked, Undecided
    <3> QED BY <1>5, <2>1, <2>2, <3>1, <3>3 DEF Standing, Acked
  <2>6. Standing(j)' = Standing(j)
    BY <2>4, <2>5
  <2> QED BY <1>3, <2>3, <2>6 DEF Same
<1> QED BY <1>4, <1>5

-----------------------------------------------------------------------------
(* Every step is a move of JobDelivery for each job.                       *)

\* A job's move from status s, d deliveries and outcome o to t, e and p.
MovedTo(s, d, o, t, e, p) ==
  \/ t = s /\ e = d /\ p = o
  \/ s = "unpublished" /\ t = "pending" /\ e = d /\ p = o
  \/ /\ s = "pending" /\ t = s /\ d < MaximumDeliveries /\ e = d + 1
     /\ p = IF o = "untried" THEN "tried" ELSE o
  \/ t = s /\ e = d /\ o = "tried" /\ p = "handled"
  \/ s = "pending" /\ o = "handled" /\ t = "done" /\ e = d /\ p = o
  \/ s = "pending" /\ d = MaximumDeliveries /\ t = "dead" /\ e = d /\ p = o
  \/ s = "dead" /\ t = "pending" /\ e = 0 /\ p = o

Moved(j) == MovedTo(Standing(j), Deliveries(j), Outcome(j),
                    Standing(j)', Deliveries(j)', Outcome(j)')

Kept == StreamInv' /\ \A j \in Jobs : Moved(j)

LEMMA SameMoved ==
  ASSUME NEW j, Same(j)
  PROVE  Moved(j)
  BY DEF Same, Moved, MovedTo

\* Touching messages changes no job's chain.
LEMMA TouchedReady ==
  ASSUME Touched(stream, window, stream'), NEW j
  PROVE  ReadyMessages(j)' = ReadyMessages(j)
  BY DEF Touched, ReadyMessages, Seqs

LEMMA StoredReady ==
  ASSUME StreamInv, NEW id, NEW m, NEW n, Stored(stream, window, stream', window', id, m, n), NEW j
  PROVE  ReadyMessages(j)' = IF m.subject = "ready" /\ m.job = j
                             THEN ReadyMessages(j) \cup {n} ELSE ReadyMessages(j)
<1>1. /\ Seqs' = Seqs \cup {n} /\ n \notin Seqs /\ stream'[n] = m
      /\ \A i \in Seqs : stream'[i] = stream[i]
  <2>1. Carries(stream, window, stream', window', id, m, n)
    BY StoredCarries
  <2> QED BY <2>1 DEF Carries, Seqs
<1> QED BY <1>1 DEF ReadyMessages

\* A touched message moves no other job than its own.
LEMMA OthersUnmoved ==
  ASSUME StreamInv, NEW i \in Seqs, OnlyAt(i), Around(i), UNCHANGED handled,
         NEW j \in Jobs, j # stream[i].job, ReadyMessages(j)' = ReadyMessages(j)
  PROVE  Same(j)
<1>1. i \notin ReadyMessages(j)
  BY ReadyMessage
<1> QED BY <1>1, Unmoved

\* Where a message stays out, or is settled already, JobDelivery sees nothing.
LEMMA QuietTouch ==
  ASSUME StreamInv, NEW i \in Seqs, OnlyAt(i), Around(i), UNCHANGED <<handled, window>>,
         Touched(stream, window, stream'),
         stream[i].deferred \/ stream'[i].deliveries = stream[i].deliveries,
         Current(stream[i].job) = i /\ <<"dead", i>> \notin window => (Acked(i)' <=> Acked(i))
  PROVE  \A j \in Jobs : Same(j)
<1> SUFFICES ASSUME NEW j \in Jobs
             PROVE  Same(j)
  OBVIOUS
<1>1. ReadyMessages(j)' = ReadyMessages(j) /\ stream'[i].deferred = stream[i].deferred
  BY TouchedReady DEF Touched, Seqs
<1>2. i \in ReadyMessages(j) => stream[i].job = j
  BY ReadyMessage
<1> QED BY <1>1, <1>2, Unmoved

\* Nothing of the stream changes but its idle parts.
LEMMA QuietStep ==
  ASSUME StreamInv, UNCHANGED <<stream, window, inFlight, handled>>
  PROVE  \A j \in Jobs : Same(j)
  BY DEF Same, Standing, Deliveries, Outcome, Current, ReadyMessages, Seqs, Undecided, Holders

\* A first or a redriven message, or one stored in another's place.
LEMMA Appended ==
  ASSUME StreamInv, StreamInv', NEW id, NEW m, NEW n,
         Stored(stream, window, stream', window', id, m, n), UNCHANGED handled,
         m.subject = "ready", m.status = "waiting", m.deliveries = 0,
         <<"dead", n>> \notin window'
  PROVE  /\ Standing(m.job)' = "pending" /\ Deliveries(m.job)' = 0
         /\ Outcome(m.job)' = Outcome(m.job)
<1> DEFINE j == m.job
<1>1. /\ Seqs' = Seqs \cup {n} /\ n \notin Seqs /\ n \in Nat /\ stream'[n] = m
      /\ \A i \in Seqs : i \in Nat /\ i < n /\ stream'[i] = stream[i]
  <2>1. Carries(stream, window, stream', window', id, m, n)
    BY StoredCarries
  <2> QED BY <2>1 DEF Carries, Seqs
<1>2. ReadyMessages(j)' = ReadyMessages(j) \cup {n}
  BY StoredReady
<1>3. ReadyMessages(j) \subseteq Seqs
  BY DEF ReadyMessages
<1>4. Current(j)' = n
  <2>1. \A k \in ReadyMessages(j)' : k <= n
    BY <1>1, <1>2, <1>3
  <2>2. n \in ReadyMessages(j)' /\ ReadyMessages(j)' \subseteq Nat
    BY <1>1, <1>2, <1>3
  <2> QED BY <2>1, <2>2, MaxIs DEF Current
<1>5. ReadyMessages(j)' # {}
  BY <1>2
<1>6. Standing(j)' = "pending" /\ Deliveries(j)' = 0
  BY <1>1, <1>4, <1>5 DEF Standing, Deliveries
<1>7. Tried(j)' <=> Tried(j)
  BY <1>1, <1>2, <1>3 DEF Tried
<1> QED BY <1>6, <1>7 DEF Outcome, Tried

\* The other jobs when a message is stored.
LEMMA OthersStored ==
  ASSUME StreamInv, NEW i, OnlyAt(i), Around(i), UNCHANGED handled,
         NEW id, NEW m, NEW n, Stored(stream, window, stream', window', id, m, n),
         NEW j \in Jobs, j # m.job, i \notin Seqs \/ stream[i].job = m.job
  PROVE  Same(j)
<1>1. i \notin ReadyMessages(j)
  BY ReadyMessage
<1>2. ReadyMessages(j)' = ReadyMessages(j)
  BY StoredReady
<1> QED BY <1>1, <1>2, Unmoved

LEMMA NewIsNotDead ==
  ASSUME StreamInv, NEW id, NEW m, NEW n, Stored(stream, window, stream', window', id, m, n),
         \A i \in Nat : <<"dead", i>> \in window' => <<"dead", i>> \in window
  PROVE  <<"dead", n>> \notin window'
<1>1. n \in Nat /\ n \notin Seqs
  BY StoredCarries DEF Carries, Seqs
<1> QED BY <1>1 DEF StreamInv, Letters, Seqs

LEMMA RelayPublishKept ==
  ASSUME StreamInv, NEW k \in Jobs, UNCHANGED <<inFlight, redriving, handled>>,
         Publish(<<"job", k>>, Message(k, "ready", FALSE)) \/ UNCHANGED <<stream, window>>
  PROVE  Kept
<1>1. StreamInv'
  BY RelayPublishSound
<1>2. CASE UNCHANGED <<stream, window>>
  BY <1>1, <1>2, QuietStep, SameMoved DEF Kept
<1>3. CASE ~UNCHANGED <<stream, window>>
  <2> DEFINE m == Message(k, "ready", FALSE)
             id == <<"job", k>>
             n == Len(stream) + 1
  <2>1. /\ m \in StoredMessage /\ m.job = k /\ m.subject = "ready" /\ m.status = "waiting"
        /\ m.deliveries = 0
    BY NewReady
  <2> HIDE DEF m, n
  <2>2. stream \in Seq(StoredMessage)
    BY DEF StreamInv, Shapes
  <2>3. Stored(stream, window, stream', window', id, m, n)
    BY <1>3, <2>1, <2>2, PublishStores DEF m, n
  <2>4. Linked /\ \A i \in Nat : <<"dead", i>> \in window' => <<"dead", i>> \in window
    BY <1>3, FirstPublished
  <2>5. OnlyAt(0) /\ Around(0) /\ 0 \notin Seqs
    BY <2>2, <2>4, IdleHands, Sequences DEF Linked, Around, Seqs
  <2>6. <<"dead", n>> \notin window'
    BY <2>3, <2>4, NewIsNotDead
  <2>7. ReadyMessages(k) = {}
    BY <2>3 DEF ReadyMessages, StreamInv, Letters, Stored, Seqs
  <2>8. Standing(k) = "unpublished" /\ Deliveries(k) = 0
    BY <2>7 DEF Standing, Deliveries
  <2>9. Standing(k)' = "pending" /\ Deliveries(k)' = 0 /\ Outcome(k)' = Outcome(k)
    BY <1>1, <2>1, <2>3, <2>6, Appended
  <2>10. Moved(k)
    BY <2>8, <2>9 DEF Moved, MovedTo
  <2>11. \A j \in Jobs : j # k => Same(j)
    BY <2>1, <2>3, <2>5, OthersStored
  <2> QED BY <1>1, <2>10, <2>11, SameMoved DEF Kept
<1> QED BY <1>2, <1>3

LEMMA PausesKept ==
  ASSUME StreamInv, NEW i \in Seqs, AckWaitPasses(i) \/ PausePasses(i)
  PROVE  Kept
<1>1. /\ StreamInv' /\ OnlyAt(i) /\ Touched(stream, window, stream')
      /\ stream'[i].status = "waiting" /\ stream'[i].deliveries = stream[i].deliveries
  BY AckWaitSound, PauseSound
<1>2. stream[i].status # "acked" /\ Around(i) /\ UNCHANGED <<handled, window>>
  BY DEF AckWaitPasses, PausePasses, Around
<1>3. ~Acked(i) /\ ~Acked(i)'
  BY <1>1, <1>2 DEF Acked
<1> QED BY <1>1, <1>2, <1>3, QuietTouch, SameMoved DEF Kept

LEMMA FetchKept ==
  ASSUME StreamInv, NEW i \in Seqs, NEW w \in Workers, Fetch(w, i)
  PROVE  Kept
<1>1. /\ StreamInv' /\ OnlyAt(i) /\ Around(i) /\ Touched(stream, window, stream')
      /\ stream'[i].status = "out" /\ stream'[i].deliveries = stream[i].deliveries + 1
  BY FetchSound
<1>2. /\ stream[i].status = "waiting" /\ UNCHANGED <<handled, window>> /\ IsReady(stream, i)
      /\ stream[i].deliveries < MaximumDeliveries
  BY DEF Fetch, IsReady
<1>3. ~Acked(i) /\ ~Acked(i)'
  BY <1>1, <1>2 DEF Acked
<1>4. CASE stream[i].deferred
  BY <1>1, <1>2, <1>3, <1>4, QuietTouch, SameMoved DEF Kept
<1>5. CASE ~stream[i].deferred
  <2>1. stream[i] \in StoredMessage /\ i \in Nat
    BY Sequences DEF StreamInv, Shapes, Seqs
  <2>2. PICK j \in Jobs : j = stream[i].job
    BY <2>1 DEF StoredMessage
  <2>3. <<"dead", i>> \notin window
    BY <1>2, <2>1, StreamAssumption DEF StreamInv, Letters, StoredMessage
  <2>4. i \in ReadyMessages(j) /\ Current(j) = i
    BY <1>2, <1>5, <2>2, <2>3, LiveIsCurrent DEF Spent
  <2>5. ReadyMessages(j)' = ReadyMessages(j) /\ Current(j)' = i /\ stream'[i].deferred = stream[i].deferred
    BY <1>1, <2>4, TouchedReady DEF Current, Touched, Seqs
  <2>6. Standing(j) = "pending" /\ Standing(j)' = "pending"
    BY <1>1, <1>2, <2>3, <2>4, <2>5 DEF Standing
  <2>7. Deliveries(j) = stream[i].deliveries /\ Deliveries(j)' = stream[i].deliveries + 1
    BY <1>1, <1>5, <2>4, <2>5 DEF Deliveries
  <2>8. stream[i].deliveries \in Nat
    BY <2>1 DEF StoredMessage
  <2>9. Outcome(j)' = IF j \in handled THEN "handled" ELSE "tried"
    <3>1. i \in ReadyMessages(j)' /\ ~stream'[i].deferred /\ stream'[i].deliveries > 0
      BY <1>1, <1>5, <2>4, <2>5, <2>8
    <3> QED BY <1>2, <3>1 DEF Outcome
  <2>10. Moved(j)
    BY <1>2, <2>6, <2>7, <2>9 DEF Moved, MovedTo, Outcome
  <2>11. \A k \in Jobs : k # j => Same(k)
    BY <1>1, <1>2, <2>2, TouchedReady, OthersUnmoved
  <2> QED BY <1>1, <2>10, <2>11, SameMoved DEF Kept
<1> QED BY <1>4, <1>5

\* A handled job whose last message is settled is done.
LEMMA Finished ==
  ASSUME StreamInv, StreamInv', NEW i \in Seqs, OnlyAt(i), Around(i), UNCHANGED <<handled, window>>,
         Touched(stream, window, stream'), stream'[i].deliveries = stream[i].deliveries,
         IsReady(stream, i), ~stream[i].deferred, <<"dead", i>> \notin window,
         stream[i].job \in handled, ~Acked(i)
  PROVE  \A j \in Jobs : Moved(j)
<1>1. CASE ~Acked(i)'
  BY <1>1, QuietTouch, SameMoved
<1>2. CASE Acked(i)'
  <2>1. PICK j \in Jobs : j = stream[i].job
    BY Sequences DEF StreamInv, Shapes, Seqs, StoredMessage
  <2>2. i \in ReadyMessages(j) /\ Current(j) = i
    BY <2>1, LiveIsCurrent DEF Spent
  <2>3. ReadyMessages(j)' = ReadyMessages(j) /\ Current(j)' = i /\ stream'[i].deferred = stream[i].deferred
    BY <2>2, TouchedReady DEF Current, Touched, Seqs
  <2>4. Standing(j) = "pending" /\ Standing(j)' = "done"
    BY <1>2, <2>2, <2>3 DEF Standing, Acked
  <2>5. Deliveries(j)' = Deliveries(j)
    BY <2>2, <2>3 DEF Deliveries
  <2>6. Outcome(j) = "handled" /\ Outcome(j)' = "handled"
    BY <2>1 DEF Outcome
  <2>7. Moved(j)
    BY <2>4, <2>5, <2>6 DEF Moved, MovedTo
  <2>8. \A k \in Jobs : k # j => Same(k)
    BY <2>1, TouchedReady, OthersUnmoved
  <2> QED BY <2>7, <2>8, SameMoved
<1> QED BY <1>1, <1>2

LEMMA MoveKept ==
  ASSUME StreamInv, NEW h \in inFlight, Move(h)
  PROVE  Kept
<1> DEFINE i == h.seq
<1>1. /\ StreamInv' /\ OnlyAt(i) /\ Around(i) /\ Linked
      /\ stream[i].deferred /\ IsReady(stream, i)
  BY MoveSound
<1>2. /\ i \in Seqs /\ stream \in Seq(StoredMessage) /\ stream[i] \in StoredMessage /\ i \in Nat
      /\ stream[i].status = "out" /\ UNCHANGED handled
  BY Held DEF Knows, Move
<1> HIDE DEF i
<1>3. CASE UNCHANGED <<stream, window>>
  <2>1. ~Acked(i) /\ ~Acked(i)' /\ Touched(stream, window, stream')
    BY <1>2, <1>3 DEF Acked, Touched
  <2> QED BY <1>1, <1>2, <1>3, <2>1, QuietTouch, SameMoved DEF Kept
<1>4. CASE ~UNCHANGED <<stream, window>>
  <2>1. PICK j \in Jobs : j = stream[i].job
    BY <1>2 DEF StoredMessage
  <2> DEFINE m == Message(j, "ready", FALSE)
             id == <<"moved", i>>
             n == Len(stream) + 1
  <2>2. /\ m \in StoredMessage /\ m.job = j /\ m.subject = "ready" /\ m.status = "waiting"
        /\ m.deliveries = 0
    BY NewReady
  <2>3. Publish(id, m)
    BY <2>1 DEF Move, i
  <2> HIDE DEF m, n
  <2>4. Stored(stream, window, stream', window', id, m, n)
    BY <1>2, <1>4, <2>2, <2>3, PublishStores DEF n
  <2>5. \A k \in Nat : <<"dead", k>> \in window' => <<"dead", k>> \in window
    BY <2>4 DEF Stored
  <2>6. <<"dead", n>> \notin window'
    BY <2>4, <2>5, NewIsNotDead
  <2>7. <<"dead", i>> \notin window /\ ~Spent(stream, window, i)
    BY <1>1, <1>2, <2>4 DEF StreamInv, Letters, Stored, Spent
  <2>8. i \in ReadyMessages(j) /\ Current(j) = i
    BY <1>1, <1>2, <2>1, <2>7, LiveIsCurrent
  <2>9. Standing(j) = "pending" /\ Deliveries(j) = 0
    BY <1>1, <1>2, <2>7, <2>8 DEF Standing, Deliveries
  <2>10. Standing(j)' = "pending" /\ Deliveries(j)' = 0 /\ Outcome(j)' = Outcome(j)
    BY <1>1, <1>2, <2>2, <2>4, <2>6, Appended
  <2>11. Moved(j)
    BY <2>9, <2>10 DEF Moved, MovedTo
  <2>12. \A k \in Jobs : k # j => Same(k)
    BY <1>1, <1>2, <2>1, <2>2, <2>4, OthersStored
  <2> QED BY <1>1, <2>11, <2>12, SameMoved DEF Kept
<1> QED BY <1>3, <1>4

LEMMA HandlersKept ==
  ASSUME StreamInv, NEW h \in inFlight, Succeed(h) \/ HandlerFails(h)
  PROVE  Kept
<1> DEFINE i == h.seq
<1>1. StreamInv' /\ OnlyAt(i) /\ Around(i)
  BY SucceedSound
<1>2. /\ i \in Seqs /\ stream[i] \in StoredMessage /\ h \in Delivery
      /\ stream[i].status = "out" /\ ~stream[i].deferred /\ h.delivery = stream[i].deliveries
      /\ IsReady(stream, i) /\ <<"dead", i>> \notin window
  BY Held DEF Knows, Succeed, HandlerFails
<1>3. UNCHANGED <<stream, window>> /\ Touched(stream, window, stream')
  BY DEF Succeed, HandlerFails, Touched
<1>4. ~Acked(i) /\ ~Acked(i)'
  BY <1>2, <1>3 DEF Acked
<1>5. CASE HandlerFails(h)
  <2>1. UNCHANGED handled
    BY <1>5 DEF HandlerFails
  <2> QED BY <1>1, <1>2, <1>3, <1>4, <2>1, QuietTouch, SameMoved DEF Kept
<1>6. CASE Succeed(h)
  <2>1. PICK j \in Jobs : j = stream[i].job
    BY <1>2 DEF StoredMessage
  <2>2. handled' = handled \cup {j}
    BY <1>6, <2>1 DEF Succeed
  <2>3. stream[i].deliveries > 0
    BY <1>2 DEF Delivery
  <2> HIDE DEF i
  <2>4. i \in ReadyMessages(j) /\ Current(j) = i
    BY <1>2, <2>1, LiveIsCurrent DEF Spent
  <2>5. ReadyMessages(j)' = ReadyMessages(j) /\ Current(j)' = i
    BY <1>3, <2>4, TouchedReady DEF Current
  <2>6. Standing(j) = "pending" /\ Standing(j)' = "pending"
    BY <1>2, <1>3, <2>4, <2>5 DEF Standing
  <2>7. Deliveries(j)' = Deliveries(j)
    BY <1>3, <2>4, <2>5 DEF Deliveries
  <2>8. Outcome(j) \in {"tried", "handled"} /\ Outcome(j)' = "handled"
    BY <1>2, <2>2, <2>3, <2>4 DEF Outcome
  <2>9. Moved(j)
    BY <2>6, <2>7, <2>8 DEF Moved, MovedTo
  <2>10. ASSUME NEW k \in Jobs, k # j
         PROVE  Same(k)
    <3>1. i \notin ReadyMessages(k)
      BY <2>1, <2>10, ReadyMessage
    <3>2. ReadyMessages(k)' = ReadyMessages(k) /\ (k \in handled' <=> k \in handled)
      BY <1>3, <2>2, <2>10, TouchedReady
    <3> QED BY <1>1, <3>1, <3>2, Unmoved
  <2> QED BY <1>1, <2>9, <2>10, SameMoved DEF Kept
<1> QED BY <1>5, <1>6

LEMMA AcknowledgeKept ==
  ASSUME StreamInv, NEW h \in inFlight, Acknowledge(h)
  PROVE  Kept
<1> DEFINE i == h.seq
<1>1. /\ StreamInv' /\ OnlyAt(i) /\ Around(i) /\ Touched(stream, window, stream')
      /\ stream'[i].deliveries = stream[i].deliveries
  BY AcknowledgeSound
<1>2. /\ i \in Seqs /\ i \in Nat /\ Knows(stream, window, handled, h) /\ UNCHANGED <<handled, window>>
  BY Held DEF Acknowledge
<1>3. CASE h.at = "acknowledging"
  <2>1. /\ stream[i].status = "out" /\ ~stream[i].deferred /\ stream[i].job \in handled
        /\ IsReady(stream, i) /\ <<"dead", i>> \notin window
    BY <1>2, <1>3 DEF Knows
  <2>2. ~Acked(i)
    BY <2>1 DEF Acked
  <2> QED BY <1>1, <1>2, <2>1, <2>2, Finished DEF Kept
<1>4. CASE h.at = "settling"
  <2>1. Spent(stream, window, i) /\ IsReady(stream, i)
    BY <1>2, <1>4 DEF Knows
  <2>2. PICK j : j = stream[i].job
    OBVIOUS
  <2> HIDE DEF i
  <2>3. ~(Current(j) = i /\ <<"dead", i>> \notin window)
    <3>1. SUFFICES ASSUME Current(j) = i, <<"dead", i>> \notin window
                   PROVE  FALSE
      OBVIOUS
    <3>2. PICK n \in Seqs : IsReady(stream, n) /\ SameJob(stream, n, i) /\ n > i
      BY <1>2, <2>1, <3>1 DEF StreamInv, Letters, Spent, Seqs
    <3>3. n \in ReadyMessages(j)
      BY <2>2, <3>2, ReadyMessage DEF SameJob
    <3>4. n <= i /\ n \in Nat
      BY <3>1, <3>3, CurrentLatest, Sequences DEF StreamInv, Shapes, Seqs
    <3> QED BY <1>2, <3>2, <3>4
  <2> QED BY <1>1, <1>2, <2>2, <2>3, QuietTouch, SameMoved DEF Kept
<1> QED BY <1>3, <1>4 DEF Acknowledge

LEMMA AcknowledgeFailsKept ==
  ASSUME StreamInv, NEW h \in inFlight, AcknowledgeFails(h)
  PROVE  Kept
<1> DEFINE i == h.seq
<1>1. /\ StreamInv' /\ OnlyAt(i) /\ Around(i) /\ Touched(stream, window, stream')
      /\ stream'[i].deliveries = stream[i].deliveries
  BY AcknowledgeFailsSound
<1>2. /\ i \in Seqs /\ Knows(stream, window, handled, h) /\ h.at = "acknowledging"
      /\ UNCHANGED <<handled, window>>
  BY Held DEF AcknowledgeFails
<1>3. /\ stream[i].status = "out" /\ ~stream[i].deferred /\ stream[i].job \in handled
      /\ IsReady(stream, i) /\ <<"dead", i>> \notin window
  BY <1>2 DEF Knows
<1>4. ~Acked(i)
  BY <1>3 DEF Acked
<1> QED BY <1>1, <1>2, <1>3, <1>4, Finished DEF Kept

LEMMA BuryKept ==
  ASSUME StreamInv, NEW h \in inFlight, Reject(h), LastDelivery(h)
  PROVE  Kept
<1> DEFINE i == h.seq
<1>1. /\ StreamInv' /\ OnlyAt(i) /\ Around(i) /\ Linked
      /\ ~stream[i].deferred /\ IsReady(stream, i) /\ <<"dead", i>> \in window'
      /\ <<"dead", i>> \notin window /\ stream[i].deliveries = MaximumDeliveries
  BY BurySound
<1>2. /\ i \in Seqs /\ i \in Nat /\ stream \in Seq(StoredMessage) /\ stream[i] \in StoredMessage
      /\ UNCHANGED handled /\ h.at = "rejecting" /\ h \in Holders(i)
      /\ stream[i].status \in {"out", "acked"}
  BY Held DEF Knows, Reject, Holders
<1>3. PICK j \in Jobs : j = stream[i].job
  BY <1>2 DEF StoredMessage
<1> DEFINE m == Message(j, "dead", FALSE)
           id == <<"dead", i>>
           n == Len(stream) + 1
<1>4. m \in StoredMessage /\ m.job = j /\ m.subject = "dead"
  BY NewMessage
<1>5. Publish(id, m)
  BY <1>3 DEF Reject
<1> HIDE DEF m, n, i
<1>6. Stored(stream, window, stream', window', id, m, n)
  BY <1>1, <1>2, <1>4, <1>5, PublishStores DEF n
<1>7. \A k \in Jobs : ReadyMessages(k)' = ReadyMessages(k)
  BY <1>4, <1>6, StoredReady
<1>8. i \in ReadyMessages(j) /\ Current(j) = i
  BY <1>1, <1>2, <1>3, LiveIsCurrent DEF Spent
<1>9. Current(j)' = i /\ stream'[i] = stream[i]
  BY <1>1, <1>2, <1>7, <1>8 DEF Current, Linked
<1>10. Standing(j) = "pending" /\ Standing(j)' = "dead"
  <2>1. stream[i].status = "acked" => Undecided(i)
    BY <1>2 DEF Undecided
  <2>2. Standing(j) = "pending"
    BY <1>1, <1>2, <1>8, <2>1 DEF Standing
  <2> QED BY <1>1, <1>7, <1>8, <1>9, <2>2 DEF Standing
<1>11. Deliveries(j) = MaximumDeliveries /\ Deliveries(j)' = MaximumDeliveries
  BY <1>1, <1>7, <1>8, <1>9 DEF Deliveries
<1>12. Outcome(j)' = Outcome(j)
  <2>1. \A k \in ReadyMessages(j) : stream'[k] = stream[k]
    BY <1>1, ReadyMessage DEF Linked
  <2> QED BY <1>2, <1>7, <2>1 DEF Outcome
<1>13. Moved(j)
  BY <1>10, <1>11, <1>12 DEF Moved, MovedTo
<1>14. \A k \in Jobs : k # j => Same(k)
  BY <1>1, <1>2, <1>3, <1>7, OthersUnmoved
<1> QED BY <1>1, <1>13, <1>14, SameMoved DEF Kept

LEMMA PutBackKept ==
  ASSUME StreamInv, NEW h \in inFlight, Reject(h), ~LastDelivery(h)
  PROVE  Kept
<1> DEFINE i == h.seq
<1>1. /\ StreamInv' /\ OnlyAt(i) /\ Around(i) /\ Touched(stream, window, stream')
      /\ stream'[i].status = "acked" <=> stream[i].status = "acked"
      /\ stream'[i].deliveries = stream[i].deliveries
      /\ \A g \in inFlight' : g.seq # i
  BY PutBackSound
<1>2. /\ i \in Seqs /\ UNCHANGED <<handled, window>> /\ \A g \in Holders(i) : g = h
  BY Held DEF Reject, Holders, Alone
<1>3. ~Undecided(i) /\ ~Undecided(i)'
  BY <1>1, <1>2 DEF Undecided, Holders
<1>4. Acked(i)' <=> Acked(i)
  BY <1>1, <1>3 DEF Acked
<1> QED BY <1>1, <1>2, <1>4, QuietTouch, SameMoved DEF Kept

LEMMA GoneKept ==
  ASSUME StreamInv, inFlight' \subseteq inFlight, UNCHANGED <<stream, window, redriving, handled>>
  PROVE  Kept
<1> SUFFICES ASSUME NEW j \in Jobs
             PROVE  Moved(j)
  BY GoneSound DEF Kept
<1>1. /\ ReadyMessages(j)' = ReadyMessages(j) /\ Current(j)' = Current(j)
      /\ Outcome(j)' = Outcome(j) /\ Deliveries(j)' = Deliveries(j)
  BY DEF ReadyMessages, Current, Seqs, Outcome, Deliveries
<1>2. PICK c : c = Current(j)
  OBVIOUS
<1>3. CASE Acked(c)' <=> Acked(c)
  <2>1. Standing(j)' = Standing(j)
    BY <1>1, <1>2, <1>3 DEF Standing, Acked
  <2> QED BY <1>1, <2>1 DEF Moved, MovedTo
<1>4. CASE ReadyMessages(j) = {} \/ <<"dead", c>> \in window
  <2>1. Standing(j)' = Standing(j)
    BY <1>1, <1>2, <1>4 DEF Standing
  <2> QED BY <1>1, <2>1 DEF Moved, MovedTo
<1>5. CASE ~(Acked(c)' <=> Acked(c)) /\ ReadyMessages(j) # {} /\ <<"dead", c>> \notin window
  <2>1. Undecided(c)' => Undecided(c)
    BY DEF Undecided, Holders
  <2>2. stream[c].status = "acked" /\ Undecided(c) /\ ~Undecided(c)'
    BY <1>5, <2>1 DEF Acked
  <2>3. PICK h \in inFlight : h.seq = c /\ h.at = "rejecting"
    BY <2>2 DEF Undecided, Holders
  <2>4. stream[c].job \in handled
    BY <2>2, <2>3, Held DEF Knows
  <2>5. stream[c].job = j
    BY <1>2, <1>5, CurrentLatest
  <2>6. Outcome(j) = "handled"
    BY <2>4, <2>5 DEF Outcome
  <2>7. Standing(j) = "pending" /\ Standing(j)' = "done"
    BY <1>1, <1>2, <1>5, <2>2 DEF Standing
  <2> QED BY <1>1, <2>6, <2>7 DEF Moved, MovedTo
<1> QED BY <1>3, <1>4, <1>5

LEMMA RedriveKept ==
  ASSUME StreamInv, NEW d \in Seqs, Redrive(d)
  PROVE  Kept
<1>1. /\ StreamInv' /\ Linked /\ \A k \in Nat : <<"dead", k>> \in window' => <<"dead", k>> \in window
      /\ UNCHANGED <<inFlight, handled>> /\ ~IsReady(stream, d)
  BY RedriveSound DEF Redrive, IsReady
<1>2. stream \in Seq(StoredMessage) /\ stream[d] \in StoredMessage
  BY Sequences DEF StreamInv, Shapes, Seqs
<1>3. CASE UNCHANGED <<stream, window>>
  BY <1>1, <1>3, QuietStep, SameMoved DEF Kept
<1>4. CASE ~UNCHANGED <<stream, window>>
  <2>1. PICK j \in Jobs : j = stream[d].job
    BY <1>2 DEF StoredMessage
  <2> DEFINE m == Message(j, "ready", TRUE)
             id == <<"redrive", d>>
             n == Len(stream) + 1
  <2>2. /\ m \in StoredMessage /\ m.job = j /\ m.subject = "ready" /\ m.status = "waiting"
        /\ m.deliveries = 0
    BY NewReady
  <2>3. Publish(id, m)
    BY <2>1 DEF Redrive
  <2> HIDE DEF m, n
  <2>4. Stored(stream, window, stream', window', id, m, n)
    BY <1>2, <1>4, <2>2, <2>3, PublishStores DEF n
  <2>5. id \notin window /\ <<"dead", n>> \notin window'
    BY <1>1, <2>4, NewIsNotDead DEF Stored
  <2>6. ReadyMessages(j) # {}
    <3>1. PICK c \in Seqs : SameJob(stream, c, d) /\ Latest(stream, c)
      BY DEF StreamInv, Chain, Seqs
    <3> QED BY <2>1, <3>1, ReadyMessage DEF SameJob, Latest
  <2>7. PICK c \in Seqs : /\ c = Current(j) /\ IsReady(stream, c) /\ stream[c].job = j
                          /\ \A k \in ReadyMessages(j) : k <= c
    BY <2>6, CurrentLatest
  <2>8. c \in Nat /\ Spent(stream, window, c)
    BY <1>1, <1>2, <2>1, <2>5, <2>7, Sequences DEF StreamInv, Chain, SameJob, Seqs
  <2>9. <<"dead", c>> \in window /\ ~stream[c].deferred
    <3>1. ASSUME stream[c].deferred
          PROVE  FALSE
      <4>1. PICK k \in Seqs : IsReady(stream, k) /\ SameJob(stream, k, c) /\ k > c
        BY <2>8, <3>1 DEF StreamInv, Letters, Spent, Seqs
      <4>2. k \in ReadyMessages(j) /\ k \in Nat
        BY <1>2, <2>7, <4>1, ReadyMessage, Sequences DEF SameJob, Seqs
      <4> QED BY <2>7, <2>8, <4>1, <4>2
    <3> QED BY <2>8, <3>1 DEF Spent
  <2>10. Standing(j) = "dead"
    BY <2>6, <2>7, <2>9 DEF Standing
  <2>11. Standing(j)' = "pending" /\ Deliveries(j)' = 0 /\ Outcome(j)' = Outcome(j)
    BY <1>1, <2>2, <2>4, <2>5, Appended
  <2>12. Moved(j)
    BY <2>10, <2>11 DEF Moved, MovedTo
  <2>13. OnlyAt(0) /\ Around(0) /\ 0 \notin Seqs
    BY <1>1, <1>2, IdleHands, Sequences DEF Linked, Around, Seqs
  <2>14. \A k \in Jobs : k # j => Same(k)
    BY <1>1, <2>2, <2>4, <2>13, OthersStored
  <2> QED BY <1>1, <2>12, <2>14, SameMoved DEF Kept
<1> QED BY <1>3, <1>4

LEMMA DeleteKept ==
  ASSUME StreamInv, DeleteDeadLetter
  PROVE  Kept
<1>1. PICK i : i = redriving
  OBVIOUS
<1>2. /\ StreamInv' /\ OnlyAt(i) /\ Touched(stream, window, stream')
      /\ ~IsReady(stream, i) /\ UNCHANGED <<inFlight, window, handled>>
  BY <1>1, DeleteSound
<1>3. ASSUME NEW j \in Jobs
      PROVE  Same(j)
  <2>1. i \notin ReadyMessages(j) /\ ReadyMessages(j)' = ReadyMessages(j) /\ Around(i)
    BY <1>2, TouchedReady, ReadyMessage DEF Around
  <2> QED BY <1>2, <2>1, Unmoved
<1> QED BY <1>2, <1>3, SameMoved DEF Kept

LEMMA QuietKept ==
  ASSUME StreamInv, UNCHANGED queueVars
  PROVE  Kept
<1>1. StreamInv'
  BY GoneSound DEF queueVars
<1> QED BY <1>1, QuietStep, SameMoved DEF Kept, queueVars

LEMMA RelaysKept ==
  ASSUME StreamInv, NEW k \in Relays,
         RelayStep(k) \/ RelayCrashes(k) \/ \E j \in Jobs : RelayFails(k, j)
  PROVE  Kept
<1>1. CASE RelayClaim(k) \/ RelayCrashes(k)
  BY <1>1, QuietKept DEF RelayClaim, RelayCrashes
<1>2. ASSUME NEW j \in Jobs, RelayPublish(k, j) \/ RelayMark(k, j) \/ RelayFails(k, j)
      PROVE  Kept
  <2>1. CASE RelayPublish(k, j)
    BY <2>1, RelayPublishKept DEF RelayPublish
  <2>2. CASE RelayMark(k, j)
    BY <2>2, QuietKept DEF RelayMark
  <2>3. CASE RelayFails(k, j)
    BY <2>3, RelayPublishKept DEF RelayFails
  <2> QED BY <1>2, <2>1, <2>2, <2>3
<1> QED BY <1>1, <1>2 DEF RelayStep

\* Whatever happens keeps the stream in order and is a move for every job.
LEMMA StepsKept ==
  ASSUME StreamInv, [Next]_vars
  PROVE  Kept
<1>1. CASE UNCHANGED vars
  BY <1>1, QuietKept DEF vars, queueVars
<1>2. ASSUME NEW j \in Jobs, Enqueue(j) \/ RelayLeaseLapses(j) \/ RetryPausePasses(j)
      PROVE  Kept
  BY <1>2, QuietKept DEF Enqueue, RelayLeaseLapses, RetryPausePasses
<1>3. ASSUME NEW i \in Seqs, NEW w \in Workers,
             AckWaitPasses(i) \/ PausePasses(i) \/ Redrive(i) \/ Fetch(w, i)
      PROVE  Kept
  BY <1>3, PausesKept, RedriveKept, FetchKept
<1>4. ASSUME NEW i \in Seqs, AckWaitPasses(i) \/ PausePasses(i) \/ Redrive(i)
      PROVE  Kept
  BY <1>4, PausesKept, RedriveKept
<1>5. ASSUME NEW h \in inFlight, HandlerStep(h) \/ AcknowledgeFails(h) \/ LetGo(h)
      PROVE  Kept
  <2>1. CASE Reject(h)
    BY <2>1, BuryKept, PutBackKept
  <2>2. CASE LetGo(h)
    BY <2>2, GoneKept DEF LetGo, End
  <2> QED BY <1>5, <2>1, <2>2, MoveKept, HandlersKept, AcknowledgeKept, AcknowledgeFailsKept
          DEF HandlerStep
<1>6. ASSUME NEW w \in Workers, Crash(w)
      PROVE  Kept
  BY <1>6, GoneKept DEF Crash
<1>7. CASE DeleteDeadLetter
  BY <1>7, DeleteKept
<1>8. CASE RedriveFails
  <2>1. /\ UNCHANGED <<stream, window, inFlight, handled>> /\ redriving' = 0
        /\ stream \in Seq(StoredMessage) /\ Touched(stream, window, stream')
    BY <1>8 DEF RedriveFails, StreamInv, Shapes, Touched
  <2>2. OnlyAt(0) /\ HeldAt(0) /\ inFlight' \subseteq Delivery /\ handled' \subseteq Jobs
    BY <2>1, IdleHands DEF Seqs
  <2> QED BY <2>1, <2>2, TouchKeeps, QuietStep, SameMoved DEF Kept
<1> QED BY <1>1, <1>2, <1>3, <1>4, <1>5, <1>6, <1>7, <1>8, RelaysKept DEF Next

LEMMA StartsSound ==
  ASSUME Init
  PROVE  StreamInv
<1>1. stream = <<>> /\ window = {} /\ inFlight = {} /\ redriving = 0 /\ handled = {}
  BY DEF Init
<1>2. stream \in Seq(StoredMessage) /\ DOMAIN stream = {}
  BY <1>1
<1> QED BY <1>1, <1>2 DEF StreamInv, Shapes, Letters, Chain, Hands

\* The stream stays in order: of a job's messages at most the last is live, and
\* who holds a message holds it alone and knows what became of it (publish,
\* promoteDeferredMessage, reject, redriveDeadLetters).
THEOREM StreamSound == Spec => []StreamInv
<1>1. StreamInv /\ [Next]_vars => StreamInv'
  BY StepsKept DEF Kept
<1> QED BY StartsSound, <1>1, PTL DEF Spec

-----------------------------------------------------------------------------
(* The moves are steps of JobDelivery.                                     *)

LEMMA StartsPromised ==
  ASSUME Init
  PROVE  Promise!Init
<1>1. ASSUME NEW j \in Jobs
      PROVE  Standing(j) = "unpublished" /\ Deliveries(j) = 0 /\ Outcome(j) = "untried"
  <2>1. ReadyMessages(j) = {} /\ handled = {}
    BY DEF Init, ReadyMessages, Seqs
  <2> QED BY <2>1 DEF Standing, Deliveries, Outcome
<1> QED BY <1>1 DEF Promise!Init, Promised

Recorded == Promised \in [Jobs -> Promise!Job]

LEMMA RecordsTyped == StreamInv => Recorded
<1> SUFFICES ASSUME StreamInv, NEW j \in Jobs
             PROVE  Deliveries(j) \in 0 .. MaximumDeliveries
  BY DEF Recorded, Promised, Promise!Job, Standing, Outcome
<1>1. CASE ReadyMessages(j) = {} \/ stream[Current(j)].deferred
  BY <1>1, StreamAssumption DEF Deliveries
<1>2. CASE ~(ReadyMessages(j) = {} \/ stream[Current(j)].deferred)
  <2>1. Current(j) \in Seqs
    BY <1>2, CurrentLatest
  <2>2. stream[Current(j)] \in StoredMessage
    BY <2>1, Sequences DEF StreamInv, Shapes, Seqs
  <2> QED BY <1>2, <2>2 DEF Deliveries, StoredMessage
<1> QED BY <1>1, <1>2

LEMMA MovesAreSteps ==
  ASSUME Recorded', \A j \in Jobs : Moved(j)
  PROVE  Promise!Next
<1>1. ASSUME NEW j \in Jobs
      PROVE  Promise!Move(j) \/ Promised'[j] = Promised[j]
  <2>1. PICK s, d, o, t, e, p :
          /\ Promised[j] = [status |-> s, delivered |-> d, outcome |-> o]
          /\ Promised'[j] = [status |-> t, delivered |-> e, outcome |-> p]
          /\ MovedTo(s, d, o, t, e, p)
    BY DEF Moved, Promised
  <2>2. CASE t = s /\ e = d /\ p = o
    BY <2>1, <2>2
  <2>3. CASE s = "unpublished" /\ t = "pending" /\ e = d /\ p = o
    BY <2>1, <2>3 DEF Promise!Move, Promise!Publish
  <2>4. CASE /\ s = "pending" /\ t = s /\ d < MaximumDeliveries /\ e = d + 1
             /\ p = IF o = "untried" THEN "tried" ELSE o
    BY <2>1, <2>4 DEF Promise!Move, Promise!Deliver
  <2>5. CASE t = s /\ e = d /\ o = "tried" /\ p = "handled"
    BY <2>1, <2>5 DEF Promise!Move, Promise!Handle
  <2>6. CASE s = "pending" /\ o = "handled" /\ t = "done" /\ e = d /\ p = o
    BY <2>1, <2>6 DEF Promise!Move, Promise!Finish
  <2>7. CASE s = "pending" /\ d = MaximumDeliveries /\ t = "dead" /\ e = d /\ p = o
    BY <2>1, <2>7 DEF Promise!Move, Promise!GiveUp
  <2>8. CASE s = "dead" /\ t = "pending" /\ e = 0 /\ p = o
    BY <2>1, <2>8 DEF Promise!Move, Promise!Redrive
  <2> QED BY <2>1, <2>2, <2>3, <2>4, <2>5, <2>6, <2>7, <2>8 DEF MovedTo
<1> QED BY <1>1 DEF Promise!Next, Recorded

\* The Full queue implements JobDelivery (publish, claimFrom, acknowledge, reject,
\* redriveDeadLetters), for any number of jobs, relays, workers, deliveries and
\* disturbances.
THEOREM StreamDelivers == Spec => DeliversAsPromised
<1>1. Init => Promise!Init
  BY StartsPromised
<1>2. StreamInv' => Recorded'
  BY RecordsTyped, PTL
<1>3. StreamInv /\ [Next]_vars => [Promise!Next]_Promised
  BY <1>2, StepsKept, MovesAreSteps DEF Kept
<1> QED BY <1>1, <1>3, StreamSound, PTL DEF Spec, DeliversAsPromised, Promise!Spec

-----------------------------------------------------------------------------
(* Rows are claimed no more often than disturbances and one claim explain. *)

RelayTypes == relay \in [Relays -> [batch: SUBSET Jobs, stored: SUBSET Jobs]]

\* Something went wrong that had not before, or nothing else did.
Later == disturbances' \in disturbances .. MaxDisturbances

\* A row stays sound while its relay keeps it, and always when a disturbance is counted.
LEMMA RowStays ==
  ASSUME OutboxSound, Later, NEW i \in Jobs, outbox'[i] = outbox[i],
         \/ \A k \in Relays : i \in relay[k].batch => i \in relay'[k].batch
         \/ disturbances' > disturbances
  PROVE  RowSound(i)'
<1>1. /\ RowSound(i) /\ outbox[i] \in Row
      /\ disturbances \in Nat /\ disturbances' \in Nat /\ disturbances' >= disturbances
  BY StreamAssumption DEF OutboxSound, Later
<1>2. outbox[i].attempts \in Nat
  BY <1>1, StreamAssumption DEF Row
<1>3. CASE \A k \in Relays : i \in relay[k].batch => i \in relay'[k].batch
  BY <1>1, <1>2, <1>3 DEF RowSound, Row
<1>4. CASE disturbances' > disturbances
  BY <1>1, <1>2, <1>4 DEF RowSound
<1> QED BY <1>3, <1>4

LEMMA RowsStay ==
  ASSUME OutboxSound, Later, UNCHANGED outbox, RelayTypes',
         \/ \A k \in Relays : relay[k].batch \subseteq relay'[k].batch
         \/ disturbances' > disturbances
  PROVE  OutboxSound'
<1>1. \A i \in Jobs : RowSound(i)'
  BY RowStays
<1> QED BY <1>1, StreamAssumption DEF OutboxSound, Later, RelayTypes

\* One row is written; a relay may leave it.
LEMMA RowSet ==
  ASSUME OutboxSound, Later, RelayTypes', NEW j \in Jobs, NEW r, outbox' = [outbox EXCEPT ![j] = r],
         \A k \in Relays : relay[k].batch \ {j} \subseteq relay'[k].batch,
         r \in Row, RowSound(j)'
  PROVE  OutboxSound'
<1>1. outbox \in [Jobs -> Row] /\ outbox' \in [Jobs -> Row] /\ \A i \in Jobs : i # j => outbox'[i] = outbox[i]
  BY DEF OutboxSound
<1>2. \A i \in Jobs : i # j => RowSound(i)'
  BY <1>1, RowStays
<1> QED BY <1>1, <1>2, StreamAssumption DEF OutboxSound, Later, RelayTypes

LEMMA RowWritesSound ==
  ASSUME OutboxSound, NEW j \in Jobs, Enqueue(j) \/ RelayLeaseLapses(j) \/ RetryPausePasses(j)
  PROVE  OutboxSound'
<1>1. /\ RowSound(j) /\ outbox[j] \in Row /\ outbox \in [Jobs -> Row]
      /\ disturbances \in 0 .. MaxDisturbances /\ outbox[j].attempts \in Nat /\ MaxDisturbances \in Nat
  BY StreamAssumption DEF OutboxSound, Row
<1>2. UNCHANGED relay /\ RelayTypes'
  BY DEF Enqueue, RelayLeaseLapses, RetryPausePasses, OutboxSound, RelayTypes
<1>3. CASE Enqueue(j)
  <2> DEFINE r == [outbox[j] EXCEPT !.status = "waiting", !.due = TRUE]
  <2>1. outbox' = [outbox EXCEPT ![j] = r] /\ Later
    BY <1>1, <1>3 DEF Enqueue, Later
  <2>2. r \in Row /\ r.attempts = 0
    BY <1>1, <1>3 DEF Row, RowSound, Enqueue
  <2>3. outbox'[j] = r
    BY <1>1, <2>1
  <2> HIDE DEF r
  <2>4. RowSound(j)'
    BY <1>1, <2>1, <2>2, <2>3, <1>3 DEF RowSound, Later, Enqueue, r
  <2> QED BY <1>2, <2>1, <2>2, <2>4, RowSet
<1>4. CASE RetryPausePasses(j)
  <2> DEFINE r == [outbox[j] EXCEPT !.due = TRUE]
  <2>1. outbox' = [outbox EXCEPT ![j] = r] /\ Later
    BY <1>1, <1>4 DEF RetryPausePasses, Later
  <2>2. /\ r \in Row /\ r.attempts = outbox[j].attempts /\ r.status = outbox[j].status
        /\ r.owner = outbox[j].owner /\ r.lapsed = outbox[j].lapsed
    BY <1>1 DEF Row
  <2>3. outbox'[j] = r /\ UNCHANGED disturbances
    BY <1>1, <2>1, <1>4 DEF RetryPausePasses
  <2> HIDE DEF r
  <2>4. RowSound(j)'
    BY <1>1, <1>2, <2>2, <2>3 DEF RowSound
  <2> QED BY <1>2, <2>1, <2>2, <2>4, RowSet
<1>5. CASE RelayLeaseLapses(j)
  <2> DEFINE r == [outbox[j] EXCEPT !.lapsed = TRUE]
  <2>1. outbox' = [outbox EXCEPT ![j] = r] /\ Later
    BY <1>1, <1>5 DEF RelayLeaseLapses, Later, Disturb
  <2>2. /\ r \in Row /\ r.attempts = outbox[j].attempts /\ r.status = "waiting"
    BY <1>1, <1>5 DEF Row, RelayLeaseLapses
  <2>3. outbox'[j] = r /\ disturbances' \in Nat
    BY <1>1, <2>1 DEF Later
  <2>4. r.attempts <= disturbances'
    <3>1. CASE j \in relay[outbox[j].owner].batch
      BY <1>1, <2>2, <3>1, <1>5 DEF RelayLeaseLapses, Disturb, RowSound
    <3>2. CASE j \notin relay[outbox[j].owner].batch
      BY <1>1, <2>2, <3>2, <1>5 DEF RelayLeaseLapses, RowSound
    <3> QED BY <3>1, <3>2
  <2> HIDE DEF r
  <2>5. RowSound(j)'
    BY <1>1, <2>2, <2>3, <2>4 DEF RowSound
  <2> QED BY <1>2, <2>1, <2>2, <2>5, RowSet
<1> QED BY <1>3, <1>4, <1>5

LEMMA ClaimSound ==
  ASSUME OutboxSound, NEW k \in Relays, RelayClaim(k)
  PROVE  OutboxSound'
<1> DEFINE rows == {j \in Jobs : ClaimableRow(outbox[j])}
<1>1. /\ outbox' = [j \in Jobs |->
                      IF j \in rows
                      THEN [outbox[j] EXCEPT !.owner = k, !.lapsed = FALSE, !.attempts = @ + 1]
                      ELSE outbox[j]]
      /\ relay' = [relay EXCEPT ![k] = [batch |-> rows, stored |-> {}]]
      /\ relay[k].batch = {} /\ UNCHANGED disturbances
  BY DEF RelayClaim
<1>2. /\ outbox \in [Jobs -> Row] /\ MaxDisturbances \in Nat
      /\ disturbances \in 0 .. MaxDisturbances /\ Later
      /\ relay \in [Relays -> [batch: SUBSET Jobs, stored: SUBSET Jobs]]
  <2> HIDE DEF rows
  <2>1. MaxDisturbances \in Nat /\ disturbances \in 0 .. MaxDisturbances
    BY StreamAssumption DEF OutboxSound
  <2>2. UNCHANGED disturbances
    BY <1>1
  <2> QED BY <2>1, <2>2 DEF OutboxSound, Later
<1>3. rows \subseteq Jobs
  OBVIOUS
<1>4. ASSUME NEW j \in rows
      PROVE  ClaimableRow(outbox[j])
  OBVIOUS
<1> HIDE DEF rows
<1>5. /\ relay' \in [Relays -> [batch: SUBSET Jobs, stored: SUBSET Jobs]]
      /\ relay'[k].batch = rows /\ \A l \in Relays : l # k => relay'[l] = relay[l]
  BY <1>1, <1>2, <1>3
<1>6. ASSUME NEW j \in Jobs, j \in rows
      PROVE  RowSound(j)'
  <2> DEFINE r == [outbox[j] EXCEPT !.owner = k, !.lapsed = FALSE, !.attempts = @ + 1]
  <2>1. outbox'[j] = r
    BY <1>1, <1>6
  <2>2. outbox[j] \in Row /\ outbox[j].status = "waiting" /\ outbox[j].attempts <= disturbances
    BY <1>2, <1>4, <1>6 DEF OutboxSound, RowSound, ClaimableRow
  <2>3. outbox[j].attempts \in Nat /\ outbox[j].attempts + 1 \in 0 .. MaxDisturbances + 1
    BY <1>2, <2>2 DEF Row
  <2>4. /\ r \in Row /\ r.owner = k /\ ~r.lapsed /\ r.status = "waiting"
        /\ r.attempts = outbox[j].attempts + 1
    BY <2>2, <2>3 DEF Row
  <2> HIDE DEF r
  <2>5. r.attempts <= disturbances + 1 /\ k # "none" /\ j \in relay'[k].batch
    BY <1>2, <1>5, <1>6, <2>2, <2>3, <2>4, StreamAssumption
  <2> QED BY <1>1, <2>1, <2>4, <2>5 DEF RowSound
<1>7. ASSUME NEW j \in Jobs, j \notin rows
      PROVE  RowSound(j)'
  BY <1>1, <1>2, <1>5, <1>7, RowStays
<1>8. outbox' \in [Jobs -> Row]
  <2>1. \A j \in Jobs : outbox'[j] \in Row
    BY <1>6, <1>7 DEF RowSound
  <2> QED BY <1>1, <2>1
<1> QED BY <1>1, <1>2, <1>5, <1>6, <1>7, <1>8 DEF OutboxSound

\* A relay that leaves a row: the others of its batch stay.
LEMMA Left ==
  ASSUME OutboxSound, NEW k \in Relays, NEW j \in Jobs, Leave(k, j)
  PROVE  RelayTypes' /\ \A l \in Relays : relay[l].batch \ {j} \subseteq relay'[l].batch
<1>1. relay \in [Relays -> [batch: SUBSET Jobs, stored: SUBSET Jobs]]
  BY DEF OutboxSound
<1>2. relay' = [relay EXCEPT ![k] = [batch |-> relay[k].batch \ {j}, stored |-> {}]]
  BY <1>1 DEF Leave
<1> QED BY <1>1, <1>2 DEF RelayTypes

LEMMA MarkSound ==
  ASSUME OutboxSound, NEW k \in Relays, NEW j \in Jobs, RelayMark(k, j)
  PROVE  OutboxSound'
<1>1. /\ RowSound(j) /\ outbox[j] \in Row /\ outbox \in [Jobs -> Row] /\ Later
      /\ disturbances \in Nat /\ outbox[j].attempts \in Nat
  BY StreamAssumption DEF OutboxSound, Row, Later, RelayMark
<1>2. RelayTypes' /\ \A l \in Relays : relay[l].batch \ {j} \subseteq relay'[l].batch
  BY Left DEF RelayMark
<1> DEFINE r == [outbox[j] EXCEPT !.status = "published", !.owner = "none", !.lapsed = FALSE]
<1>3. CASE OwnedBy(k, j)
  <2>1. outbox' = [outbox EXCEPT ![j] = r] /\ UNCHANGED disturbances
    BY <1>1, <1>3 DEF RelayMark
  <2>2. /\ r \in Row /\ r.attempts = outbox[j].attempts /\ r.status = "published" /\ r.owner = "none"
    BY <1>1 DEF Row
  <2>3. outbox'[j] = r
    BY <1>1, <2>1
  <2> HIDE DEF r
  <2>4. RowSound(j)'
    BY <1>1, <2>1, <2>2, <2>3 DEF RowSound
  <2> QED BY <1>1, <1>2, <2>1, <2>2, <2>4, RowSet
<1>4. CASE ~OwnedBy(k, j)
  <2>1. outbox' = outbox /\ UNCHANGED disturbances
    BY <1>1, <1>4 DEF RelayMark
  <2>2. \A l \in Relays : l # k => relay'[l] = relay[l]
    BY DEF RelayMark, Leave, OutboxSound
  <2>3. RowSound(j)'
    BY <1>1, <1>4, <2>1, <2>2 DEF RowSound, OwnedBy, Row
  <2>4. outbox' = [outbox EXCEPT ![j] = outbox[j]]
    BY <1>1, <2>1
  <2> QED BY <1>1, <1>2, <2>3, <2>4, RowSet
<1> QED BY <1>3, <1>4

LEMMA RelayFailsSound ==
  ASSUME OutboxSound, NEW k \in Relays, NEW j \in Jobs, RelayFails(k, j)
  PROVE  OutboxSound'
<1>1. /\ RowSound(j) /\ outbox[j] \in Row /\ outbox \in [Jobs -> Row]
      /\ disturbances \in Nat /\ outbox[j].attempts \in Nat
  BY StreamAssumption DEF OutboxSound, Row
<1>2. disturbances' = disturbances + 1 /\ Later
  BY <1>1, StreamAssumption DEF OutboxSound, Later, RelayFails, Disturb
<1>3. RelayTypes' /\ \A l \in Relays : relay[l].batch \ {j} \subseteq relay'[l].batch
  BY Left DEF RelayFails
<1>4. CASE OwnedBy(k, j)
  <2>1. PICK b \in {"failed", "waiting"} :
          outbox' = [outbox EXCEPT ![j] = [outbox[j] EXCEPT !.owner = "none", !.lapsed = FALSE,
                                                           !.due = FALSE, !.status = b]]
    BY <1>1, <1>4 DEF RelayFails
  <2> DEFINE r == [outbox[j] EXCEPT !.owner = "none", !.lapsed = FALSE, !.due = FALSE, !.status = b]
  <2>2. /\ r \in Row /\ r.attempts = outbox[j].attempts /\ r.status = b /\ r.owner = "none"
    BY <1>1 DEF Row
  <2>3. outbox'[j] = r /\ outbox' = [outbox EXCEPT ![j] = r]
    BY <1>1, <2>1
  <2> HIDE DEF r
  <2>4. RowSound(j)'
    BY <1>1, <1>2, <2>2, <2>3 DEF RowSound
  <2> QED BY <1>2, <1>3, <2>2, <2>3, <2>4, RowSet
<1>5. CASE ~OwnedBy(k, j)
  <2>1. outbox' = outbox
    BY <1>1, <1>5 DEF RelayFails
  <2> QED BY <1>1, <1>2, <1>3, <2>1, RowsStay
<1> QED BY <1>4, <1>5

LEMMA OutboxKept ==
  ASSUME OutboxSound, [Next]_vars
  PROVE  OutboxSound'
<1>0. /\ disturbances \in 0 .. MaxDisturbances /\ MaxDisturbances \in Nat
      /\ relay \in [Relays -> [batch: SUBSET Jobs, stored: SUBSET Jobs]] /\ RelayTypes
  BY StreamAssumption DEF OutboxSound, RelayTypes
<1>1. ASSUME UNCHANGED relayVars, Disturb \/ UNCHANGED disturbances
      PROVE  OutboxSound'
  <2>1. Later /\ RelayTypes'
    BY <1>0, <1>1 DEF Later, Disturb, relayVars, RelayTypes
  <2> QED BY <1>1, <2>1, RowsStay DEF relayVars
<1>2. CASE UNCHANGED vars
  BY <1>1, <1>2 DEF vars, relayVars
<1>3. ASSUME NEW j \in Jobs, Enqueue(j) \/ RelayLeaseLapses(j) \/ RetryPausePasses(j)
      PROVE  OutboxSound'
  BY <1>3, RowWritesSound
<1>4. ASSUME NEW k \in Relays, NEW j \in Jobs, RelayPublish(k, j)
      PROVE  OutboxSound'
  <2>1. relay' = [relay EXCEPT ![k] = [batch |-> relay[k].batch, stored |-> {j}]]
    <3>1. relay[k] \in [batch: SUBSET Jobs, stored: SUBSET Jobs]
      BY <1>0
    <3>2. [relay[k] EXCEPT !.stored = {j}] = [batch |-> relay[k].batch, stored |-> {j}]
      BY <3>1
    <3>3. relay' = [relay EXCEPT ![k] = [relay[k] EXCEPT !.stored = {j}]]
      BY <1>4 DEF RelayPublish
    <3> QED BY <3>2, <3>3
  <2>2. UNCHANGED <<outbox, disturbances>> /\ Later
    BY <1>0, <1>4 DEF RelayPublish, Later
  <2>3. RelayTypes' /\ \A l \in Relays : relay[l].batch \subseteq relay'[l].batch
    BY <1>0, <2>1 DEF RelayTypes
  <2> QED BY <2>2, <2>3, RowsStay
<1>5. ASSUME NEW k \in Relays, RelayCrashes(k)
      PROVE  OutboxSound'
  <2>1. UNCHANGED outbox /\ disturbances' = disturbances + 1 /\ Later
    BY <1>0, <1>5 DEF RelayCrashes, Disturb, Later
  <2>2. RelayTypes'
    BY <1>0, <1>5 DEF RelayCrashes, RelayTypes, Idle
  <2> QED BY <1>0, <2>1, <2>2, RowsStay
<1>6. ASSUME NEW i \in Seqs, AckWaitPasses(i) \/ PausePasses(i) \/ Redrive(i)
                             \/ \E w \in Workers : Fetch(w, i)
      PROVE  OutboxSound'
  BY <1>1, <1>6 DEF AckWaitPasses, PausePasses, Redrive, Fetch
<1>7. ASSUME NEW h \in inFlight, HandlerStep(h) \/ AcknowledgeFails(h) \/ LetGo(h)
      PROVE  OutboxSound'
  BY <1>1, <1>7 DEF HandlerStep, AcknowledgeFails, LetGo, Move, Succeed, HandlerFails, Acknowledge,
                    Reject
<1>8. ASSUME NEW w \in Workers, Crash(w)
      PROVE  OutboxSound'
  BY <1>1, <1>8 DEF Crash
<1>9. CASE DeleteDeadLetter \/ RedriveFails
  BY <1>1, <1>9 DEF DeleteDeadLetter, RedriveFails
<1> QED BY <1>2, <1>3, <1>4, <1>5, <1>6, <1>7, <1>8, <1>9, ClaimSound, MarkSound, RelayFailsSound
        DEF Next, RelayStep

LEMMA OutboxStarts ==
  ASSUME Init
  PROVE  OutboxSound
<1>1. NotEnqueued \in Row /\ NotEnqueued.attempts = 0 /\ NotEnqueued.status = "absent"
      /\ NotEnqueued.owner = "none"
  BY StreamAssumption DEF NotEnqueued, Row
<1>2. outbox = [j \in Jobs |-> NotEnqueued] /\ disturbances = 0
      /\ relay \in [Relays -> [batch: SUBSET Jobs, stored: SUBSET Jobs]]
  BY DEF Init, Idle
<1> HIDE DEF NotEnqueued
<1> QED BY <1>1, <1>2, StreamAssumption DEF OutboxSound, RowSound

-----------------------------------------------------------------------------
(* One message of a job to be handled, in one worker's hands.              *)

LEMMA AtMostOne ==
  ASSUME NEW S, \A a, b \in S : a = b
  PROVE  Cardinality(S) <= 1
<1>1. CASE S = {}
  BY <1>1, FS_EmptySet
<1>2. CASE S # {}
  <2>1. PICK a \in S : S = {a}
    BY <1>2
  <2> QED BY <2>1, FS_Singleton
<1> QED BY <1>1, <1>2

\* What is published twice by relays that overtake each other, moved twice or
\* redriven twice leaves one message of a job to be handled, in one worker's
\* hands (publish, promoteDeferredMessage, redriveDeadLetters).
THEOREM OneMessage == Spec => []OneMessagePerJob
<1>1. StreamInv /\ OutboxSound => OneMessagePerJob
  <2> SUFFICES ASSUME StreamInv, OutboxSound
               PROVE  OneMessagePerJob
    OBVIOUS
  <2>1. ASSUME NEW j \in Jobs
        PROVE  Cardinality({i \in Seqs : stream[i].job = j /\ Handleable(i)}) <= 1
    <3>1. ASSUME NEW i \in Seqs, stream[i].job = j, Handleable(i)
          PROVE  i = Current(j)
      BY <3>1, LiveIsCurrent DEF Handleable, IsReady, Spent
    <3> QED BY <3>1, AtMostOne
  <2>2. ASSUME NEW i \in Seqs
        PROVE  Cardinality(Holders(i)) <= 1
    <3>1. \A g, h \in Holders(i) : g = h
      BY Held DEF Holders, Alone
    <3> QED BY <3>1, AtMostOne
  <2> QED BY <2>1, <2>2 DEF OneMessagePerJob, StreamInv, Shapes, OutboxSound
<1>2. Init => OutboxSound
  BY OutboxStarts
<1>3. OutboxSound /\ [Next]_vars => OutboxSound'
  BY OutboxKept
<1> QED BY <1>1, <1>2, <1>3, StreamSound, PTL DEF Spec
=================================================================================
