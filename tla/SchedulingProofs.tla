--------------------------- MODULE SchedulingProofs ---------------------------
(***************************************************************************)
(* Proofs about the scheduling passes of one batch, for any number of      *)
(* schedulers, changes, rules, rounds and failures.  The argument is about *)
(* figures: a figure (r, i) says that rule i is recorded for round r, or   *)
(* that some pass is about to record it.  A figure is born only with the   *)
(* round and the rule of the batch at that moment, and both only grow.     *)
(***************************************************************************)
EXTENDS Scheduling, TLAPS, WellFoundedInduction

Rounds == 1 .. MaxRound

RuleNumbers == 0 .. Rules

\* A pass that is going to record its decision.
Pending(s) == pass[s].at = "activated" \/ (pass[s].at = "read" /\ ~pass[s].transition)

Figure(r, i) ==
  \/ record[r] = i
  \/ \E s \in Schedulers : Pending(s) /\ pass[s].round = r /\ pass[s].decision = i

Passes ==
  [at : {"none", "begun", "read", "activated", "done"}, round : 0 .. MaxRound,
   rule : RuleNumbers, decision : RuleNumbers, transition : BOOLEAN]

SchedulingTypeOK ==
  /\ batch \in [round : Rounds, rule : RuleNumbers, since : 0 .. MaxRound]
  /\ record \in [Rounds -> Unrecorded .. Rules]
  /\ entry \in [Schedulers -> [state : {"absent", "running", "settled", "failed"}, again : BOOLEAN]]
  /\ pass \in [Schedulers -> Passes]
  /\ failures \in Nat

\* The round of the activation; no pass without an entry.
StateSound ==
  /\ batch.since <= batch.round
  /\ batch.rule = Base <=> batch.since = 0

EntriesSound == \A s \in Schedulers : entry[s].state # "running" => pass[s].at = "none"

\* A transition that may still be activated was read before the one of this round.
DecisionsSound ==
  \A s \in Schedulers :
    /\ pass[s].at \in {"read", "activated"} => pass[s].round \in 1 .. batch.round
    /\ pass[s].at = "activated" => pass[s].transition
    /\ pass[s].at = "read" /\ pass[s].transition =>
         /\ pass[s].rule < pass[s].decision
         /\ pass[s].round = batch.round =>
              \/ batch.since = batch.round
              \/ pass[s].rule = batch.rule /\ batch.since < batch.round

\* Figures lie behind the batch and in order.
FiguresSound ==
  \A q, r \in Rounds, i, j \in RuleNumbers :
    /\ Figure(q, i) => q <= batch.round /\ i <= batch.rule
    /\ Figure(q, i) /\ Figure(r, j) /\ q < r => i <= j

\* An activation is the last word about its round.
ActivationsStand ==
  \A s \in Schedulers, r \in Rounds : pass[s].at = "activated" /\ pass[s].round = r =>
    /\ r <= batch.since
    /\ r = batch.since => pass[s].decision = batch.rule
    /\ \A i \in RuleNumbers : Figure(r, i) => i <= pass[s].decision

\* Without failures whoever activates a rule records it.
ActivationRecorded ==
  failures = 0 /\ batch.rule # Base =>
    \/ record[batch.since] = batch.rule
    \/ \E s \in Schedulers : pass[s].at = "activated" /\ pass[s].round = batch.since

SchedulingInv ==
  /\ SchedulingTypeOK /\ StateSound /\ EntriesSound /\ DecisionsSound
  /\ FiguresSound /\ ActivationsStand /\ ActivationRecorded

-----------------------------------------------------------------------------
(* Steps. *)

LEMMA MinOfRules ==
  ASSUME NEW S \in SUBSET (1 .. Rules), S # {}
  PROVE  Min(S) \in S
<1>1. \A k \in S : k \in Nat
  BY SchedulingAssumption
<1>2. PICK first \in S : \A k \in S : ~ (<<k, first>> \in OpToRel(<, Nat))
  <2>1. S \subseteq Nat
    BY <1>1
  <2> QED BY <2>1, NatLessThanWellFounded, WFMin, Zenon
<1>3. ASSUME NEW k \in S
      PROVE  first <= k
  <2>1. k \in Nat /\ first \in Nat
    BY <1>1
  <2>2. <<k, first>> \in Nat \X Nat /\ <<k, first>>[1] = k /\ <<k, first>>[2] = first
    BY <2>1
  <2>3. ~ (k < first)
    BY <1>2, <2>2, Zenon DEF OpToRel
  <2> QED BY <2>1, <2>3
<1> QED BY <1>3 DEF Min

\* Steps that leave the batch and its records alone and start no decision: an
\* activated pass disappears only by a failure.
Quiet ==
  /\ UNCHANGED <<batch, record>>
  /\ failures' \in {failures, failures + 1}
  /\ \A s \in Schedulers :
       \/ pass'[s] = pass[s]
       \/ /\ pass'[s].at \notin {"read", "activated"}
          /\ pass[s].at = "activated" => failures' # failures

\* The decision of a snapshot.
ReadsAs(s) ==
  /\ UNCHANGED <<batch, record, failures>>
  /\ pass[s].at = "begun" /\ pass'[s].at = "read"
  /\ pass'[s].round = batch.round /\ pass'[s].rule = batch.rule
  /\ IF pass'[s].transition
       THEN batch.rule < pass'[s].decision /\ (batch.rule = Base \/ batch.since # batch.round)
       ELSE pass'[s].decision = batch.rule
  /\ \A t \in Schedulers \ {s} : pass'[t] = pass[t]

\* What a pass reads is a decision of the rules, forward from the active one.
LEMMA ReadsDecide ==
  ASSUME SchedulingTypeOK, StateSound, NEW s \in Schedulers,
         NEW matching \in SUBSET (1 .. Rules), ReadSnapshot(s, matching)
  PROVE  pass' \in [Schedulers -> Passes] /\ ReadsAs(s)
<1> DEFINE matched == Eligible(batch, matching)
           decided == IF matched = {} THEN batch.rule ELSE Min(matched)
<1>1. /\ matched \in SUBSET (1 .. Rules)
      /\ \A i \in matched : i > batch.rule
      /\ matched # {} => ~ (batch.rule # Base /\ batch.since = batch.round)
  BY DEF Eligible
<1>2. matched # {} => Min(matched) \in matched
  BY <1>1, MinOfRules
<1>3. /\ decided \in RuleNumbers
      /\ matched # {} => batch.rule < decided
      /\ matched = {} => decided = batch.rule
  BY <1>1, <1>2, SchedulingAssumption DEF SchedulingTypeOK, RuleNumbers
<1>4. pass' = [pass EXCEPT ![s] =
           [at |-> "read", round |-> batch.round, rule |-> batch.rule,
            decision |-> decided, transition |-> matched # {}]]
  BY DEF ReadSnapshot
<1>5. pass[s].at = "begun" /\ UNCHANGED <<batch, record, failures>>
  BY DEF ReadSnapshot
<1> HIDE DEF matched, decided
<1>6. (matched # {}) \in BOOLEAN
  OBVIOUS
<1>7. pass'[s].at = "read" /\ pass'[s].round = batch.round /\ pass'[s].rule = batch.rule
      /\ pass'[s].decision = decided /\ (pass'[s].transition <=> matched # {})
  BY <1>4 DEF SchedulingTypeOK, Passes
<1>8. \A t \in Schedulers \ {s} : pass'[t] = pass[t]
  BY <1>4 DEF SchedulingTypeOK
<1>9. ReadsAs(s)
  BY <1>1, <1>3, <1>5, <1>7, <1>8 DEF ReadsAs
<1>10. [at |-> "read", round |-> batch.round, rule |-> batch.rule,
        decision |-> decided, transition |-> matched # {}]
       \in Passes
  BY <1>3, <1>6, SchedulingAssumption DEF SchedulingTypeOK, Rounds, Passes
<1> QED BY <1>4, <1>9, <1>10 DEF SchedulingTypeOK

LEMMA BegunTyped ==
  /\ NoPass \in Passes /\ NoPass.at = "none"
  /\ Begun \in Passes /\ Begun.at = "begun"
<1>1. 0 \in RuleNumbers /\ 0 \in 0 .. MaxRound
  BY SchedulingAssumption DEF RuleNumbers
<1>2. NoPass \in Passes
  BY <1>1, Zenon DEF NoPass, Passes, Base
<1>3. NoPass.at = "none"
  BY Zenon DEF NoPass
<1> QED BY <1>2, <1>3 DEF Begun, Passes

\* A request either starts a pass where there was none or leaves the passes alone.
LEMMA RequestQuiet ==
  ASSUME SchedulingTypeOK, EntriesSound, NEW s \in Schedulers, Request(s),
         UNCHANGED <<batch, record, failures>>
  PROVE  SchedulingTypeOK' /\ EntriesSound' /\ Quiet
<1>1. CASE entry[s].state = "absent"
  <2>1. pass[s].at = "none"
    BY <1>1 DEF EntriesSound
  <2>2. Begun \in Passes /\ Begun.at = "begun"
    BY BegunTyped
  <2>3. pass' = [pass EXCEPT ![s] = Begun]
    BY <1>1 DEF Request
  <2>4. entry' = [entry EXCEPT ![s] = [state |-> "running", again |-> FALSE]]
    BY <1>1 DEF Request
  <2>5. SchedulingTypeOK'
    BY <2>2, <2>3, <2>4 DEF SchedulingTypeOK
  <2>6. \A t \in Schedulers : pass'[t] = pass[t] \/ (t = s /\ pass'[t].at = "begun")
    BY <2>2, <2>3 DEF SchedulingTypeOK
  <2>7. \A t \in Schedulers : (entry'[t] = entry[t] /\ pass'[t] = pass[t]) \/ entry'[t].state = "running"
    BY <2>3, <2>4 DEF SchedulingTypeOK
  <2> QED BY <2>1, <2>5, <2>6, <2>7 DEF Quiet, EntriesSound
<1>2. CASE entry[s].state # "absent"
  <2>1. entry' = [entry EXCEPT ![s].again = (entry[s].state = "running")] /\ UNCHANGED pass
    BY <1>2 DEF Request
  <2>2. \A t \in Schedulers : entry'[t].state = entry[t].state
    BY <2>1 DEF SchedulingTypeOK
  <2> QED BY <2>1, <2>2 DEF SchedulingTypeOK, Quiet, EntriesSound
<1> QED BY <1>1, <1>2

\* Activating makes the pass the bearer of the batch's rule, in the batch's round.
ActivatesAs(s) ==
  /\ UNCHANGED <<record, failures>>
  /\ pass[s].at = "read" /\ pass[s].transition /\ pass[s].round = batch.round
  /\ pass'[s].at = "activated" /\ pass'[s].transition /\ pass'[s].round = batch.round
  /\ pass'[s].decision = batch'.rule /\ batch'.rule # Base
  /\ batch'.round = batch.round /\ batch'.since = batch.round
  /\ batch' = batch \/ (batch.rule < batch'.rule /\ batch.since < batch.round)
  /\ \A t \in Schedulers \ {s} : pass'[t] = pass[t]

\* A stale decision is dropped; one that lost to another takes that one's rule.
LEMMA ActivationActs ==
  ASSUME SchedulingTypeOK, StateSound, DecisionsSound, NEW s \in Schedulers,
         ActivateRetryConcurrency(s)
  PROVE  SchedulingTypeOK' /\ (Quiet \/ ActivatesAs(s))
<1> DEFINE p == pass[s]
           activation == Activation(p)
<1>1. /\ p \in Passes /\ p.at = "read" /\ p.transition /\ UNCHANGED <<record, entry, failures>>
      /\ batch' = IF activation = "activate"
                    THEN [batch EXCEPT !.rule = p.decision, !.since = p.round] ELSE batch
      /\ pass' = [pass EXCEPT
           ![s].at = IF activation = "stale" THEN "done" ELSE "activated",
           ![s].decision = IF activation = "unchanged" THEN batch.rule ELSE @]
  BY DEF ActivateRetryConcurrency, SchedulingTypeOK
<1>2. /\ p.rule < p.decision /\ p.round \in 1 .. batch.round
      /\ p.round = batch.round =>
           batch.since = batch.round \/ (p.rule = batch.rule /\ batch.since < batch.round)
  BY <1>1 DEF DecisionsSound
<1>3. /\ batch.round \in Rounds /\ batch.rule \in RuleNumbers /\ batch.since \in 0 .. MaxRound
      /\ p.rule \in RuleNumbers /\ p.decision \in RuleNumbers /\ p.round \in 0 .. MaxRound
      /\ Rules \in Nat /\ MaxRound \in Nat
  BY <1>1, SchedulingAssumption DEF SchedulingTypeOK, Passes
<1>4. activation \in {"stale", "unchanged", "activate"}
  BY DEF Activation
<1>5. activation # "stale" => p.round = batch.round
  BY DEF Activation
<1>6. activation = "unchanged" => batch.since = batch.round /\ batch.rule # Base
  BY <1>2, <1>3 DEF Activation, StateSound, Base, Rounds, RuleNumbers
<1>7. activation = "activate" => batch.rule < p.decision /\ batch.since < p.round
  BY <1>2, <1>3, <1>5 DEF Activation, StateSound, Base, Rounds, RuleNumbers
<1> HIDE DEF activation
<1>8. /\ \A t \in Schedulers \ {s} : pass'[t] = pass[t]
      /\ pass'[s].at = IF activation = "stale" THEN "done" ELSE "activated"
      /\ pass'[s].round = p.round /\ pass'[s].transition
      /\ pass'[s].decision = IF activation = "unchanged" THEN batch.rule ELSE p.decision
  BY <1>1 DEF SchedulingTypeOK, Passes
<1>9. SchedulingTypeOK'
  <2>1. batch' \in [round : Rounds, rule : RuleNumbers, since : 0 .. MaxRound]
    BY <1>1, <1>3 DEF SchedulingTypeOK
  <2>2. pass' \in [Schedulers -> Passes]
    BY <1>1, <1>3 DEF SchedulingTypeOK, Passes
  <2> QED BY <1>1, <2>1, <2>2 DEF SchedulingTypeOK
<1>10. CASE activation = "stale"
  BY <1>1, <1>8, <1>9, <1>10 DEF Quiet, SchedulingTypeOK
<1>11. CASE activation = "unchanged"
  BY <1>1, <1>5, <1>6, <1>8, <1>9, <1>11 DEF ActivatesAs
<1>12. CASE activation = "activate"
  <2>1. batch'.rule = p.decision /\ batch'.since = p.round /\ batch'.round = batch.round
    BY <1>1, <1>12 DEF SchedulingTypeOK
  <2>2. batch'.rule # Base
    BY <1>3, <1>7, <1>12, <2>1 DEF Base, RuleNumbers
  <2> QED BY <1>1, <1>5, <1>7, <1>8, <1>9, <1>12, <2>1, <2>2 DEF ActivatesAs
<1> QED BY <1>4, <1>10, <1>11, <1>12

\* A figure that was pending is on record, or would have been if none had been there.
RecordsAs(s) ==
  /\ UNCHANGED <<batch, failures>>
  /\ Pending(s) /\ pass'[s].at = "done"
  /\ \A t \in Schedulers \ {s} : pass'[t] = pass[t]
  /\ \A r \in Rounds : record'[r] # record[r] =>
       /\ r = pass[s].round /\ record'[r] = pass[s].decision
       /\ pass[s].at = "activated" \/ record[r] = Unrecorded
  /\ pass[s].at = "activated" => record'[pass[s].round] = pass[s].decision

LEMMA RecordingRecords ==
  ASSUME SchedulingTypeOK, DecisionsSound, NEW s \in Schedulers, RecordRoundConcurrency(s)
  PROVE  SchedulingTypeOK' /\ RecordsAs(s)
<1> DEFINE p == pass[s]
<1>1. /\ p \in Passes /\ UNCHANGED <<batch, entry, failures>>
      /\ p.at = IF p.transition THEN "activated" ELSE "read"
      /\ record' = IF record[p.round] = Unrecorded \/ p.transition
                     THEN [record EXCEPT ![p.round] = p.decision] ELSE record
      /\ pass' = [pass EXCEPT ![s].at = "done"]
  BY DEF RecordRoundConcurrency, SchedulingTypeOK
<1>2. p.round \in Rounds
  BY <1>1, SchedulingAssumption DEF DecisionsSound, SchedulingTypeOK, Rounds
<1>3. p.decision \in Unrecorded .. Rules
  BY <1>1, SchedulingAssumption DEF Passes, RuleNumbers, Unrecorded
<1>4. pass' \in [Schedulers -> Passes] /\ pass'[s].at = "done"
      /\ \A t \in Schedulers \ {s} : pass'[t] = pass[t]
  BY <1>1 DEF SchedulingTypeOK, Passes
<1>5. SchedulingTypeOK'
  BY <1>1, <1>3, <1>4 DEF SchedulingTypeOK
<1>6. Pending(s)
  BY <1>1 DEF Pending
<1>7. \A r \in Rounds : record'[r] # record[r] =>
        /\ r = p.round /\ record'[r] = p.decision
        /\ p.at = "activated" \/ record[r] = Unrecorded
  BY <1>1 DEF SchedulingTypeOK
<1>8. p.at = "activated" => record'[p.round] = p.decision
  BY <1>1, <1>2 DEF SchedulingTypeOK
<1> QED BY <1>1, <1>4, <1>5, <1>6, <1>7, <1>8 DEF RecordsAs

AdvancesAs ==
  /\ UNCHANGED <<record, pass, failures>>
  /\ batch' = [batch EXCEPT !.round = @ + 1]

\* Every step is one of these.
LEMMA Steps ==
  ASSUME SchedulingInv, [Next]_vars
  PROVE  /\ SchedulingTypeOK' /\ EntriesSound'
         /\ \/ Quiet \/ AdvancesAs
            \/ \E s \in Schedulers : ReadsAs(s) \/ ActivatesAs(s) \/ RecordsAs(s)
<1>1. SchedulingTypeOK /\ StateSound /\ EntriesSound /\ DecisionsSound
  BY DEF SchedulingInv
<1>2. ASSUME NEW c \in Changes, Commit(c)
      PROVE  SchedulingTypeOK' /\ EntriesSound' /\ Quiet
  BY <1>1, <1>2 DEF Commit, SchedulingTypeOK, EntriesSound, Quiet
<1>3. ASSUME NEW c \in Changes, NEW s \in Schedulers, Schedule(c, s)
      PROVE  SchedulingTypeOK' /\ EntriesSound' /\ Quiet
  <2>1. Request(s) /\ UNCHANGED <<batch, record, failures>>
    BY <1>3, Zenon DEF Schedule
  <2> QED BY <1>1, <2>1, RequestQuiet
<1>4. ASSUME NEW s \in Schedulers, Poll(s)
      PROVE  SchedulingTypeOK' /\ EntriesSound' /\ Quiet
  BY <1>1, <1>4, RequestQuiet DEF Poll
<1>5. ASSUME NEW s \in Schedulers, NEW matching \in SUBSET (1 .. Rules), ReadSnapshot(s, matching)
      PROVE  SchedulingTypeOK' /\ EntriesSound' /\ ReadsAs(s)
  <2>1. pass' \in [Schedulers -> Passes] /\ ReadsAs(s)
    BY <1>1, <1>5, ReadsDecide
  <2>2. UNCHANGED <<batch, record, entry, failures>>
    BY <1>5, Zenon DEF ReadSnapshot
  <2>3. SchedulingTypeOK'
    BY <1>1, <2>1, <2>2 DEF SchedulingTypeOK
  <2>4. EntriesSound'
    BY <1>1, <2>1, <2>2 DEF EntriesSound, ReadsAs
  <2> QED BY <2>1, <2>3, <2>4
<1>6. ASSUME NEW s \in Schedulers, ReadNothing(s)
      PROVE  SchedulingTypeOK' /\ EntriesSound' /\ Quiet
  <2>1. /\ pass[s].at = "begun" /\ pass' = [pass EXCEPT ![s].at = "done"]
        /\ UNCHANGED <<batch, record, entry, failures>>
    BY <1>6 DEF ReadNothing
  <2> QED BY <1>1, <2>1 DEF SchedulingTypeOK, Passes, EntriesSound, Quiet
<1>7. ASSUME NEW s \in Schedulers, ActivateRetryConcurrency(s)
      PROVE  SchedulingTypeOK' /\ EntriesSound' /\ (Quiet \/ ActivatesAs(s))
  <2>1. SchedulingTypeOK' /\ (Quiet \/ ActivatesAs(s))
    BY <1>1, <1>7, ActivationActs
  <2>2. /\ pass[s].at = "read" /\ entry' = entry
        /\ \A t \in Schedulers \ {s} : pass'[t] = pass[t]
    BY <1>1, <1>7 DEF ActivateRetryConcurrency, SchedulingTypeOK
  <2> QED BY <1>1, <2>1, <2>2 DEF EntriesSound
<1>8. ASSUME NEW s \in Schedulers, RecordRoundConcurrency(s)
      PROVE  SchedulingTypeOK' /\ EntriesSound' /\ RecordsAs(s)
  <2>1. SchedulingTypeOK' /\ RecordsAs(s)
    BY <1>1, <1>8, RecordingRecords
  <2>2. entry' = entry
    BY <1>8 DEF RecordRoundConcurrency
  <2> QED BY <1>1, <2>1, <2>2 DEF EntriesSound, RecordsAs, Pending
<1>9. ASSUME NEW s \in Schedulers, PassEnds(s)
      PROVE  SchedulingTypeOK' /\ EntriesSound' /\ Quiet
  <2>1. pass[s].at = "done" /\ UNCHANGED <<batch, record, failures>>
    BY <1>9 DEF PassEnds
  <2>2. CASE entry[s].again
    <3>1. pass' = [pass EXCEPT ![s] = Begun] /\ entry' = [entry EXCEPT ![s].again = FALSE]
      BY <1>9, <2>2 DEF PassEnds
    <3> QED BY <1>1, <2>1, <3>1, BegunTyped DEF SchedulingTypeOK, EntriesSound, Quiet
  <2>3. CASE ~entry[s].again
    <3>1. pass' = [pass EXCEPT ![s] = NoPass] /\ entry' = [entry EXCEPT ![s].state = "settled"]
      BY <1>9, <2>3 DEF PassEnds
    <3> QED BY <1>1, <2>1, <3>1, BegunTyped DEF SchedulingTypeOK, EntriesSound, Quiet
  <2> QED BY <2>2, <2>3
<1>10. ASSUME NEW s \in Schedulers, PassFails(s)
      PROVE  SchedulingTypeOK' /\ EntriesSound' /\ Quiet
  <2>1. /\ pass' = [pass EXCEPT ![s] = NoPass] /\ failures' = failures + 1
        /\ entry' = [entry EXCEPT ![s] = [state |-> "failed", again |-> FALSE]]
        /\ UNCHANGED <<batch, record>>
    BY <1>10 DEF PassFails
  <2> QED BY <1>1, <2>1, BegunTyped DEF SchedulingTypeOK, EntriesSound, Quiet
<1>11. ASSUME NEW s \in Schedulers, RemoveEntry(s)
      PROVE  SchedulingTypeOK' /\ EntriesSound' /\ Quiet
  <2>1. /\ entry[s].state # "running" /\ UNCHANGED <<batch, record, pass, failures>>
        /\ entry' = [entry EXCEPT ![s] = [state |-> "absent", again |-> FALSE]]
    BY <1>11 DEF RemoveEntry
  <2> QED BY <1>1, <2>1 DEF SchedulingTypeOK, EntriesSound, Quiet
<1>12. CASE AdvanceRound
  <2>1. AdvancesAs /\ batch.round < MaxRound /\ UNCHANGED entry
    BY <1>12 DEF AdvanceRound, AdvancesAs
  <2>2. batch.round + 1 \in Rounds
    BY <1>1, <2>1, SchedulingAssumption DEF SchedulingTypeOK, Rounds
  <2>3. batch' \in [round : Rounds, rule : RuleNumbers, since : 0 .. MaxRound]
    BY <1>1, <2>1, <2>2 DEF SchedulingTypeOK, AdvancesAs
  <2> QED BY <1>1, <2>1, <2>3 DEF SchedulingTypeOK, EntriesSound, AdvancesAs
<1>13. CASE UNCHANGED vars
  BY <1>1, <1>13 DEF vars, SchedulingTypeOK, EntriesSound, Quiet
<1> QED BY <1>2, <1>3, <1>4, <1>5, <1>6, <1>7, <1>8, <1>9, <1>10, <1>11, <1>12, <1>13 DEF Next, Work

-----------------------------------------------------------------------------
(* The invariant. *)

\* The numbers of the state, to be compared.
LEMMA Numbers ==
  ASSUME SchedulingTypeOK
  PROVE  /\ batch.round \in Nat /\ batch.rule \in Nat /\ batch.since \in Nat
         /\ batch.round \in Rounds /\ batch.rule \in RuleNumbers
         /\ \A s \in Schedulers : pass[s].round \in Nat /\ pass[s].rule \in Nat
                                   /\ pass[s].decision \in RuleNumbers
         /\ \A i \in RuleNumbers : i \in Nat
         /\ \A r \in Rounds : r \in Nat /\ (record[r] = Unrecorded \/ record[r] \in RuleNumbers)
         /\ failures \in Nat
BY SchedulingAssumption DEF SchedulingTypeOK, Passes, Rounds, RuleNumbers, Unrecorded

\* The batch moves forward.
LEMMA BatchAdvances ==
  ASSUME SchedulingInv, [Next]_vars
  PROVE  /\ batch.round <= batch'.round /\ batch.rule <= batch'.rule
         /\ batch.since <= batch'.since /\ StateSound' /\ RulesAdvance
<1>1. SchedulingTypeOK /\ StateSound
  BY DEF SchedulingInv
<1>2. CASE UNCHANGED batch
  BY <1>1, <1>2, Numbers DEF StateSound, RulesAdvance
<1>3. CASE AdvancesAs
  <2>1. batch'.round = batch.round + 1 /\ batch'.rule = batch.rule /\ batch'.since = batch.since
    BY <1>1, <1>3 DEF AdvancesAs, SchedulingTypeOK
  <2> QED BY <1>1, <2>1, Numbers DEF StateSound, RulesAdvance
<1>4. ASSUME NEW s \in Schedulers, ActivatesAs(s), batch' # batch
      PROVE  /\ batch.round <= batch'.round /\ batch.rule <= batch'.rule
             /\ batch.since <= batch'.since /\ StateSound' /\ RulesAdvance
  <2>1. /\ batch.rule < batch'.rule /\ batch.since < batch'.since /\ batch'.rule # Base
        /\ batch'.since = batch.round /\ batch'.round = batch.round
    BY <1>4 DEF ActivatesAs
  <2>2. batch'.rule \in Nat
    BY Steps, Numbers DEF SchedulingTypeOK, RuleNumbers, SchedulingAssumption
  <2> QED BY <1>1, <2>1, <2>2, Numbers, SchedulingAssumption DEF StateSound, RulesAdvance, Rounds
<1> QED BY <1>2, <1>3, <1>4, Steps DEF Quiet, ReadsAs, ActivatesAs, RecordsAs

\* A figure is born only with the round and the rule of the batch.
LEMMA FiguresGrow ==
  ASSUME SchedulingInv, [Next]_vars, NEW r \in Rounds, NEW i \in RuleNumbers, Figure(r, i)'
  PROVE  Figure(r, i) \/ (r = batch'.round /\ i = batch'.rule)
<1>1. ASSUME Quiet \/ AdvancesAs
      PROVE  Figure(r, i)
  BY <1>1 DEF Figure, Pending, Quiet, AdvancesAs
<1>2. ASSUME NEW s \in Schedulers, ReadsAs(s)
      PROVE  Figure(r, i) \/ (r = batch'.round /\ i = batch'.rule)
  BY <1>2 DEF Figure, Pending, ReadsAs
<1>3. ASSUME NEW s \in Schedulers, ActivatesAs(s)
      PROVE  Figure(r, i) \/ (r = batch'.round /\ i = batch'.rule)
  BY <1>3 DEF Figure, Pending, ActivatesAs
<1>4. ASSUME NEW s \in Schedulers, RecordsAs(s)
      PROVE  Figure(r, i)
  BY <1>4 DEF Figure, Pending, RecordsAs
<1> QED BY <1>1, <1>2, <1>3, <1>4, Steps

LEMMA DecisionsSoundKept ==
  ASSUME SchedulingInv, [Next]_vars
  PROVE  DecisionsSound'
<1>1. SchedulingTypeOK /\ StateSound /\ DecisionsSound /\ SchedulingTypeOK'
  BY Steps DEF SchedulingInv
<1>2. ASSUME NEW s \in Schedulers
      PROVE  /\ pass'[s].at \in {"read", "activated"} => pass'[s].round \in 1 .. batch'.round
             /\ pass'[s].at = "activated" => pass'[s].transition
             /\ pass'[s].at = "read" /\ pass'[s].transition =>
                  /\ pass'[s].rule < pass'[s].decision
                  /\ pass'[s].round = batch'.round =>
                       \/ batch'.since = batch'.round
                       \/ pass'[s].rule = batch'.rule /\ batch'.since < batch'.round
  <2>1. CASE pass'[s].at \notin {"read", "activated"}
    BY <2>1
  <2>2. CASE pass'[s] = pass[s] /\ UNCHANGED batch
    BY <1>1, <2>2 DEF DecisionsSound
  <2>3. CASE AdvancesAs
    <3>1. /\ batch'.round = batch.round + 1 /\ pass' = pass
      BY <1>1, <2>3 DEF AdvancesAs, SchedulingTypeOK
    <3>2. pass[s].at \in {"read", "activated"} => pass[s].round \in 1 .. batch.round
      BY <1>1 DEF DecisionsSound
    <3>3. pass'[s].at \in {"read", "activated"} =>
            pass'[s].round \in 1 .. batch'.round /\ pass'[s].round # batch'.round
      BY <1>1, <3>1, <3>2, Numbers
    <3> QED BY <1>1, <3>1, <3>3 DEF DecisionsSound
  <2>4. ASSUME NEW t \in Schedulers, ActivatesAs(t), s # t, pass'[s] = pass[s]
        PROVE  /\ pass'[s].at \in {"read", "activated"} => pass'[s].round \in 1 .. batch'.round
               /\ pass'[s].at = "activated" => pass'[s].transition
               /\ pass'[s].at = "read" /\ pass'[s].transition =>
                    /\ pass'[s].rule < pass'[s].decision
                    /\ batch'.since = batch'.round
    BY <1>1, <2>4 DEF DecisionsSound, ActivatesAs
  <2>5. CASE ActivatesAs(s)
    BY <1>1, <2>5, Numbers DEF ActivatesAs, Rounds
  <2>6. CASE ReadsAs(s)
    BY <1>1, <2>6, Numbers DEF ReadsAs, Rounds, StateSound, Base
  <2> QED BY <2>1, <2>2, <2>3, <2>4, <2>5, <2>6, Steps DEF Quiet, ReadsAs, ActivatesAs, RecordsAs
<1> QED BY <1>2 DEF DecisionsSound

LEMMA FiguresSoundKept ==
  ASSUME SchedulingInv, [Next]_vars
  PROVE  FiguresSound'
<1>1. SchedulingTypeOK /\ FiguresSound /\ SchedulingTypeOK'
  BY Steps DEF SchedulingInv
<1>2. batch.round <= batch'.round /\ batch.rule <= batch'.rule
  BY BatchAdvances
<1>3. batch'.round \in Nat /\ batch'.rule \in Nat
  BY <1>1 DEF SchedulingTypeOK, Rounds, RuleNumbers
<1>4. ASSUME NEW q \in Rounds, NEW i \in RuleNumbers, Figure(q, i)'
      PROVE  q <= batch'.round /\ i <= batch'.rule
  <2>1. q \in Nat /\ i \in Nat
    BY <1>1, Numbers
  <2>2. CASE Figure(q, i)
    BY <1>1, <1>2, <1>3, <2>1, <2>2, Numbers DEF FiguresSound
  <2>3. CASE q = batch'.round /\ i = batch'.rule
    BY <1>3, <2>3
  <2> QED BY <1>4, <2>2, <2>3, FiguresGrow
<1>5. ASSUME NEW q \in Rounds, NEW r \in Rounds, NEW i \in RuleNumbers, NEW j \in RuleNumbers,
             Figure(q, i)', Figure(r, j)', q < r
      PROVE  i <= j
  <2>1. q \in Nat /\ r \in Nat /\ i \in Nat /\ j \in Nat
    BY <1>1, Numbers
  <2>2. q <= batch'.round /\ r <= batch'.round /\ i <= batch'.rule
    BY <1>4, <1>5
  <2>3. Figure(q, i)
    BY <1>3, <1>5, <2>1, <2>2, FiguresGrow
  <2>4. CASE Figure(r, j)
    BY <1>1, <1>5, <2>3, <2>4 DEF FiguresSound
  <2>5. CASE j = batch'.rule
    BY <2>2, <2>5
  <2> QED BY <1>5, <2>4, <2>5, FiguresGrow
<1> QED BY <1>4, <1>5 DEF FiguresSound

LEMMA ActivationsStandKept ==
  ASSUME SchedulingInv, [Next]_vars
  PROVE  ActivationsStand'
<1>1. /\ SchedulingTypeOK /\ StateSound /\ DecisionsSound /\ ActivationsStand
      /\ SchedulingTypeOK' /\ FiguresSound'
  BY Steps, FiguresSoundKept DEF SchedulingInv
<1>2. /\ batch.round <= batch'.round /\ batch.since <= batch'.since
      /\ batch'.since <= batch'.round
  BY BatchAdvances DEF StateSound
<1>3. batch'.round \in Nat /\ batch'.rule \in Nat /\ batch'.since \in Nat
  BY <1>1 DEF SchedulingTypeOK, Rounds, RuleNumbers
<1>4. ASSUME NEW s \in Schedulers, NEW r \in Rounds, pass'[s] = pass[s],
             pass[s].at = "activated", pass[s].round = r
      PROVE  /\ r <= batch'.since
             /\ r = batch'.since => pass'[s].decision = batch'.rule
             /\ \A i \in RuleNumbers : Figure(r, i)' => i <= pass'[s].decision
  <2>1. /\ r \in Nat /\ r <= batch.since
        /\ r = batch.since => pass[s].decision = batch.rule
        /\ \A i \in RuleNumbers : Figure(r, i) => i <= pass[s].decision
        /\ batch.since <= batch.round
    BY <1>1, <1>4, Numbers DEF ActivationsStand, StateSound
  <2>2. r = batch'.since \/ r = batch'.round => batch'.rule = batch.rule /\ r = batch.since
    <3>1. CASE batch'.rule = batch.rule
      BY <1>1, <1>2, <1>3, <2>1, <3>1, Numbers
    <3>2. CASE batch'.rule # batch.rule
      BY <1>1, <1>2, <1>3, <2>1, <3>2, BatchAdvances, Numbers DEF RulesAdvance
    <3> QED BY <3>1, <3>2
  <2>3. r <= batch'.since
    BY <1>1, <1>2, <1>3, <2>1, Numbers
  <2>4. ASSUME NEW i \in RuleNumbers, Figure(r, i)'
        PROVE  i <= pass[s].decision
    <3>1. CASE Figure(r, i)
      BY <2>1, <3>1
    <3>2. CASE r = batch'.round /\ i = batch'.rule
      BY <1>1, <2>1, <2>2, <3>2, Numbers
    <3> QED BY <2>4, <3>1, <3>2, FiguresGrow
  <2> QED BY <1>4, <2>1, <2>2, <2>3, <2>4
<1>5. ASSUME NEW s \in Schedulers, NEW r \in Rounds, ActivatesAs(s), pass'[s].round = r
      PROVE  /\ r <= batch'.since
             /\ r = batch'.since => pass'[s].decision = batch'.rule
             /\ \A i \in RuleNumbers : Figure(r, i)' => i <= pass'[s].decision
  <2>1. r = batch.round /\ batch'.since = batch.round /\ pass'[s].decision = batch'.rule
    BY <1>5 DEF ActivatesAs
  <2>2. \A i \in RuleNumbers : Figure(r, i)' => i <= batch'.rule
    BY <1>1 DEF FiguresSound
  <2> QED BY <1>1, <1>3, <2>1, <2>2, Numbers
<1>6. ASSUME NEW s \in Schedulers, pass'[s].at = "activated"
      PROVE  pass'[s] = pass[s] \/ ActivatesAs(s)
  BY <1>6, Steps DEF Quiet, AdvancesAs, ReadsAs, ActivatesAs, RecordsAs
<1>7. ASSUME NEW s \in Schedulers, NEW r \in Rounds, pass'[s].at = "activated", pass'[s].round = r
      PROVE  /\ r <= batch'.since
             /\ r = batch'.since => pass'[s].decision = batch'.rule
             /\ \A i \in RuleNumbers : Figure(r, i)' => i <= pass'[s].decision
  BY <1>4, <1>5, <1>6, <1>7
<1> QED BY <1>7 DEF ActivationsStand

\* The pass that activated a rule is there until it has recorded it.
LEMMA ActivationRecordedKept ==
  ASSUME SchedulingInv, [Next]_vars
  PROVE  ActivationRecorded'
<1>1. /\ SchedulingTypeOK /\ StateSound /\ DecisionsSound /\ ActivationsStand
      /\ ActivationRecorded /\ SchedulingTypeOK'
  BY Steps DEF SchedulingInv
<1> SUFFICES ASSUME failures' = 0, batch'.rule # Base
             PROVE  \/ record'[batch'.since] = batch'.rule
                    \/ \E s \in Schedulers : pass'[s].at = "activated" /\ pass'[s].round = batch'.since
  BY DEF ActivationRecorded
<1>2. ASSUME NEW s \in Schedulers, ActivatesAs(s)
      PROVE  pass'[s].at = "activated" /\ pass'[s].round = batch'.since
  BY <1>2 DEF ActivatesAs
<1>3. CASE Quiet \/ AdvancesAs \/ \E s \in Schedulers : ReadsAs(s) \/ RecordsAs(s)
  <2>1. failures = 0 /\ batch'.rule = batch.rule /\ batch'.since = batch.since
    BY <1>1, <1>3, Numbers DEF Quiet, AdvancesAs, ReadsAs, RecordsAs, SchedulingTypeOK
  <2>2. batch.since \in Rounds
    BY <1>1, <2>1, Numbers, SchedulingAssumption DEF StateSound, SchedulingTypeOK, Rounds
  <2>3. CASE record[batch.since] = batch.rule
    <3>1. CASE record'[batch.since] = record[batch.since]
      BY <2>1, <2>3, <3>1
    <3>2. CASE record'[batch.since] # record[batch.since]
      <4>1. PICK s \in Schedulers : RecordsAs(s)
        BY <1>3, <3>2 DEF Quiet, AdvancesAs, ReadsAs
      <4>2. record[batch.since] # Unrecorded
        BY <1>1, <2>3, Numbers DEF Unrecorded
      <4>3. /\ batch.since = pass[s].round /\ record'[batch.since] = pass[s].decision
            /\ pass[s].at = "activated"
        BY <2>2, <3>2, <4>1, <4>2 DEF RecordsAs
      <4>4. pass[s].decision = batch.rule
        BY <1>1, <2>2, <4>3 DEF ActivationsStand
      <4> QED BY <2>1, <4>3, <4>4
    <3> QED BY <3>1, <3>2
  <2>4. ASSUME NEW s \in Schedulers, pass[s].at = "activated", pass[s].round = batch.since
        PROVE  \/ record'[batch.since] = batch.rule
               \/ pass'[s].at = "activated" /\ pass'[s].round = batch.since
    <3>1. CASE pass'[s] = pass[s]
      BY <2>4, <3>1
    <3>2. CASE pass'[s] # pass[s]
      <4>1. RecordsAs(s)
        BY <1>3, <2>1, <2>4, <3>2 DEF Quiet, AdvancesAs, ReadsAs, RecordsAs
      <4>2. record'[batch.since] = pass[s].decision
        BY <2>4, <4>1 DEF RecordsAs
      <4>3. pass[s].decision = batch.rule
        BY <1>1, <2>2, <2>4 DEF ActivationsStand
      <4> QED BY <4>2, <4>3
    <3> QED BY <3>1, <3>2
  <2>5. batch.rule # Base
    BY <2>1
  <2> QED BY <1>1, <2>1, <2>3, <2>4, <2>5 DEF ActivationRecorded
<1> QED BY <1>2, <1>3, Steps

-----------------------------------------------------------------------------
(* The theorems. *)

LEMMA InitInv ==
  ASSUME Init
  PROVE  SchedulingInv
<1>1. /\ batch = [round |-> 1, rule |-> Base, since |-> 0] /\ failures = 0
      /\ record = [r \in 1 .. MaxRound |-> Unrecorded]
      /\ entry = [s \in Schedulers |-> [state |-> "absent", again |-> FALSE]]
      /\ pass = [s \in Schedulers |-> NoPass]
  BY DEF Init
<1>2. SchedulingTypeOK
  <2>1. 1 \in Rounds /\ 0 \in 0 .. MaxRound /\ Base \in RuleNumbers /\ Unrecorded \in Unrecorded .. Rules
    BY SchedulingAssumption DEF Rounds, RuleNumbers, Base, Unrecorded
  <2>2. pass \in [Schedulers -> Passes]
    BY <1>1, BegunTyped
  <2> QED BY <1>1, <2>1, <2>2 DEF SchedulingTypeOK, Rounds
<1>3. \A s \in Schedulers : pass[s].at = "none"
  BY <1>1, BegunTyped
<1>4. ASSUME NEW r \in Rounds, NEW i \in RuleNumbers
      PROVE  ~ Figure(r, i)
  <2>1. record[r] # i
    BY <1>1, <1>2, Numbers DEF Rounds, RuleNumbers, Unrecorded
  <2> QED BY <1>3, <2>1 DEF Figure, Pending
<1>5. StateSound /\ ActivationRecorded
  BY <1>1 DEF StateSound, ActivationRecorded, Base
<1>6. EntriesSound /\ DecisionsSound /\ ActivationsStand
  BY <1>3 DEF EntriesSound, DecisionsSound, ActivationsStand
<1>7. FiguresSound
  BY <1>4 DEF FiguresSound
<1> QED BY <1>2, <1>5, <1>6, <1>7 DEF SchedulingInv

LEMMA StepInv ==
  ASSUME SchedulingInv, [Next]_vars
  PROVE  SchedulingInv'
BY Steps, BatchAdvances, DecisionsSoundKept, FiguresSoundKept, ActivationsStandKept,
   ActivationRecordedKept DEF SchedulingInv

(***************************************************************************)
(* However many schedulers pass over the batch at the same time, whatever  *)
(* they read and whichever of them fail, their decisions, what they record *)
(* and the rule of the batch stay in order.                                *)
(***************************************************************************)
THEOREM SchedulingSound == Spec => []SchedulingInv
<1>1. Init => SchedulingInv
  BY InitInv
<1>2. SchedulingInv /\ [Next]_vars => SchedulingInv'
  BY StepInv
<1> QED BY <1>1, <1>2, PTL DEF Spec

\* A record changes only to the decision of a pass, which is nowhere behind it.
LEMMA RecordsOnlyAdvance ==
  ASSUME SchedulingInv, [Next]_vars
  PROVE  RecordsAdvance
<1>1. /\ SchedulingTypeOK /\ DecisionsSound /\ ActivationsStand
      /\ SchedulingTypeOK' /\ FiguresSound'
  BY Steps, FiguresSoundKept DEF SchedulingInv
<1>2. ASSUME NEW r \in Rounds
      PROVE  record[r] <= record'[r]
  <2>1. record[r] \in Int
    BY <1>1, Numbers DEF Unrecorded
  <2>2. CASE record'[r] = record[r]
    BY <2>1, <2>2
  <2>3. CASE record'[r] # record[r]
    <3>1. PICK s \in Schedulers : RecordsAs(s)
      BY <2>3, Steps DEF Quiet, AdvancesAs, ReadsAs, ActivatesAs
    <3>2. /\ r = pass[s].round /\ record'[r] = pass[s].decision
          /\ pass[s].at = "activated" \/ record[r] = Unrecorded
      BY <2>3, <3>1 DEF RecordsAs
    <3>3. pass[s].decision \in Nat
      BY <1>1, Numbers
    <3>4. CASE record[r] = Unrecorded
      BY <3>2, <3>3, <3>4 DEF Unrecorded
    <3>5. CASE record[r] \in RuleNumbers /\ pass[s].at = "activated"
      <4>1. Figure(r, record[r])
        BY DEF Figure
      <4> QED BY <1>1, <3>2, <3>5, <4>1 DEF ActivationsStand
    <3> QED BY <1>1, <3>2, <3>4, <3>5, Numbers
  <2> QED BY <2>2, <2>3
<1>3. ASSUME NEW r \in Rounds, NEW q \in r .. MaxRound, record'[q] # Unrecorded
      PROVE  record'[r] <= record'[q]
  <2>1. q \in Rounds /\ r \in Nat /\ q \in Nat /\ r <= q
    BY SchedulingAssumption DEF Rounds
  <2>2. record'[q] \in RuleNumbers /\ record'[q] \in Nat
    BY <1>1, <1>3, <2>1, SchedulingAssumption DEF SchedulingTypeOK, RuleNumbers, Unrecorded
  <2>3. CASE r = q
    BY <2>2, <2>3
  <2>4. CASE record'[r] = Unrecorded
    BY <2>2, <2>4 DEF Unrecorded
  <2>5. CASE r < q /\ record'[r] # Unrecorded
    <3>1. record'[r] \in RuleNumbers
      BY <1>1, <2>5, SchedulingAssumption DEF SchedulingTypeOK, RuleNumbers, Unrecorded
    <3>2. \A i \in RuleNumbers, p \in Rounds : record'[p] = i => Figure(p, i)'
      BY DEF Figure
    <3> QED BY <1>1, <2>1, <2>2, <2>5, <3>1, <3>2 DEF FiguresSound
  <2> QED BY <2>1, <2>3, <2>4, <2>5
<1> QED BY <1>2, <1>3 DEF RecordsAdvance, Rounds

\* The active rule is the recorded one when nobody is left to record it.
LEMMA RecordsMatch ==
  ASSUME SchedulingInv
  PROVE  RecordMatchesRule
BY DEF SchedulingInv, ActivationRecorded, RecordMatchesRule

(***************************************************************************)
(* For any number of schedulers, rules and rounds and whatever fails: the  *)
(* concurrency of the batch and its record move forward through the rules, *)
(* and without failures a round is recorded with what it runs with.        *)
(***************************************************************************)
THEOREM RoundsKeepTheirConcurrency == Spec => RoundConcurrency
<1>1. SchedulingInv /\ [Next]_vars => [RulesAdvance /\ RecordsAdvance /\ RecordMatchesRule]_vars
  BY BatchAdvances, RecordsOnlyAdvance, RecordsMatch
<1> QED BY <1>1, SchedulingSound, PTL DEF Spec, RoundConcurrency

-----------------------------------------------------------------------------
(* Answers. *)

CallsTypeOK ==
  call \in [Changes -> [status : {"new", "committed", "waiting", "answered", "rejected"},
                        by : SUBSET Schedulers]]

Known(c) == c \in seen \union late

\* Whoever waits was read already, or is going to be by this pass or by one more.
Promised(c, s) ==
  entry[s].state = "running" /\ (Known(c) \/ entry[s].again \/ pass[s].at = "begun")

CallsSound ==
  \A c \in Changes :
    /\ call[c].status = "answered" => Known(c)
    /\ call[c].status = "waiting" => \A s \in call[c].by : Promised(c, s)

CallsInv == CallsTypeOK /\ CallsSound

\* What is known stays known.
KeepsKnown == seen \subseteq seen' /\ late \subseteq late'

\* No call changes, and each promise that was made to a call stands.
LEMMA PromisesKept ==
  ASSUME CallsInv, UNCHANGED call, KeepsKnown,
         \A c \in Changes, s \in Schedulers :
           call[c].status = "waiting" /\ Promised(c, s) => Promised(c, s)'
  PROVE  CallsInv'
<1>1. CallsTypeOK' /\ \A c \in Changes : Known(c) => Known(c)'
  BY DEF CallsInv, CallsTypeOK, Known, KeepsKnown
<1>2. \A c \in Changes : call[c].by \subseteq Schedulers
  BY DEF CallsInv, CallsTypeOK
<1>3. ASSUME NEW c \in Changes, call[c].status = "answered"
      PROVE  Known(c)'
  BY <1>1, <1>3 DEF CallsInv, CallsSound
<1>4. ASSUME NEW c \in Changes, call[c].status = "waiting", NEW s \in call[c].by
      PROVE  Promised(c, s)'
  BY <1>2, <1>4 DEF CallsInv, CallsSound
<1> QED BY <1>1, <1>3, <1>4 DEF CallsInv, CallsSound

\* A request leaves each promise as good as it was, and makes one.
LEMMA RequestPromises ==
  ASSUME SchedulingTypeOK, NEW s \in Schedulers, Request(s), KeepsKnown
  PROVE  /\ \A c \in Changes, t \in Schedulers : Promised(c, t) => Promised(c, t)'
         /\ entry[s].state \in {"absent", "running"} => \A c \in Changes : Promised(c, s)'
<1>1. \A c \in Changes : Known(c) => Known(c)'
  BY DEF Known, KeepsKnown
<1>2. CASE entry[s].state = "absent"
  <2>1. /\ pass' = [pass EXCEPT ![s] = Begun] /\ Begun.at = "begun"
        /\ entry' = [entry EXCEPT ![s] = [state |-> "running", again |-> FALSE]]
    BY <1>2, BegunTyped DEF Request
  <2>2. entry'[s].state = "running" /\ pass'[s].at = "begun"
    BY <2>1 DEF SchedulingTypeOK
  <2>3. \A t \in Schedulers \ {s} : entry'[t] = entry[t] /\ pass'[t] = pass[t]
    BY <2>1 DEF SchedulingTypeOK
  <2> QED BY <1>1, <1>2, <2>2, <2>3 DEF Promised
<1>3. CASE entry[s].state # "absent"
  <2>1. entry' = [entry EXCEPT ![s].again = (entry[s].state = "running")] /\ UNCHANGED pass
    BY <1>3 DEF Request
  <2>2. entry'[s].state = entry[s].state /\ (entry'[s].again <=> entry[s].state = "running")
    BY <2>1 DEF SchedulingTypeOK
  <2>3. \A t \in Schedulers \ {s} : entry'[t] = entry[t]
    BY <2>1 DEF SchedulingTypeOK
  <2> QED BY <1>1, <1>3, <2>1, <2>2, <2>3 DEF Promised
<1> QED BY <1>2, <1>3

LEMMA CallsInit ==
  ASSUME Init
  PROVE  CallsInv
BY DEF Init, CallsInv, CallsTypeOK, CallsSound

LEMMA CallsStep ==
  ASSUME SchedulingTypeOK, CallsInv, [Next]_vars
  PROVE  CallsInv'
<1>1. CallsTypeOK /\ CallsSound
  BY DEF CallsInv
<1>2. ASSUME NEW c \in Changes, Commit(c)
      PROVE  CallsInv'
  <2>1. /\ call[c].status = "new" /\ call' = [call EXCEPT ![c].status = "committed"]
        /\ UNCHANGED <<entry, pass, seen, late>>
    BY <1>2 DEF Commit
  <2>2. CallsTypeOK'
    BY <1>1, <2>1 DEF CallsTypeOK
  <2>3. /\ call'[c].status = "committed"
        /\ \A d \in Changes \ {c} : call'[d] = call[d]
    BY <1>1, <2>1 DEF CallsTypeOK
  <2>4. CallsSound'
    BY <1>1, <2>1, <2>3 DEF CallsSound, Promised, Known
  <2> QED BY <2>2, <2>4 DEF CallsInv
<1>3. ASSUME NEW c \in Changes, NEW s \in Schedulers, Schedule(c, s)
      PROVE  CallsInv'
  <2> DEFINE status == IF entry[s].state = "settled" THEN "answered"
                       ELSE IF entry[s].state = "failed" THEN "rejected" ELSE "waiting"
  <2>1. /\ Request(s) /\ UNCHANGED seen
        /\ call' = [call EXCEPT ![c] = [status |-> status, by |-> {s}]]
        /\ late' = IF entry[s].state = "settled" THEN late \union {c} ELSE late
    BY <1>3 DEF Schedule
  <2>2. status \in {"waiting", "answered", "rejected"}
    OBVIOUS
  <2>3. /\ status = "answered" => entry[s].state = "settled"
        /\ status = "waiting" => entry[s].state \in {"absent", "running"}
    BY DEF SchedulingTypeOK
  <2> HIDE DEF status
  <2>4. KeepsKnown
    BY <2>1 DEF KeepsKnown
  <2>5. CallsTypeOK'
    BY <1>1, <2>1, <2>2 DEF CallsTypeOK
  <2>6. /\ call'[c].status = status /\ call'[c].by = {s}
        /\ \A d \in Changes \ {c} : call'[d] = call[d] /\ call[d].by \subseteq Schedulers
    BY <1>1, <2>1 DEF CallsTypeOK
  <2>7. /\ \A d \in Changes, t \in Schedulers : Promised(d, t) => Promised(d, t)'
        /\ status = "waiting" => Promised(c, s)'
    BY <2>1, <2>3, <2>4, RequestPromises
  <2>8. /\ \A d \in Changes : Known(d) => Known(d)'
        /\ status = "answered" => Known(c)'
    BY <2>1, <2>3, <2>4 DEF Known, KeepsKnown
  <2>9. ASSUME NEW d \in Changes
        PROVE  /\ call'[d].status = "answered" => Known(d)'
               /\ call'[d].status = "waiting" => \A t \in call'[d].by : Promised(d, t)'
    <3>1. CASE d = c
      BY <2>6, <2>7, <2>8, <3>1
    <3>2. CASE d # c
      BY <1>1, <2>6, <2>7, <2>8, <3>2 DEF CallsSound
    <3> QED BY <3>1, <3>2
  <2> QED BY <2>5, <2>9 DEF CallsInv, CallsSound
<1>4. ASSUME NEW s \in Schedulers, Poll(s)
      PROVE  CallsInv'
  <2>1. Request(s) /\ UNCHANGED <<call, seen, late>>
    BY <1>4 DEF Poll
  <2> QED BY <2>1, PromisesKept, RequestPromises DEF KeepsKnown
<1>5. ASSUME NEW s \in Schedulers, pass[s].at = "begun", seen' = seen \union Committed,
             UNCHANGED <<entry, call, late>>, \A t \in Schedulers \ {s} : pass'[t] = pass[t]
      PROVE  CallsInv'
  <2>1. \A c \in Changes : call[c].status = "waiting" => Known(c)'
    BY <1>5 DEF Known, Committed
  <2> QED BY <1>5, <2>1, PromisesKept DEF KeepsKnown, Promised
<1>6. ASSUME NEW s \in Schedulers, pass[s].at # "begun", UNCHANGED <<entry, call, seen, late>>,
             \A t \in Schedulers \ {s} : pass'[t] = pass[t]
      PROVE  CallsInv'
  BY <1>6, PromisesKept DEF KeepsKnown, Promised, Known
<1>7. ASSUME NEW s \in Schedulers, PassEnds(s)
      PROVE  CallsInv'
  <2>1. pass[s].at = "done" /\ UNCHANGED <<seen, late>>
    BY <1>7 DEF PassEnds
  <2>2. CASE entry[s].again
    <3>1. /\ pass' = [pass EXCEPT ![s] = Begun] /\ entry' = [entry EXCEPT ![s].again = FALSE]
          /\ UNCHANGED call
      BY <1>7, <2>2 DEF PassEnds
    <3>2. /\ entry'[s].state = entry[s].state /\ pass'[s].at = "begun"
          /\ \A t \in Schedulers \ {s} : entry'[t] = entry[t] /\ pass'[t] = pass[t]
      BY <3>1, BegunTyped DEF SchedulingTypeOK
    <3> QED BY <2>1, <3>1, <3>2, PromisesKept DEF KeepsKnown, Promised, Known
  <2>3. CASE ~entry[s].again
    <3>1. /\ pass' = [pass EXCEPT ![s] = NoPass] /\ entry' = [entry EXCEPT ![s].state = "settled"]
          /\ call' = Told(s, "answered")
      BY <1>7, <2>3 DEF PassEnds
    <3>2. \A t \in Schedulers \ {s} : entry'[t] = entry[t] /\ pass'[t] = pass[t]
      BY <3>1 DEF SchedulingTypeOK
    <3>3. CallsTypeOK'
      BY <1>1, <3>1 DEF CallsTypeOK, Told
    <3>4. ASSUME NEW c \in Changes
          PROVE  /\ call'[c].status = "answered" => Known(c)'
                 /\ call'[c].status = "waiting" => \A t \in call'[c].by : Promised(c, t)'
      <4>1. CASE call[c].status = "waiting" /\ s \in call[c].by
        <5>1. call'[c].status = "answered"
          BY <1>1, <3>1, <4>1 DEF CallsTypeOK, Told
        <5>2. Known(c)
          BY <1>1, <2>1, <2>3, <4>1 DEF CallsSound, Promised
        <5> QED BY <2>1, <5>1, <5>2 DEF Known
      <4>2. CASE ~ (call[c].status = "waiting" /\ s \in call[c].by)
        <5>1. call'[c] = call[c] /\ call[c].by \subseteq Schedulers
          BY <1>1, <3>1, <4>2 DEF CallsTypeOK, Told
        <5> QED BY <1>1, <2>1, <3>2, <4>2, <5>1 DEF CallsSound, Promised, Known
      <4> QED BY <4>1, <4>2
    <3> QED BY <3>3, <3>4 DEF CallsInv, CallsSound
  <2> QED BY <2>2, <2>3
<1>8. ASSUME NEW s \in Schedulers, PassFails(s)
      PROVE  CallsInv'
  <2>1. /\ pass' = [pass EXCEPT ![s] = NoPass]
        /\ entry' = [entry EXCEPT ![s] = [state |-> "failed", again |-> FALSE]]
        /\ call' = Told(s, "rejected") /\ UNCHANGED <<seen, late>>
    BY <1>8 DEF PassFails
  <2>2. \A t \in Schedulers \ {s} : entry'[t] = entry[t] /\ pass'[t] = pass[t]
    BY <2>1 DEF SchedulingTypeOK
  <2>3. CallsTypeOK'
    BY <1>1, <2>1 DEF CallsTypeOK, Told
  <2>4. ASSUME NEW c \in Changes
        PROVE  /\ call'[c].status = "answered" => Known(c)'
               /\ call'[c].status = "waiting" => \A t \in call'[c].by : Promised(c, t)'
    <3>1. CASE call[c].status = "waiting" /\ s \in call[c].by
      BY <1>1, <2>1, <3>1 DEF CallsTypeOK, Told
    <3>2. CASE ~ (call[c].status = "waiting" /\ s \in call[c].by)
      <4>1. call'[c] = call[c] /\ call[c].by \subseteq Schedulers
        BY <1>1, <2>1, <3>2 DEF CallsTypeOK, Told
      <4> QED BY <1>1, <2>1, <2>2, <3>2, <4>1 DEF CallsSound, Promised, Known
    <3> QED BY <3>1, <3>2
  <2> QED BY <2>3, <2>4 DEF CallsInv, CallsSound
<1>9. ASSUME NEW s \in Schedulers, RemoveEntry(s)
      PROVE  CallsInv'
  <2>1. /\ entry[s].state # "running" /\ UNCHANGED <<pass, call, seen, late>>
        /\ entry' = [entry EXCEPT ![s] = [state |-> "absent", again |-> FALSE]]
    BY <1>9 DEF RemoveEntry
  <2>2. \A t \in Schedulers \ {s} : entry'[t] = entry[t]
    BY <2>1 DEF SchedulingTypeOK
  <2> QED BY <2>1, <2>2, PromisesKept DEF KeepsKnown, Promised, Known
<1>10. CASE UNCHANGED <<entry, pass, call, seen, late>>
  BY <1>10, PromisesKept DEF KeepsKnown, Promised, Known
<1>11. ASSUME NEW s \in Schedulers, NEW matching \in SUBSET (1 .. Rules), ReadSnapshot(s, matching)
       PROVE  CallsInv'
  <2>1. /\ pass[s].at = "begun" /\ seen' = seen \union Committed /\ UNCHANGED <<entry, call, late>>
        /\ \A t \in Schedulers \ {s} : pass'[t] = pass[t]
    BY <1>11 DEF ReadSnapshot, SchedulingTypeOK
  <2> QED BY <1>5, <2>1
<1>12. ASSUME NEW s \in Schedulers, ReadNothing(s)
       PROVE  CallsInv'
  <2>1. /\ pass[s].at = "begun" /\ seen' = seen \union Committed /\ UNCHANGED <<entry, call, late>>
        /\ \A t \in Schedulers \ {s} : pass'[t] = pass[t]
    BY <1>12 DEF ReadNothing, SchedulingTypeOK
  <2> QED BY <1>5, <2>1
<1>13. ASSUME NEW s \in Schedulers, ActivateRetryConcurrency(s)
       PROVE  CallsInv'
  <2>1. /\ pass[s].at # "begun" /\ UNCHANGED <<entry, call, seen, late>>
        /\ \A t \in Schedulers \ {s} : pass'[t] = pass[t]
    BY <1>13 DEF ActivateRetryConcurrency, SchedulingTypeOK
  <2> QED BY <1>6, <2>1
<1>14. ASSUME NEW s \in Schedulers, RecordRoundConcurrency(s)
       PROVE  CallsInv'
  <2>1. /\ pass[s].at # "begun" /\ UNCHANGED <<entry, call, seen, late>>
        /\ \A t \in Schedulers \ {s} : pass'[t] = pass[t]
    BY <1>14 DEF RecordRoundConcurrency, SchedulingTypeOK
  <2> QED BY <1>6, <2>1
<1>15. CASE AdvanceRound \/ UNCHANGED vars
  BY <1>10, <1>15 DEF AdvanceRound, vars
<1> QED BY <1>2, <1>3, <1>4, <1>7, <1>8, <1>9, <1>11, <1>12, <1>13, <1>14, <1>15 DEF Next, Work

(***************************************************************************)
(* For any number of schedulers and changes, and whatever is merged or     *)
(* fails: an answered request has had its change read, but for the gap     *)
(* between the last check of a merged operation and its removal.           *)
(***************************************************************************)
THEOREM AnswersAreTrue == Spec => []AnsweredChangesAreSeen
<1>1. Init => CallsInv
  BY CallsInit
<1>2. SchedulingInv /\ CallsInv /\ [Next]_vars => CallsInv'
  BY CallsStep DEF SchedulingInv
<1>3. CallsInv => AnsweredChangesAreSeen
  BY DEF CallsInv, CallsSound, AnsweredChangesAreSeen, Known
<1> QED BY <1>1, <1>2, <1>3, SchedulingSound, PTL DEF Spec
=============================================================================
