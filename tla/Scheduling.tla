------------------------------ MODULE Scheduling ------------------------------
(***************************************************************************)
(* The scheduling passes of one batch.  Whoever changes the batch asks a   *)
(* scheduler for a pass; a scheduler merges requests that come while a     *)
(* pass is under way into one more pass.  A pass reads a snapshot, decides *)
(* from it the concurrency rule of the round, activates the rule in one    *)
(* transaction and writes it into the record of the round in another.      *)
(* What a pass reserves is ExecutionControl's ReserveAssignments.          *)
(* Schedulers are processes or lanes with a map of passes each.            *)
(***************************************************************************)
EXTENDS Integers, FiniteSets, FiniteSetsExt

CONSTANTS Schedulers, Changes,
          Rules,        \* how many concurrency rules the policy lists
          RuleRound,    \* the round each rule is judged in
          MaxRound,     \* bound on rounds
          MaxFailures   \* bound on passes that fail

ASSUME SchedulingAssumption ==
  /\ Rules \in Nat /\ RuleRound \in [1 .. Rules -> Nat \ {0}]
  /\ MaxRound \in Nat \ {0} /\ MaxFailures \in Nat

VARIABLES batch,     \* the round, the active rule and the round it was activated in
          record,    \* the recorded concurrency of each round
          entry,     \* the pass in flight of each scheduler, if there is one
          pass,      \* where it is and what it read
          call,      \* the changes, and the calls made after them
          seen,      \* history: changes some pass has read
          late,      \* history: calls made between a last check and a removal
          failures

vars == <<batch, record, entry, pass, call, seen, late, failures>>

Base == 0      \* no rule: the base concurrency of the policy
Unrecorded == -1

NoPass == [at |-> "none", round |-> 0, rule |-> Base, decision |-> Base, transition |-> FALSE]

Begun == [NoPass EXCEPT !.at = "begun"]

Init ==
  /\ batch = [round |-> 1, rule |-> Base, since |-> 0]
  /\ record = [r \in 1 .. MaxRound |-> Unrecorded]
  /\ entry = [s \in Schedulers |-> [state |-> "absent", again |-> FALSE]]
  /\ pass = [s \in Schedulers |-> NoPass]
  /\ call = [c \in Changes |-> [status |-> "new", by |-> {}]]
  /\ seen = {} /\ late = {} /\ failures = 0

-----------------------------------------------------------------------------
(* Requests. *)

\* A change of the batch is committed: a run to reserve, a free slot, a resumption.
Commit(c) ==
  /\ call[c].status = "new"
  /\ call' = [call EXCEPT ![c].status = "committed"]
  /\ UNCHANGED <<batch, record, entry, pass, seen, late, failures>>

RequestForgotten(s) ==
  IF entry[s].state = "absent"
    THEN /\ entry' = [entry EXCEPT ![s] = [state |-> "running", again |-> FALSE]]
         /\ pass' = [pass EXCEPT ![s] = Begun]
    ELSE UNCHANGED <<entry, pass>>

\* The first request starts a pass; later ones ask for another, as long as somebody listens.
Request(s) ==
  IF entry[s].state = "absent"
    THEN /\ entry' = [entry EXCEPT ![s] = [state |-> "running", again |-> FALSE]]
         /\ pass' = [pass EXCEPT ![s] = Begun]
    ELSE /\ entry' = [entry EXCEPT ![s].again = (entry[s].state = "running")]
         /\ UNCHANGED pass

\* Whoever made the change asks for a pass and waits for the result, which may be there already.
Schedule(c, s) ==
  /\ call[c].status = "committed"
  /\ Request(s)
  /\ call' = [call EXCEPT ![c] =
       [status |-> IF entry[s].state = "settled" THEN "answered"
                   ELSE IF entry[s].state = "failed" THEN "rejected" ELSE "waiting",
        by |-> {s}]]
  /\ late' = IF entry[s].state = "settled" THEN late \union {c} ELSE late
  /\ UNCHANGED <<batch, record, seen, failures>>

\* Each claim of a runner asks for a pass as well.
Poll(s) ==
  /\ entry[s].state \in {"absent", "running"}
  /\ Request(s)
  /\ UNCHANGED <<batch, record, call, seen, late, failures>>

-----------------------------------------------------------------------------
(* A pass. *)

Committed == {c \in Changes : call[c].status # "new"}

\* Rules behind the active one are judged in their own round, one change per round.
Eligible(state, rules) ==
  IF state.rule # Base /\ state.since = state.round THEN {}
  ELSE {i \in rules : i > state.rule /\ RuleRound[i] = state.round}

\* Which rules match depends on the pass rate and the runs that remain when the snapshot is read.
ReadSnapshot(s, matching) ==
  /\ pass[s].at = "begun"
  /\ seen' = seen \union Committed
  /\ LET matched == Eligible(batch, matching)
     IN  pass' = [pass EXCEPT ![s] =
           [at |-> "read", round |-> batch.round, rule |-> batch.rule,
            decision |-> IF matched = {} THEN batch.rule ELSE Min(matched),
            transition |-> matched # {}]]
  /\ UNCHANGED <<batch, record, entry, call, late, failures>>

\* Nothing is schedulable, or the batch is paused.
ReadNothing(s) ==
  /\ pass[s].at = "begun"
  /\ seen' = seen \union Committed
  /\ pass' = [pass EXCEPT ![s].at = "done"]
  /\ UNCHANGED <<batch, record, entry, call, late, failures>>

ActivationUnchecked(p) == "activate"

\* retryConcurrencyActivationDecision
Activation(p) ==
  IF batch.round # p.round \/ (batch.rule # p.rule /\ batch.rule = Base) THEN "stale"
  ELSE IF \/ batch.rule # p.rule
          \/ batch.rule # Base /\ (p.round <= batch.since \/ p.decision <= batch.rule)
    THEN "unchanged" ELSE "activate"

ActivateRetryConcurrency(s) ==
  /\ pass[s].at = "read" /\ pass[s].transition
  /\ LET p == pass[s]
         activation == Activation(p)
     IN  /\ batch' = IF activation = "activate"
                       THEN [batch EXCEPT !.rule = p.decision, !.since = p.round] ELSE batch
         /\ pass' = [pass EXCEPT
              ![s].at = IF activation = "stale" THEN "done" ELSE "activated",
              ![s].decision = IF activation = "unchanged" THEN batch.rule ELSE @]
  /\ UNCHANGED <<record, entry, call, seen, late, failures>>

\* Only the pass that saw the transition corrects a round that is recorded already.
RecordRoundConcurrency(s) ==
  /\ pass[s].at = IF pass[s].transition THEN "activated" ELSE "read"
  /\ record' = IF record[pass[s].round] = Unrecorded \/ pass[s].transition
                 THEN [record EXCEPT ![pass[s].round] = pass[s].decision] ELSE record
  /\ pass' = [pass EXCEPT ![s].at = "done"]
  /\ UNCHANGED <<batch, entry, call, seen, late, failures>>

\* The calls that wait for a scheduler get its result.
Told(s, answer) ==
  [c \in Changes |-> IF call[c].status = "waiting" /\ s \in call[c].by
                       THEN [call[c] EXCEPT !.status = answer] ELSE call[c]]

\* A request since the start of this pass is good for one more.
PassEnds(s) ==
  /\ pass[s].at = "done"
  /\ IF entry[s].again
       THEN /\ entry' = [entry EXCEPT ![s].again = FALSE]
            /\ pass' = [pass EXCEPT ![s] = Begun]
            /\ UNCHANGED call
       ELSE /\ entry' = [entry EXCEPT ![s].state = "settled"]
            /\ pass' = [pass EXCEPT ![s] = NoPass]
            /\ call' = Told(s, "answered")
  /\ UNCHANGED <<batch, record, seen, late, failures>>

\* A failure rejects all who wait, and with them the request for one more pass.
PassFails(s) ==
  /\ pass[s].at # "none" /\ failures < MaxFailures
  /\ failures' = failures + 1
  /\ entry' = [entry EXCEPT ![s] = [state |-> "failed", again |-> FALSE]]
  /\ pass' = [pass EXCEPT ![s] = NoPass]
  /\ call' = Told(s, "rejected")
  /\ UNCHANGED <<batch, record, seen, late>>

RemoveEntryOnSuccessOnly(s) ==
  /\ entry[s].state = "settled"
  /\ entry' = [entry EXCEPT ![s] = [state |-> "absent", again |-> FALSE]]
  /\ UNCHANGED <<batch, record, pass, call, seen, late, failures>>

\* The entry leaves the map some microtasks after the last check.
RemoveEntry(s) ==
  /\ entry[s].state \in {"settled", "failed"}
  /\ entry' = [entry EXCEPT ![s] = [state |-> "absent", again |-> FALSE]]
  /\ UNCHANGED <<batch, record, pass, call, seen, late, failures>>

\* The batch goes on to its next round (ReleaseRound of ExecutionControl).
AdvanceRound ==
  /\ batch.round < MaxRound
  /\ batch' = [batch EXCEPT !.round = @ + 1]
  /\ UNCHANGED <<record, entry, pass, call, seen, late, failures>>

-----------------------------------------------------------------------------
Work(s) ==
  \/ \E matching \in SUBSET (1 .. Rules) : ReadSnapshot(s, matching)
  \/ ReadNothing(s) \/ ActivateRetryConcurrency(s) \/ RecordRoundConcurrency(s) \/ PassEnds(s)
  \/ RemoveEntry(s)

Next ==
  \/ \E c \in Changes : Commit(c) \/ \E s \in Schedulers : Schedule(c, s)
  \/ \E s \in Schedulers : Work(s) \/ Poll(s) \/ PassFails(s)
  \/ AdvanceRound

Spec == Init /\ [][Next]_vars

\* A pass that has begun goes on, and some runner claims time and again.
FairSpec ==
  /\ Spec /\ \A s \in Schedulers : WF_vars(Work(s))
  /\ WF_vars(\E s \in Schedulers : entry[s].state = "absent" /\ Poll(s))

-----------------------------------------------------------------------------
(* Properties. *)

\* The rule in force gives way only to one behind it, in a later round.
RulesAdvance ==
  batch'.rule # batch.rule => batch'.rule > batch.rule /\ batch.since < batch'.since

\* What a round is recorded with is never taken back, and a later round is never
\* recorded with an earlier rule.
RecordsAdvance ==
  \A r \in 1 .. MaxRound :
    /\ record[r] <= record'[r]
    /\ \A q \in r .. MaxRound : record'[q] # Unrecorded => record'[r] <= record'[q]

\* Once it is recorded, the round of an activation is recorded with the active rule.
RecordMatchesRule ==
  (failures = 0 /\ batch.rule # Base /\ \A s \in Schedulers : pass[s].at # "activated") =>
    record[batch.since] \in {Unrecorded, batch.rule}

(***************************************************************************)
(* However old the snapshots of the schedulers are, the concurrency moves  *)
(* forward through the rules, and its record with it (case-suite.ts:125,   *)
(* retryConcurrencyActivationDecision, recordRoundConcurrency); as long as *)
(* no pass fails between its two transactions, what is recorded for a      *)
(* round is what it runs with (README.md:287).                             *)
(***************************************************************************)
RoundConcurrency == [][RulesAdvance /\ RecordsAdvance /\ RecordMatchesRule]_vars

(***************************************************************************)
(* Whoever gets an answer to a request knows that a pass has read the      *)
(* change it was made for (coalesced-operation.ts:2: merging requests does *)
(* not lose what was committed after the leading pass read its snapshot),  *)
(* whatever is merged, fails or runs on another scheduler.  There is one   *)
(* gap, between the last check of a merged operation and its removal from  *)
(* the map, a few microtasks later.                                        *)
(***************************************************************************)
AnsweredChangesAreSeen ==
  \A c \in Changes : call[c].status = "answered" => c \in seen \union late

(***************************************************************************)
(* Every change is read by some pass in the end, also if its request was   *)
(* late or rejected or its maker never asked: the claims of runners ask    *)
(* again (control-executions.ts:89).                                       *)
(***************************************************************************)
EveryChangeIsSeen == \A c \in Changes : call[c].status = "committed" ~> c \in seen

=============================================================================
