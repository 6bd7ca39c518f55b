----------------------------- MODULE MCScheduling -----------------------------
(* Instances of Scheduling: two rules for the same round and two for different *)
(* rounds, so that both a choice and a succession of rules come up.            *)
EXTENDS Scheduling

RuleRounds == <<1, 2, 2>>

=============================================================================
