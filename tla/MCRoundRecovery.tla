----------------------------- MODULE MCRoundRecovery -----------------------------
(* Constants of RoundRecovery for the model checker.                       *)
EXTENDS RoundRecovery, TLC

OnlyAssert == {[status |-> "failed", code |-> "assertion"]}

BothAfterFirst == [p \in RecoverySteps |-> 1]

SameName == [w \in Workers |-> "web-1"]

OwnNames == CHOOSE f \in [Workers -> {"web-1", "web-2"}] :
              \A v, w \in Workers : f[v] = f[w] => v = w

\* Workers of one name and steps of one round are interchangeable.
Interchangeable == Permutations(Workers) \cup Permutations(RecoverySteps)
=============================================================================
