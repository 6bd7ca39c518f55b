--------------------------- MODULE MCPostgresControl ---------------------------
EXTENDS PostgresControl, TLC

PassOrAssert ==
  {[status |-> "succeeded", code |-> "passed"], [status |-> "failed", code |-> "assertion"]}

NoRecovery == [p \in RecoverySteps |-> 1]

RunSymmetry == Permutations(Runs)
=============================================================================
