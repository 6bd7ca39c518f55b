--------------------------- MODULE MCExecutionControl ---------------------------
(* Constants of ExecutionControl for the model checker.                    *)
EXTENDS ExecutionControl, TLC

\* One report of every kind that the retry decision tells apart.
EveryKind ==
  {[status |-> "succeeded", code |-> "passed"], [status |-> "failed", code |-> "assertion"],
   [status |-> "failed", code |-> "runner"], [status |-> "timed_out", code |-> "abnormal"]}

PassOrAssert ==
  {[status |-> "succeeded", code |-> "passed"], [status |-> "failed", code |-> "assertion"]}

NoRecovery == [p \in RecoverySteps |-> 1]

RunSymmetry == Permutations(Runs)
=============================================================================
