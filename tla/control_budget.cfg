SPECIFICATION Spec
CONSTANTS
  r1 = r1
  Runs = {r1}
  AttemptNumbers = {1, 2, 3, 4, 5}
  Results <- EveryKind
  RetryMode = "immediate"
  RetryLimit = 1
  MaxRunnerReschedules = 2
  BatchConcurrency = 1
  RecoverySteps = {}
  AfterRound <- NoRecovery
INVARIANTS
  RetryBudget
  VerdictMatchesRuns
CHECK_DEADLOCK FALSE
