SPECIFICATION FairSpec
CONSTANTS
  r1 = r1
  r2 = r2
  Runs = {r1, r2}
  AttemptNumbers = {1, 2}
  Results = {}
  RetryMode = "round"
  RetryLimit = 1
  MaxRunnerReschedules = 0
  BatchConcurrency = 1
  RecoverySteps = {}
  AfterRound <- NoRecovery
INVARIANT
  ConcurrencyRespected
PROPERTIES
  BatchCloses
  TerminationCompletes
CHECK_DEADLOCK FALSE
