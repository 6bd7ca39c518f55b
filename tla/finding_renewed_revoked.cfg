SPECIFICATION FairPgSpec
CONSTANTS
  r1 = r1
  Runs = {r1}
  AttemptNumbers = {1, 2}
  Results <- PassOrAssert
  RetryMode = "immediate"
  RetryLimit = 1
  MaxRunnerReschedules = 0
  BatchConcurrency = 1
  RecoverySteps = {}
  AfterRound <- NoRecovery
  Lapsing = {"lease"}
  MaxFailures = 0
PROPERTY ValidLeaseIsKept
CHECK_DEADLOCK FALSE
