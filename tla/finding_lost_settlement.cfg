SPECIFICATION PgSpec
CONSTANTS
  r1 = r1
  r2 = r2
  Runs = {r1, r2}
  AttemptNumbers = {1, 2}
  Results <- PassOrAssert
  RetryMode = "round"
  RetryLimit = 1
  MaxRunnerReschedules = 0
  BatchConcurrency = 2
  RecoverySteps = {}
  AfterRound <- NoRecovery
  Lapsing = {"lease"}
  MaxFailures = 0
SYMMETRY RunSymmetry
INVARIANT SettledWhenQuiet
CHECK_DEADLOCK FALSE
