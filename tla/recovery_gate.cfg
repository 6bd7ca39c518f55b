SPECIFICATION RecoverySpec
CONSTANTS
  r1 = r1
  p1 = p1
  p2 = p2
  w1 = w1
  w2 = w2
  Runs = {r1}
  AttemptNumbers = {1, 2}
  Results <- OnlyAssert
  RetryMode = "round"
  RetryLimit = 1
  MaxRunnerReschedules = 0
  BatchConcurrency = 1
  RecoverySteps = {p1, p2}
  AfterRound <- BothAfterFirst
  Workers = {w1, w2}
  Name <- SameName
  MaxPollFailures = 0
  MaxDisturbances = 0
  MaxRebuilds = 0
  Stalls = TRUE
SYMMETRY Interchangeable
INVARIANTS
  ReleaseGate
  EndingsStand
CHECK_DEADLOCK FALSE
