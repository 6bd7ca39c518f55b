SPECIFICATION FairRecovery
CONSTANTS
  r1 = r1
  p1 = p1
  p2 = p2
  w1 = w1
  w2 = w2
  Runs = {r1}
  AttemptNumbers = {1}
  Results <- OnlyAssert
  RetryMode = "round"
  RetryLimit = 1
  MaxRunnerReschedules = 0
  BatchConcurrency = 1
  RecoverySteps = {p1, p2}
  AfterRound <- BothAfterFirst
  Workers = {w1, w2}
  Name <- OwnNames
  MaxPollFailures = 1
  MaxDisturbances = 1
  MaxRebuilds = 3
  Stalls = FALSE
INVARIANT
  RebuildOnce
PROPERTIES
  NoRebuildAfterSuccess
  BarrierOpens
CHECK_DEADLOCK FALSE
