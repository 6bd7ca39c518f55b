SPECIFICATION FairPgSpec
CONSTANTS
  r1 = r1
  r2 = r2
  Runs = {r1, r2}
  AttemptNumbers = {1}
  Results <- PassOrAssert
  RetryMode = "round"
  RetryLimit = 1
  MaxRunnerReschedules = 0
  BatchConcurrency = 2
  RecoverySteps = {}
  AfterRound <- NoRecovery
  Lapsing = {"lease", "claim", "queue"}
  MaxFailures = 1
INVARIANTS
  ClosedOnlyWhenSettled
  SettledUnlessOverlapped
PROPERTIES
  FinalStaysFinal
  TerminatedBatchCloses
CHECK_DEADLOCK FALSE
