SPECIFICATION Spec
CONSTANTS
  r1 = r1
  r2 = r2
  Runs = {r1, r2}
  AttemptNumbers = {1, 2, 3}
  Results <- PassOrAssert
  RetryMode = "round"
  RetryLimit = 1
  MaxRunnerReschedules = 0
  BatchConcurrency = 2
  RecoverySteps = {}
  AfterRound <- NoRecovery
SYMMETRY RunSymmetry
INVARIANTS
  TypeOK
  LeaseCoversRunningRun
  RunMatchesAttempts
  ReceiptMatchesAttempt
  ClosedIffSettled
  TerminationLeavesClaimedWork
  CancellationDecides
  RoundBarrier
PROPERTIES
  FinalStaysFinal
  PausedIsQuiet
  ValidLeaseIsKept
CHECK_DEADLOCK FALSE
