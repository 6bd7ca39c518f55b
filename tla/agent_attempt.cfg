SPECIFICATION FairSpec
CONSTANTS
  Chunks = 3
  OtherRunners = TRUE
  MaxFaults = 2
INVARIANTS
  LogsAreKept
  ResultHasItsLogs
  OneVerdict
  NoStrayProcess
PROPERTY
  AgentServesAgain
CHECK_DEADLOCK FALSE
