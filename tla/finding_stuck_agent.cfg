SPECIFICATION FairSpec
CONSTANTS
  Chunks = 1
  OtherRunners = FALSE
  MaxFaults = 1
PROPERTY AgentServesAgain
CHECK_DEADLOCK FALSE
