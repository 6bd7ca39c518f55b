SPECIFICATION FairSpec
CONSTANTS
  Jobs = {j1}
  Relays = {k1, k2}
  Workers = {w1}
  MaximumDeliveries = 2
  MaxPublishAttempts = 2
  MaxDisturbances = 2
  MaxRedrives = 1
INVARIANT
  OneMessagePerJob
PROPERTIES
  DeliversAsPromised
  EveryJobSettles
CHECK_DEADLOCK FALSE
