SPECIFICATION FairSpec
CONSTANTS
  j1 = j1
  j2 = j2
  w1 = w1
  w2 = w2
  Jobs = {j1, j2}
  Workers = {w1, w2}
  Serves <- Shared
  Rank <- Ranks
  Concurrency = 2
  MaximumDeliveries = 2
  MaxFailures = 2
  MaxDisturbances = 1
  MaxRedrives = 1
INVARIANTS
  OneHandlerUnlessDisturbed
  RestartsHaveCauses
PROPERTIES
  DeliversAsPromised
  EveryJobSettles
