SPECIFICATION FairSpec
CONSTANTS
  Schedulers = {s1, s2}
  Changes = {c1}
  Rules = 3
  RuleRound <- RuleRounds
  MaxRound = 2
  MaxFailures = 2
INVARIANT AnsweredChangesAreSeen
PROPERTIES
  RoundConcurrency
  EveryChangeIsSeen
CHECK_DEADLOCK FALSE
