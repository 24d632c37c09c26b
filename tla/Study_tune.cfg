SPECIFICATION FairSpec
CONSTANTS
  NumWorkers = 2
  NumTrials = 2
  NumTiers = 3
  Scores = {0, 1}
  MaxLaunches = 3
CHECK_DEADLOCK FALSE
INVARIANTS
  SameParameters
  MetricOfItsRun
  NothingTwice
  BestIsTrained
  TuneAccounts
PROPERTIES
  LaunchEnds
