SPECIFICATION FairSpec
CONSTANTS
  NumBatches = 9
  StepsPerEpoch = 1
  GlobalBatch = 2
  BufferSize = 2
  Patience = 3
  Delay = 2
  KeepLatest = 2
  KeepBest = 1
  Scores = {0, 1, 2}
  SaveCheckpoints = FALSE
  ValidateRestores = FALSE
  MaxSessions = 1
CHECK_DEADLOCK FALSE
INVARIANTS
  EarlyStopExactlyWhenSpent
