SPECIFICATION FairSpec
CONSTANTS
  NumBatches = 7
  StepsPerEpoch = 2
  GlobalBatch = 2
  BufferSize = 2
  Patience = 2
  Delay = 1
  KeepLatest = 2
  KeepBest = 1
  Scores = {0, 1}
  SaveCheckpoints = TRUE
  ValidateRestores = TRUE
  MaxSessions = 3
CHECK_DEADLOCK FALSE
INVARIANTS
  NoBatchTrainedTwice
  BoundedLoss
  CheckpointsInStep
  WorkAtRisk
  BestOnDiskIsReturned
PROPERTIES
  SessionEnds
  RefinesCheckpointedTraining
