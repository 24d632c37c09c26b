SPECIFICATION FairSpec
CONSTANTS
  Sizes = {1, 2, 3, 5, 7, 8, 9}
  BatchSize = 2
  NumEpochs = 2
  NumProcs = 2
  NumWorkers = 2
CHECK_DEADLOCK FALSE
INVARIANTS
  PassesPartition
  EpochsArePasses
  OwnReader
PROPERTIES
  EvenSharesEnd
