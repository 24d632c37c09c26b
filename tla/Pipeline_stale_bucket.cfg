SPECIFICATION Spec
CONSTANTS
  Drivers = {"kind"}
  TrialCounts <- MCTrialCounts
  PerWorker <- MCPerWorker
  NumTiers = 3
  NumEpochs = 2
  MaxRetries = 3
  Scores = {0, 1}
  MaxPipelines = 2
INVARIANT TestsItsOwnModel
CHECK_DEADLOCK FALSE
