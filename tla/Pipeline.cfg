SPECIFICATION Spec
CONSTANTS
  Drivers = {"xmanager", "tmp", "kind", "kfp"}
  TrialCounts <- MCTrialCounts
  PerWorker <- MCPerWorker
  NumTiers = 3
  NumEpochs = 2
  MaxRetries = 3
  Scores = {0, 1}
  MaxPipelines = 2
\* no further pipeline is started after the last
CHECK_DEADLOCK FALSE
INVARIANTS
  PhasesBehindAreDone
  OneWinnerThroughout
  ResultsKeptApart
  FreshStoresFreshResults
PROPERTIES
  OneJobAtATime
  PipelineEnds
