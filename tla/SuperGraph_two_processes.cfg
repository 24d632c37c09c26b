SPECIFICATION Spec
CONSTANTS
  NumProcesses = 2
  NumLocalDevices = 2
  BatchSize = 1
  MaxHistory = 2
  NumCandidates = 2
  NumLayers = 2
  Granule = 5
  Records <- MCFewSampled
INVARIANT HearsItsHistory
