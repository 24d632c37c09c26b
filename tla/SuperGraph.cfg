SPECIFICATION Spec
CONSTANTS
  NumProcesses = 1
  NumLocalDevices = 2
  BatchSize = 3
  MaxHistory = 2
  NumCandidates = 2
  NumLayers = 2
  Granule = 5
  Records <- MCSampled
INVARIANTS
  SuperGraphFits
  EdgesStayHome
  HearsItsHistory
  RowsAreGraphs
  EveryUserCounts
