SPECIFICATION FairSpec
CONSTANTS
  Catalog <- MCCatalog
  Recommended <- MCRecommended
  NumCandidates = 5
  MaxHistory = 2
  DataSets <- MCDataSets
CHECK_DEADLOCK FALSE
INVARIANTS
  HistoryIsRecentPast
  RowIsSound
  HardNegativesFirst
PROPERTIES
  SamplingEnds
