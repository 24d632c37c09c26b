\* Every handler while versions and embeddings change.
SPECIFICATION Spec
CONSTANTS
    Requests = {r1}
    Asks <- AllAsks
    Updaters = {u1}
    MaxQuery = 2
    MaxRanker = 3
    BatchSize <- Batches
    NumCandidates <- Candidates
    MaxEmbeddings = 2
    CatalogSize <- Growing
\* every request ends
CHECK_DEADLOCK FALSE
INVARIANTS
  AnswerPerUser
  
PROPERTIES
  RequestsEnd
