\* One writing request and one reader on one item over its whole life, and a worker
\* that adds a signal.
CONSTANTS
    r1 = r1  i1 = i1  q1 = q1
    NoRequest = NoRequest
    NoItem = NoItem
    Board = Board
    Requests <- OneRequest
    Items <- OneItem
    Readers <- OneReader
    MaxRevisions = 5
    MaxSignals = 1
SPECIFICATION CacheFairSpec
INVARIANTS
    CacheTypeOK
    CacheShowsCommitted
    TotalCoversItems
PROPERTIES
    CacheConverges
