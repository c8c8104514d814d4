\* One writing request and one reader on one item, no further signals.
CONSTANTS
    r1 = r1  i1 = i1  q1 = q1
    NoRequest = NoRequest
    NoItem = NoItem
    Board = Board
    Requests <- OneRequest
    Items <- OneItem
    Readers <- OneReader
    MaxRevisions = 2
    MaxSignals = 0
SPECIFICATION CacheSpec
INVARIANTS
    QuietCacheFresh
