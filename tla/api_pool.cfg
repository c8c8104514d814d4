\* Two requests at a time on one item, one slot of the worker and the health check
\* on two connections.
CONSTANTS
    r1 = r1  r2 = r2  w1 = w1  i1 = i1
    NoRequest = NoRequest
    NoItem = NoItem
    Requests <- TwoRequests
    Workers <- OneWorker
    Items <- OneItem
    Health = Health
    PoolSize = 2
SPECIFICATION PoolFairSpec
INVARIANTS
    PoolTypeOK
    ClosedHasRca
    OneRcaPerItem
    ClosedRecordComplete
    PoolAccounted
    NoCircle
PROPERTIES
    ClosedFiguresFrozen
    ImplementsRecord
    RequestAnswered
    AttemptFinished
