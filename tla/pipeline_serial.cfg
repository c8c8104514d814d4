\* One task slot: no two transactions overlap.
CONSTANTS
    s1 = s1  s2 = s2  s3 = s3  c1 = c1  c2 = c2
    NoItem = NoItem
    Signals <- ThreeSignals
    Components <- TwoComponents
    ComponentOf <- SplitComponents
    QueueMax = 2
    Concurrency = 1
    MaxRetries = 3
    MaxFaults = 2
    MaxCrashes = 1
    MaxTransitions = 0
SPECIFICATION FairSpec
INVARIANTS
    OneItemPerBurst
PROPERTIES
    AcceptedSignalLands
