\* One signal and one failed call.
CONSTANTS
    s1 = s1  s2 = s2  s3 = s3  c1 = c1  c2 = c2
    NoItem = NoItem
    Signals <- OneSignal
    Components <- OneComponent
    ComponentOf <- SameComponent
    QueueMax = 1
    Concurrency = 1
    MaxRetries = 3
    MaxFaults = 1
    MaxCrashes = 0
    MaxTransitions = 0
SPECIFICATION Spec
INVARIANTS
    DiscardNeedsThreeFaults
