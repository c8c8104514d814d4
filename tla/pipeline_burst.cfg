\* Two signals, two task slots, nothing fails.
CONSTANTS
    s1 = s1  s2 = s2  s3 = s3  c1 = c1  c2 = c2
    NoItem = NoItem
    Signals <- TwoSignals
    Components <- OneComponent
    ComponentOf <- SameComponent
    QueueMax = 2
    Concurrency = 2
    MaxRetries = 3
    MaxFaults = 0
    MaxCrashes = 0
    MaxTransitions = 0
SPECIFICATION Spec
INVARIANTS
    OneItemPerBurst
