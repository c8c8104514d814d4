\* Three signals, a queue of one and one task slot.
CONSTANTS
    s1 = s1  s2 = s2  s3 = s3  c1 = c1  c2 = c2
    NoItem = NoItem
    Signals <- ThreeSignals
    Components <- OneComponent
    ComponentOf <- SameComponent
    QueueMax = 1
    Concurrency = 1
    MaxRetries = 3
    MaxFaults = 0
    MaxCrashes = 0
    MaxTransitions = 0
SPECIFICATION Spec
INVARIANTS
    BufferBounded
