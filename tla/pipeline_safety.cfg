\* Three signals of one component, two task slots, failed calls (enough of
\* them for a signal to use up its attempts), a restart and operators at work.
CONSTANTS
    s1 = s1  s2 = s2  s3 = s3  c1 = c1  c2 = c2
    NoItem = NoItem
    Signals <- ThreeSignals
    Components <- OneComponent
    ComponentOf <- SameComponent
    QueueMax = 1
    Concurrency = 2
    MaxRetries = 3
    MaxFaults = 3
    MaxCrashes = 1
    MaxTransitions = 2
SYMMETRY SameSymmetry
SPECIFICATION Spec
INVARIANTS
    TypeOK
    AuditBeforeCount
    CountMatchesCredits
    LinkMatchesCredit
    PermitsAccounted
    AlertBeforeItem
    UnresolvedWithinSlots
PROPERTIES
    ImplementsLedger
