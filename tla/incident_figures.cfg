\* An incident and two components with up to two signals each in every one of three
\* ticks of half a second; a timestamp, and dates, that are further apart than a figure
\* can hold.  A behavior ends with the bounded time.
CONSTANTS
    Components = {c1, c2}
    Window = 2
    Threshold = 3
    MaxTime = 2
    MaxPerTick = 2
    Stamps = {6}
    Dates = {0, 1, 2, 4}
    Second = 2
    IntMax = 1
    MaxItems = 1
SPECIFICATION FiguresSpec
CHECK_DEADLOCK FALSE
INVARIANTS
    FiguresTypeOK
    CountExact
    BurstNoticed
    FiguresExplained
