\* Two items on a page of one, of which the older is the more urgent; all of them,
\* or the open ones of priority P3; two requests in flight.
CONSTANTS
    ComponentIds <- TwoComponents
    Filters <- TwoFilters
    Limit = 1
    Slots = {q1, q2}
    MaxChanges = 3
    MaxChoices = 1
    MaxFailures = 1
SPECIFICATION Spec
INVARIANTS
    DashboardTypeOK
    UrgentFirst
    TotalNearList
PROPERTIES
    Settles
