\* Two requests at a time on one item.
CONSTANTS
    r1 = r1  r2 = r2  i1 = i1
    NoRequest = NoRequest
    NoItem = NoItem
    Requests <- TwoRequests
    Items <- OneItem
SPECIFICATION Spec
PROPERTIES
    ClosedIsTerminal
