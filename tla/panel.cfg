\* Two variables, two pages that bind one and both of them, two events of which one fault.

SPECIFICATION Spec
CONSTANTS
    a = a
    b = b
    p = p
    q = q
    Variables = {a, b}
    Pages = {p, q}
    Bound <- MCBound
    MaxEvents = 2
    MaxFaults = 1
    MaxWire = 2
INVARIANTS
    TypeOK
    ReadyMeansDelivered
    NothingOfAnEarlierSocket
    TheLastFrameCounts
PROPERTIES
    PageSettles
\* When the events are used up and everything is delivered, nothing happens.
CHECK_DEADLOCK FALSE
