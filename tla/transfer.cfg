\* Two transfers to one destination, two attempts each, two failures or crashes.

SPECIFICATION Spec
CONSTANTS
    t1 = t1
    t2 = t2
    Old = Old
    None = None
    Transfers = {t1, t2}
    Requests <- MCRequests
    MaxAttempts = 2
    MaxTroubles = 2
INVARIANTS
    TypeOK
    ProjectInPlace
PROPERTIES
    NothingIsLost
    VerdictsAreTrue
\* When the attempts and the failures are used up, nothing happens.
CHECK_DEADLOCK FALSE
