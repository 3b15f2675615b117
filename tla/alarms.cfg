CONSTANTS
    t1 = t1
    t2 = t2
    Tags = {t1, t2}
    StaticTags = {t2}
    Roots <- MCRoots
    Clients = {c1, c2}
    Drafts <- MCDrafts
    MaxHistory = 1
    MaxClock = 4
    MaxEdits = 1
    MaxQueue = 1
    NoTag = NoTag
    NoValue = NoValue
    NoId = NoId
    NoWork = NoWork
    NoDocument = NoDocument
    Nobody = Nobody
    All = All
    Nothing = Nothing

SPECIFICATION Spec
SYMMETRY Symmetry
INVARIANTS
    TypeOK
    AlarmsAreDistinct
    AlarmFollowsTag
    DiskIsCurrent
    TrailAgrees
    ViewIsCurrent
PROPERTIES
    OccurrencesStand

CHECK_DEADLOCK FALSE
