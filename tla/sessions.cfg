\* Two monitors of one panel, one user with a password.
CONSTANTS
    Tabs = {a, b}
    PanelTabs = {a, b}
    Users = {u}
    Apis = {x, y}
    MaxClients = 3
    MaxScopes = 2
    MaxTokens = 2
    MaxEvents = 2
    Events = {"panel in", "panel out", "delete", "close", "drop"}
    Guest = guest
    Free = free
    NoTab = noTab
    NoDocument = noDocument

SPECIFICATION Spec
SYMMETRY Symmetry
INVARIANTS
    TypeOK
    RevokedIsOut
    TabShowsWhatIsHeld

CHECK_DEADLOCK FALSE
