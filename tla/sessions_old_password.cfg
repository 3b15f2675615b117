\* Two monitors of one panel, one user with a password.
CONSTANTS
    Tabs = {a, b}
    PanelTabs = {a, b}
    Users = {u}
    Apis = {x, y}
    MaxClients = 3
    MaxScopes = 1
    MaxTokens = 1
    MaxEvents = 3
    Events = {"panel in", "password", "close"}
    Guest = guest
    Free = free
    NoTab = noTab
    NoDocument = noDocument

SPECIFICATION Spec
SYMMETRY Symmetry
INVARIANTS
    OldPasswordIsOut

CHECK_DEADLOCK FALSE
