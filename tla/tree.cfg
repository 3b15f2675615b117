\* Two changes of a small tree, and what is cut or copied once.

SPECIFICATION Spec
CONSTANTS
    c = c
    d = d
    w = w
    e = e
    p = p
    q = q
    g = g
    h = h
    chromeG = chromeG
    chromeH = chromeH
    Widgets = {c, d, w, e}
    Containers = {c, d, e}
    Pages = {p, q}
    Groups = {g, h}
    Chrome <- MCChrome
    Region = region
    PagesRoot = pages
    DialogsRoot = dialogs
    Start <- MCStart
    StartDirty = {}
    MaxSteps = 2
    MaxClips = 1
    MaxBatch = 2
    StaleCuts = FALSE
INVARIANTS
    TypeOK
PROPERTIES
    MovesLoseNothing
    ChangedPagesAreDirty
    LandsWhereShown
\* The author, the other writers and the faults are bounded: then nothing happens.
CHECK_DEADLOCK FALSE
