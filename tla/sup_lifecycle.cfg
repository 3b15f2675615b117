CONSTANTS
    Projects = {p1}
    Clients = {c1, c2}
    Ports = {q1, q2}
    Kids = {k1, k2}
    MaxRestarts = 1
    MaxStamps = 2
    MaxBoots = 1
    Conds = {"ok", "unusable"}
    Events = {"stop", "replace", "delete", "shutdown"}
    Nobody = Nobody
    NoPort = NoPort
    NoKid = NoKid

SPECIFICATION FairSpec
INVARIANTS
    OneOperationPerProject
    OneChildPerProject
PROPERTIES
    DownIsDown
    ShutdownTerminatesAll
    NobodyHangs

CHECK_DEADLOCK FALSE
