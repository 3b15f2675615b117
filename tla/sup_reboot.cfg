CONSTANTS
    Projects = {p1}
    Clients = {c1}
    Ports = {q1, q2}
    Kids = {k1}
    MaxRestarts = 2
    MaxStamps = 3
    MaxBoots = 2
    Conds = {"ok", "refused", "migrate"}
    Events = {"start", "shutdown", "kill", "spawnfail", "unkillable"}
    Nobody = Nobody
    NoPort = NoPort
    NoKid = NoKid

SPECIFICATION Spec
SYMMETRY Symmetry
INVARIANTS
    TypeOK
    RespawnBudget
    RunningIsRecorded

CHECK_DEADLOCK FALSE
