CONSTANTS
    Projects = {p1}
    Clients = {c1}
    Ports = {q1, q2}
    Kids = {k1, k2, k3}
    MaxRestarts = 2
    MaxStamps = 3
    MaxBoots = 1
    Conds = {"ok"}
    Events = {"start"}
    Nobody = Nobody
    NoPort = NoPort
    NoKid = NoKid

SPECIFICATION Spec
INVARIANTS
    OneChildPerProject

CHECK_DEADLOCK FALSE
