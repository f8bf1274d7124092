SPECIFICATION Spec
CONSTANTS
    Users = {u1, u2}
    Chals = {c1}
    Reqs = {p1, p2}
    Admins = {a1}
    Bg = bg
    NoProc = NoProc
    NoKey = NoKey
    Configs <- TightLoose
    MaxTTL = 1
    PortMin = 0
    PortMax = 0
    DockerPorts = {1, 2}
    Faults = {"db", "lost", "exit"}
    Stuck = {}
    MaxRows = 2
    MaxConts = 2
    MaxTime = 2
    MaxCrashes = 0
SYMMETRY Symmetry
INVARIANTS InsertNeverConflicts
PROPERTIES ImplementsLease CapacityRespected CooldownRespected RenewalsWithinLimit
