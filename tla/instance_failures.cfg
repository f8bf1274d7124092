SPECIFICATION Spec
CONSTANTS
    Users = {u1, u2}
    Chals = {c1}
    Reqs = {p1}
    Admins = {a1}
    Bg = bg
    NoProc = NoProc
    NoKey = NoKey
    Configs <- LooseOnly
    MaxTTL = 1
    PortMin = 1
    PortMax = 2
    DockerPorts = {}
    Faults <- AllFaults
    Stuck = {}
    MaxRows = 2
    MaxConts = 3
    MaxTime = 1
    MaxCrashes = 1
SYMMETRY Symmetry
INVARIANTS TypeOK StoppedBeforeTerminated DistinctActivePorts ContainersOwnedOnce
