SPECIFICATION FairSpec
CONSTANTS
    Users = {u1, u2}
    Chals = {c1}
    Reqs = {p1}
    Admins = {}
    Bg = bg
    NoProc = NoProc
    NoKey = NoKey
    Configs <- LooseOnly
    MaxTTL = 1
    PortMin = 1
    PortMax = 2
    DockerPorts = {}
    Faults = {}
    Stuck = {1}
    MaxRows = 2
    MaxConts = 2
    MaxTime = 2
    MaxCrashes = 0

PROPERTIES ExpiredAlwaysReclaimed
