SPECIFICATION FairSpec
CONSTANTS
    Users = {u1}
    Chals = {c1}
    Reqs = {p1}
    Admins = {}
    Bg = bg
    NoProc = NoProc
    NoKey = NoKey
    Configs <- Unpublishable
    MaxTTL = 1
    PortMin = 1
    PortMax = 1
    DockerPorts = {}
    Faults = {"db", "lost", "start", "remove", "inspect", "stop", "exit"}
    Stuck = {}
    MaxRows = 2
    MaxConts = 2
    MaxTime = 1
    MaxCrashes = 1
PROPERTIES ExpiredReclaimed DeadRowTerminated OrphanReclaimed
