SPECIFICATION FairSpec
CONSTANTS
    p1 = p1
    p2 = p2
    p3 = p3
    Reqs <- Two
    Window = 2
    Max = 2
    Redis = TRUE
    Faults <- None
    MaxCrashes = 1
PROPERTIES
    WindowEnds
