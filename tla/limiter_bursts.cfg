SPECIFICATION Spec
CONSTANTS
    p1 = p1
    p2 = p2
    p3 = p3
    Reqs <- Three
    Window = 3
    Max = 2
    Redis = TRUE
    Faults <- AllFaults
    MaxCrashes = 1
SYMMETRY ThreeReqs
INVARIANTS
    TypeOK
    AdmissionBounded
