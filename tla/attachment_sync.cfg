SPECIFICATION Spec
CONSTANTS
    p1 = p1
    p2 = p2
    u1 = u1
    t1 = t1
    t2 = t2
    a = a
    b = b
    Imps <- TwoImports
    Ups <- OneUpload
    Names <- TwoNames
    Stamps <- TwoStamps
    Bodies = {"v1", "v2"}
    Specs <- Templates
    NoFile = NoFile
    Torn = Torn
    MaxIds = 2
    MaxFaults = 1
SYMMETRY Symmetry
INVARIANTS
    TypeOK
    PromisedKept
    DirectoryRebuilt
