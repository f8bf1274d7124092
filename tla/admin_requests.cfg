SPECIFICATION FairSpec
CONSTANTS
    p1 = p1
    p2 = p2
    Numeral <- Numerals
    Duration <- Lengths
    Lower <- Folds
    BadRegexes = {"(", "["}
    NoConfig = NoConfig
    NoSpec = NoSpec
    NoRow = NoRow
    Users = {"root", "ann"}
    Accounts <- Names
    Chals <- OneChal
    Adms <- TwoReqs
    Inputs <- Asks
    Texts <- Templates
    RolesOf <- Staffing
    MaxFiles = 1
    MaxFaults = 1
    MaxRequests = 2
CHECK_DEADLOCK FALSE
INVARIANTS
    TypeOK
    AuthorsWriteOwned
    AuthorsAreStaff
    AuditIsTrue
    ChangesAudited
PROPERTIES
    AuthorsAskedFor
    WritesAreWhole
    RequestsEnd
