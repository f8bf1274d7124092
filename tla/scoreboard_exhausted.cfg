SPECIFICATION FairSpec
CONSTANTS
    p1 = p1
    p2 = p2
    c1 = c1
    Users = {1, 2}
    Chals <- OneChal
    Points <- One
    Boards <- TwoBoards
    PoolSize = 2
    Errors = FALSE
    MaxSolves = 1
CHECK_DEADLOCK FALSE
PROPERTIES
    BoardAnswered
