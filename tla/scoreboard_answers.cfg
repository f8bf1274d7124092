SPECIFICATION FairSpec
CONSTANTS
    p1 = p1
    p2 = p2
    c1 = c1
    Users = {1, 2}
    Chals <- OneChal
    Points <- Worth
    Boards <- TwoBoards
    PoolSize = 3
    Errors = TRUE
    MaxSolves = 1
INVARIANTS
    TypeOK
    PoolNeverExhausted
    SolvesExplainScore
    ScoresNeverDrop
PROPERTIES
    BoardAnswered
