SPECIFICATION FairSpec
CONSTANTS
    Users = {u1, u2}
    Chals = {c1}
    Inputs = {"a", "b"}
    Challenges <- AllChallenges
    Points = {50, 100}
    NoPoints = 0
    NoKey = NoKey
    Reqs = {p1, p2}
    Settings = {"running", "frozen"}
    MaxSubs = 2
    MaxFaults = 1
INVARIANTS TypeOK SolveBacked SolvedOnce AcceptedIsRecorded WinnerToldPoints
PROPERTIES ImplementsLedger CorrectIsSolved
