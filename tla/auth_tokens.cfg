SPECIFICATION FairSpec
CONSTANTS
    p1 = p1
    p2 = p2
    Usernames = {"ann", "bob"}
    Emails = {"A@x", "a@x", "b@x"}
    Fold <- LowerCase
    Given = {"player", "judge"}
    Reqs <- TwoReqs
    TTL = 1
    MaxUsers = 2
INVARIANTS TypeOK EmailsDistinct
PROPERTIES UpdatesTakeEffect
