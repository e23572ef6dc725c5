SPECIFICATION FairSpec
CONSTANTS
    a = a
    b = b
    c = c
    None = None
    Users = {a, b}
    Gifts = {1}
    MaxPosts = 1
    MaxOpens = 2
    MaxTaps = 2
    MaxTransfers = 1
    MaxFaults = 1
CONSTRAINT TwoCommits
INVARIANTS TypeOK OpeningClearsBadge   ReadWasOpened
 
