SPECIFICATION FairSpec
CONSTANTS
    a = a
    b = b
    c = c
    None = None
    Users = {a, b}
    Gifts = {0}
    MaxPosts = 1
    MaxOpens = 2
    MaxTaps = 1
    MaxTransfers = 0
    MaxFaults = 0
PROPERTIES ResetsNotTheOther
