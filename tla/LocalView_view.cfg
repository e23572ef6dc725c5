SPECIFICATION FairSpec
CONSTANTS
    a = a
    b = b
    m = m
    Absent = Absent
    Users = {a, b}
    Values = {1, 2}
    Elements = {m}
    Foreign <- OthersContents
    FirstUser = a
    Mutations <- AppMutations
    MaxWrites = 2
    MaxOthers = 1
    MaxListens = 2
    MaxFaults = 1
INVARIANTS TypeOK CopyIsHistoryOrGuess ViewIsOverlay SettledIsServer
PROPERTIES CacheNeverGoesBack NoFlicker ListenerCatchesUp
CHECK_DEADLOCK FALSE
