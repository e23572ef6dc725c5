SPECIFICATION Spec
CONSTANTS
    a = a
    nobody = nobody
    Users = {a, nobody}
    kMaxPendingWrites = 4
    MaxWrites = 4
    MaxFaults = 1
    MaxChanges = 0
    MaxKills = 0
INVARIANTS RejectedWasRefused
CHECK_DEADLOCK FALSE
