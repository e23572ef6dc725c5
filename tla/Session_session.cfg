SPECIFICATION SessionSpec
CONSTANTS
    a = a
    b = b
    nobody = nobody
    Users = {a, b, nobody}
    MaxEvents = 3
    MaxPopups = 1
    MaxInvites = 1
SYMMETRY Symmetry
INVARIANTS TypeOK StreamTokenCurrent SyncFollowsAuth StartHasRequest OneListener CoversAccounted
CHECK_DEADLOCK FALSE
