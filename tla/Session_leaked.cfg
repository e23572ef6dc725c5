SPECIFICATION SessionSpec
CONSTANTS
    a = a
    b = b
    nobody = nobody
    Users = {a, b, nobody}
    MaxEvents = 3
    MaxPopups = 1
    MaxInvites = 1
SYMMETRY Symmetry
INVARIANTS SignOutRemovesListener
CHECK_DEADLOCK FALSE
