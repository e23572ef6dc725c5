SPECIFICATION Spec
CONSTANTS
    a = a
    b = b
    c = c
    g = g
    h = h
    s = s
    None = None
    Users = {a, b}
    Groups = {g}
    Slots = {s}
    InitSupports = 1
    MaxEntries = 2
    MaxTaps = 1
    MaxFaults = 0
SYMMETRY Symmetry
INVARIANTS
    CreatorDoesNotSupport
