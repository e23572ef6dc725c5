SPECIFICATION Spec
CONSTANTS
    a = a
    b = b
    c = c
    g = g
    h = h
    s = s
    None = None
    Users = {a, b}
    Groups = {g, h}
    Slots = {s}
    InitSupports = 1
    MaxEntries = 2
    MaxTaps = 2
    MaxFaults = 1
CONSTRAINT OneEntryOrSupports
SYMMETRY Symmetry
INVARIANTS
    TypeOK
    SupportsAddUp
    CreatorStaysOut
    ListensToSelection
