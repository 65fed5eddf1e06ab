SPECIFICATION Spec
CONSTANTS
    Devices = {d1, d2}
    Workers = {w1, w2}
    MaxSaves = 5
SYMMETRY MCSymmetry
CHECK_DEADLOCK FALSE
INVARIANTS
    IdentityIsWhole
    SavedIsKept
