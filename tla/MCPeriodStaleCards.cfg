CONSTANTS
    None = None
    Uploads <- MCUploads
    Roles = {"sales", "purchases"}
    DefaultRates = {None, 0}
    s1 = s1
    s2 = s2
    Slot = {s1, s2}
    MaxBatches = 2
    MaxMishaps = 1
SYMMETRY SymmetrySlot
SPECIFICATION Spec
INVARIANTS
    UndecidedNotReclaimed
CHECK_DEADLOCK FALSE
