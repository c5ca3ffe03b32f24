CONSTANTS
    A = {a1, a2, a3}
    B = {b1, b2, b3}
    NoRow = NoRow
    None = None
    Absent = None
    id <- MCId
    Cells <- MCCells
    Tol = 2
    Days = 1
SPECIFICATION Spec
SYMMETRY Symmetry
INVARIANTS
    TypeOK
    EveryRowSurfaces
    EachRowClaimedOnce
    CleanMatchesAgree
    PlausiblePairsShown
    ReferenceDecides
CHECK_DEADLOCK FALSE
