CONSTANTS
    A = {a1, a2, a3}
    B = {b1, b2, b3}
    NoRow = NoRow
    None = None
    Absent = None
    id <- BareId
    Cells <- BareCells
    Tol = 2
    Days = 1
SPECIFICATION Spec
INVARIANTS
    EveryRowSurfaces
CHECK_DEADLOCK FALSE
