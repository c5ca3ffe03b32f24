CONSTANTS
    a1 = a1
    a2 = a2
    b1 = b1
    b2 = b2
    b3 = b3
    A = {a1, a2}
    B = {b1, b2, b3}
    NoRow = NoRow
    None = None
    Absent = None
    Previews <- MCPreviews
    Amount <- MCAmount
    Date <- MCDate
    Tol = 0
    Spread = 90
    Patient = TRUE
    MaxUploads = 2
    MaxItems = 4
SPECIFICATION Spec
INVARIANTS
    TypeOK
    BookedOnce
    NoRowBothWays
    SettledNotOffered
    CardsShowTheirItems
PROPERTIES
    ConfirmedForGood
    RowsKept
CHECK_DEADLOCK FALSE
