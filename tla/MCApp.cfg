CONSTANTS
    None = None
    Emails = {e1}
    Browsers = {b1}
    Pages = {b1}
    Passwords = {p1}
    Request = {r1, r2, r3}
    Names = {n1}
    Turn = {t1, t2, t3}
    MessageCap = 3
    Durable = TRUE
    MaxMade = 3
SPECIFICATION Spec
INVARIANTS
    TypeOK
    LockedOutByMail
    FlagMeansCall
    Conversation
    RememberedTurn
    GuestUnlessGranted
PROPERTIES
    AtomicAccounts
    EveryTurnEnds
CHECK_DEADLOCK FALSE
