SPECIFICATION Spec
CONSTANTS
    None = None
    Turn = {t1}
    t1 = t1
    Manifest <- MCManifest
    Questions <- MCQuestions
    CONTEXT_CHUNK_CAP = 2
    SearchLimit = 2
    MaxChanges = 1
    MaxFaults = 1
INVARIANTS
    TypeOK
    Indexed
    NothingOverlooked
    CitesItsVersion
PROPERTY
    EventuallyCurrent
CHECK_DEADLOCK FALSE
