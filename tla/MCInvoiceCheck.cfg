SPECIFICATION Spec
CONSTANTS
    None = None
    Garbage = Garbage
    seller = seller
    buyer = buyer
    short = short
    WellFormed <- MCWellFormed
    Today = 5
    Precision = 1000
    File <- MCFile
    Submission <- MCSubmission
    MISMATCH_TOLERANCE = 2
    MaxChecks = 2
    MaxFaults = 1
INVARIANTS
    TypeOK
    CleanIsChecked
    NoiseExcused
    WholeBatch
    DownloadMatchesScreen
