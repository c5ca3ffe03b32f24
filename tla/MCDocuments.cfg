SPECIFICATION Spec
CONSTANTS
    None = None
    All = All
    r1 = r1
    r2 = r2
    Request = {r1, r2}
    Asked <- MCAsked
    MaxFaults = 1
INVARIANT
    AnswerDeserved

    
CHECK_DEADLOCK FALSE
