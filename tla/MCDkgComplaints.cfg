SPECIFICATION CalmSpec
CONSTANTS
    N = 3
    Threshold = 1
    Sessions = TRUE
    KeySaveFails = FALSE
    Undecryptable <- FirstToSecond
    WrongOpen = {}
    BadCommitments = {3}
    MaxEpoch = 1
    MaxCrashes = 0
CHECK_DEADLOCK FALSE
INVARIANTS
    OneGroupKey
    
