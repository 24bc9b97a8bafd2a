SPECIFICATION RacingSpec
CONSTANTS
    N = 2
    Threshold = 2
    Sessions = TRUE
    KeySaveFails = FALSE
    Undecryptable = {}
    WrongOpen = {}
    BadCommitments = {}
    MaxEpoch = 2
    MaxCrashes = 1
CHECK_DEADLOCK FALSE
INVARIANT SharesVerified
