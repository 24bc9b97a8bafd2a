SPECIFICATION MCSpec
CONSTANTS
    N = 2
    Threshold = 2
    Sessions = TRUE
    KeySaveFails = FALSE
    Undecryptable <- FirstToSecond
    WrongOpen = {}
    BadCommitments = {}
    MaxEpoch = 2
    MaxCrashes = 2
    Members = {1, 2, 3}
    K = 2
    PrivateTxs <- MCPrivateTxs
    BuildHeights = {0, 1}
    FirstModes = {"threshold", "pending"}
    NoWork = NoWork
    MaxFaults = 1
    p1 = p1
    p2 = p2
    n1 = n1
    n2 = n2
    Signers = {p1, p2}
    Nonces = {n1, n2}
    ConfiguredThreshold = 3
CHECK_DEADLOCK FALSE
INVARIANTS
    
    
    SharesVerified
    DecryptedOnlyWhenDue
    OneSharePerHeight
    OneOutcome
PROPERTIES
    EventuallyDecrypted
    GatherEnds
