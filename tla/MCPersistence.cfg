SPECIFICATION MCSpec
CONSTANTS
    a = a
    x = x
    y = y
    z = z
    s1 = s1
    s2 = s2
    p1 = p1
    p2 = p2
    Senders = {a}
    NoSender = NoSender
    IDs = {x, y, z}
    NoID = NoID
    Heights = {0}
    Rounds = {0}
    Messages <- MCMessages
    Corrupt = Corrupt
    NoTail = NoTail
    MaxAppends = 5
    LastStates = {s1, s2}
    NotFound = NotFound
    Absent = Absent
    Bad = Bad
    Parties = {p1, p2}
    ConfiguredT = 0
    MaxEpoch = 2
    NoSession = NoSession
    MaxSaveErrors = 1
    MaxDeaths = 1
SYMMETRY Perms
CHECK_DEADLOCK FALSE
INVARIANTS
    LogFollowsCalls
    AtomicOnceHealed
    KillKeepsReturned
    DoneHasKeyShare
    
    
PROPERTIES
    ImplementsStore
    
