SPECIFICATION ServiceSpec
CONSTANTS
    a = a
    stub = stub
    x = x
    y = y
    Senders = {a, stub}
    NoSender = NoSender
    IDs = {x, y}
    NoID = NoID
    Heights = {0, 1}
    Rounds = {0, 1, 2}
    Types_ = {"prepare"}
    Rounds_ = {1, 2}
    Messages <- MCMessages
    Leader = NoSender
    Nil = Nil
    MinHeight = 0
    RoundWindow = 0
    ReplayWindow = 0
    TypeMinHeight <- NoLimit
    TypeRoundMax <- NoLimit
    Allowed = {}
    Corrupt = Corrupt
    NoTail = NoTail
    BusSize = 2
    Events <- NoDuty
    Stub = stub
    Blocks = {}
    NoBlock = NoBlock
    None = None
    MaxEvents = 4
    MaxCrashes = 1
    MaxBreaks = 1
    MaxSaveErrors = 0
SYMMETRY Perms
CHECK_DEADLOCK FALSE
INVARIANTS
    SentIsLogged
    RestartFloor
    GuardDropsOnlyOlder
