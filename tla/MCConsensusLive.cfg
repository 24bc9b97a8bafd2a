SPECIFICATION FairServiceSpec
CONSTANTS
    a = a
    stub = stub
    x = x
    y = y
    b1 = b1
    Senders = {a, stub}
    NoSender = NoSender
    IDs = {x, y}
    NoID = NoID
    Heights = {0}
    Rounds = {0, 1}
    Types_ = {"prepare", "commit"}
    Rounds_ = {1}
    Messages <- MCMessages
    Leader = NoSender
    Nil = Nil
    MinHeight = 0
    RoundWindow = 0
    ReplayWindow = 0
    TypeMinHeight <- NoLimit
    TypeRoundMax <- NoLimit
    Allowed = {}
    Corrupt = Corrupt
    NoTail = NoTail
    BusSize = 2
    Events <- MCEvents
    Stub = stub
    Blocks = {b1}
    NoBlock = NoBlock
    None = None
    MaxEvents = 3
    MaxCrashes = 1
    MaxBreaks = 1
    MaxSaveErrors = 1
CHECK_DEADLOCK FALSE
PROPERTIES
    TurnEnds
    BusNotFullForever
