SPECIFICATION MCSpec
CONSTANTS
    a = a
    b = b
    x = x
    y = y
    z = z
    Senders = {a, b}
    NoSender = NoSender
    IDs = {x, y, z}
    NoID = NoID
    Heights = {0, 1}
    Rounds = {0, 1}
    Messages <- MCMessages
    Leader = NoSender
    Nil = Nil
    MinHeight = 0
    RoundWindow = 1
    ReplayWindow = 0
    TypeMinHeight <- PrepareMinHeight
    TypeRoundMax <- PrepareRoundMax
    Allowed = {a, b}
INVARIANTS
    AcceptedOncePerId
    
    WindowedAcceptances
