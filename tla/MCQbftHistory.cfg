SPECIFICATION HistorySpec
CONSTANTS
    a = a
    b = b
    c = c
    x = x
    y = y
    Senders = {a, b, c}
    NoSender = NoSender
    IDs = {x, y}
    NoID = NoID
    Heights = {0, 1}
    Rounds = {0, 1}
    Messages <- MCMessages
    Leader = a
    Nil = Nil
SYMMETRY Symmetry
INVARIANTS
    NoNilMapWrite
    QuorumBehindPhase
    VotesBelongToProposal
PROPERTY
    AbandonNeedsView
