CONSTANTS
    c1 = c1
    c2 = c2
    c3 = c3
    s1 = s1
    p1 = p1
    p2 = p2
    Callers = {c1, c2, c3}
    Signers = {s1}
    Peers = {p1, p2}
    DkgPeers = {p1, p2}
    NoGate = NoGate
    Nobody = Nobody
    Configs <- MCConfigs
    Services <- MCServices
SPECIFICATION LifecycleSpec
INVARIANTS
    SlotsMatchConnections
    
    NothingLeftRunning
    TssSessionsMatch
PROPERTIES
    ManagerReturns
CHECK_DEADLOCK FALSE
