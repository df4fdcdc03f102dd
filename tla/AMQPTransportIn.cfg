SPECIFICATION FairSpec
CONSTANTS
    Out = {b}
    Oversized = {b}
    In = {x}
    Idents = {i}
    Conns = {c1, c2, c3, c4, c5}
    None = None
    MaxFaults = 1
    MaxBrokerRestarts = 0
    MaxAlarms = 1
    MaxTroubles = 2
CHECK_DEADLOCK FALSE
INVARIANTS
    AckedIsStored
PROPERTIES
    IncomingIsStored
    IdentityIsBound
