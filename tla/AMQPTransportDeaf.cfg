SPECIFICATION FairSpec
CONSTANTS
    Out = {a}
    Oversized = {}
    In = {x}
    Idents = {}
    Conns = {c1, c2, c3, c4, c5}
    None = None
    MaxFaults = 1
    MaxBrokerRestarts = 0
    MaxAlarms = 0
    MaxTroubles = 1
CHECK_DEADLOCK FALSE
PROPERTIES
    IncomingIsStored
