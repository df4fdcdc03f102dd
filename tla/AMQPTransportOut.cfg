SPECIFICATION FairSpec
CONSTANTS
    Out = {a, b}
    Oversized = {}
    In = {}
    Idents = {}
    Conns = {c1, c2, c3, c4, c5}
    None = None
    MaxFaults = 1
    MaxBrokerRestarts = 1
    MaxAlarms = 1
    MaxTroubles = 1
CHECK_DEADLOCK FALSE
INVARIANTS
    SentWasRouted
    NoUnexpectedAck
    OneSendPerMessage
PROPERTIES
    PublishedIfSettled
    QueuedIsRouted
