SPECIFICATION Spec
CONSTANTS
    o1 = o1
    o2 = o2
    s = s
    r1 = r1
    r2 = r2
    q0 = q0
    q1 = q1
    Objs = {o1, o2}
    Senders = {s}
    Rcpts = {r1, r2}
    SenderOf <- OneSender
    RcptsOf <- SharedRcpt
    Profiles = {o1}
    QueueOf <- BothQueues
    Queues = {q0, q1}
    Threads = {main, net}
    MainThread = main
    None = None
    MaxRestarts = 1
    MaxFaults = 0
CHECK_DEADLOCK FALSE
INVARIANTS
    PendingIsHeld
    TwiceOnlyIfExcused
    NumbersUniqueUnlessRaced
PROPERTIES
    NumbersNeverGoBack
