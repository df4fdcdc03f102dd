SPECIFICATION FairSpec
CONSTANTS
    o1 = o1
    o2 = o2
    s = s
    r1 = r1
    r2 = r2
    q0 = q0
    q1 = q1
    Objs = {o1, o2}
    Senders = {s}
    Rcpts = {r1}
    SenderOf <- OneSender
    RcptsOf <- OneRcpt
    Profiles = {o1}
    QueueOf <- SecondQueue
    Queues = {q1}
    Threads = {main}
    MainThread = main
    None = None
    MaxRestarts = 1
    MaxFaults = 1
CHECK_DEADLOCK FALSE
INVARIANTS
    LeavesWithRow
PROPERTIES
    ClaimedIsEncoded
    IsPipeline
