SPECIFICATION FairSpec
CONSTANTS
    p = p
    c1 = c1
    c2 = c2
    d = d
    Objs = {p, c1, c2}
    Parent <- Replies
    Deletes <- NoDeletions
    Renderable = {p, c1}
    Kept = {p, c1}
    Mine = {c1}
    Time <- Replied
    Clock = {}
    Threads = {main, op}
    MainThread = main
    OpThread = op
    Queue = process
    None = None
    MaxRestarts = 0
    MaxTroubles = 0
CHECK_DEADLOCK FALSE
PROPERTIES
    WaitingIsProcessed
