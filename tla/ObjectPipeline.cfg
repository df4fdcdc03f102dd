SPECIFICATION FairSpec
CONSTANTS
    Objs = {o1, o2}
    Threads = {main, worker}
    MainThread = main
    Queues = {q1, q2}
    None = None
    MaxRestarts = 1
INVARIANTS
    OneOperationPerObject
    HeldIsPending
PROPERTIES
    ClaimedIsPerformed
