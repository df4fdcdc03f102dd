SPECIFICATION FairSpec
CONSTANTS
    p = p
    c1 = c1
    c2 = c2
    d = d
    Objs = {p, c1, c2, d}
    Parent <- Thread
    Deletes <- DeletesPicture
    Renderable = {p, c1, c2}
    Kept = {p, c1, c2}
    Mine = {c1}
    Time <- ThreadTimes
    Clock = {25, 45}
    Threads = {main, op}
    MainThread = main
    OpThread = op
    Queue = process
    None = None
    MaxRestarts = 1
    MaxTroubles = 1
CHECK_DEADLOCK FALSE
INVARIANTS
    AppliedOncePerRun
    NoReprocessing
    ParentFirst
    LatestIsNewest
    UnreadIsCounted
PROPERTIES
    ClaimedIsProcessed
    IsPipeline
