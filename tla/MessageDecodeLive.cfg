SPECIFICATION FairSpec
CONSTANTS
    r1 = r1
    r2 = r2
    r3 = r3
    r4 = r4
    p1 = p1
    p2 = p2
    p3 = p3
    p4 = p4
    fix = fix
    exp = exp
    Rows = {r1, r2, r3, r4}
    Payloads = {p1, p2, p3, p4}
    PayloadOf <- Distinct
    Own = {}
    Malformed = {p3}
    Rejected = {p4}
    Profiles = {p2}
    Feeds = {fix}
    Expanding = {}
    FeedOf <- OneFixedFeed
    Threads = {main}
    MainThread = main
    Queue = decode
    None = None
    MaxReceived = 2
    MaxRestarts = 1
    MaxFaults = 1
CHECK_DEADLOCK FALSE
PROPERTIES
    ClaimedIsDecided
    IsPipeline
