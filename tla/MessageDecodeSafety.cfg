SPECIFICATION Spec
CONSTANTS
    r1 = r1
    r2 = r2
    r3 = r3
    r4 = r4
    p1 = p1
    p2 = p2
    p3 = p3
    p4 = p4
    fix = fix
    exp = exp
    Rows = {r1, r2, r3}
    Payloads = {p1, p2}
    PayloadOf <- Copies
    Own = {p2}
    Malformed = {}
    Rejected = {}
    Profiles = {}
    Feeds = {exp}
    Expanding = {exp}
    FeedOf <- OneExpandingFeed
    Threads = {main}
    MainThread = main
    Queue = decode
    None = None
    MaxReceived = 3
    MaxRestarts = 1
    MaxFaults = 1
CHECK_DEADLOCK FALSE
INVARIANTS
    PendingIsHeld
    OneHashPerPayload
    TwiceOnlyIfForgotten
    LostOnlyIfBroken
    FeedHasMembers
