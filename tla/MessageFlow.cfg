SPECIFICATION FairSpec
CONSTANTS
    Objs = {1, 2}
    Global = {1}
    None = None
    Budget = 4
    ObjectCost = 2
CHECK_DEADLOCK FALSE
INVARIANTS
    ShownOnceUnlessExcused
    NumbersUniqueUnlessTakenBack
    WrittenIsKept
PROPERTIES
    IsCourier
    WrittenIsShown
