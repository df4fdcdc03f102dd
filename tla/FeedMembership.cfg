SPECIFICATION FairSpec
CONSTANTS
    Users = {a, b, c}
    Founder = a
    Writers = {a, b, c}
    MaxActs = 2
CHECK_DEADLOCK FALSE
INVARIANTS
    MembersAreMutual
PROPERTIES
    JoinerMeetsAll
    ListsAgree
