SPECIFICATION FairSpec
CONSTANTS
    BufSize = 3
    Keys <- MCKeys
    MaxKeys = 3
CHECK_DEADLOCK FALSE
INVARIANTS
    TypedAsMeant
    ShiftFollowsKeys
PROPERTIES
    KeysArrive
