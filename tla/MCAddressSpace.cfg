SPECIFICATION Spec
CONSTANTS
    NPages = 7
    FirstFree = 1
    LowPages = 7
    RefMod = 65536
    NoPage = NoPage
    NWords = 4
    NUser = 2
    Data = Data
    Resident <- MCResident
    UsedVa <- MCUsedVa
CHECK_DEADLOCK FALSE
INVARIANTS
    RefCountExact
    NoPageLost
    TLBCoherent
    RolesDisjoint
PROPERTIES
    PanicsOnlyWhenExhausted
