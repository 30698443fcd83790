SPECIFICATION Spec
CONSTANTS
    NPages = 6
    FirstFree = 1
    LowPages = 3
    RefMod = 4
    NoPage = NoPage
INVARIANTS
    TypeOK
    FreeListSound
    NoFreePanic
    FreeCountExact
PROPERTIES
    ImplementsPool
