SPECIFICATION MSpec
CONSTANTS
    NTasks = 4
    NoTask = NoTask
    NPages = 34
    FirstFree = 1
    LowPages = 12
    RefMod = 65536
    NoPage = NoPage
    NWords = 5
    NUser = 3
    Data = Data
    Resident <- MCNone
    Program <- MCProgram
    TestVa <- MCTestVa
    StackVa <- MCStackVa
CHECK_DEADLOCK FALSE
INVARIANTS
    PageListEnds
    TaskPagesKept
    NoDataWalk
    ProgramIntact
PROPERTIES
    FreePanicUnreachable
