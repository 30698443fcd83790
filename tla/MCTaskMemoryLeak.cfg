SPECIFICATION MSpec
CONSTANTS
    NTasks = 3
    NoTask = NoTask
    NPages = 27
    FirstFree = 1
    LowPages = 24
    RefMod = 65536
    NoPage = NoPage
    NWords = 5
    NUser = 3
    Data = Data
    Resident <- MCTaskArray
    Program <- MCSmallProgram
    TestVa <- MCTestVa
    StackVa <- MCStackVa
CHECK_DEADLOCK FALSE
INVARIANTS
    PagesReturned
