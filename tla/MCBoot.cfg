SPECIFICATION MCSpec
CONSTANTS
    SectSize = 4
    HdrSize = 8
    ElfHdr = 4
    MemTop = 96
    Images <- MCImages
    PgSize = 16
    PgKB = 4
    MB1 = 8
    MB16 = 120
    ExtUnit = 6
    BaseKB = 6
    ExtMaxKB = 120
    NPT = 20
    NPD = 12
    KernPdx = 10
    TestPdx = 3
    InfoSize = 1
    TasksSize = 20
    KStkPages = 1
    Ram <- MCRam
    MaxCpuCount = 2
    Tables <- MCTables
    LapicFrames <- MCLapicFrames
CHECK_DEADLOCK FALSE
INVARIANTS
    TypeOK
    BootstrapIsMarked
    KernelIntact
    FreePagesUsable
    LayoutAsDrawn
PROPERTIES
    BootReachesMonitor
