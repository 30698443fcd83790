SPECIFICATION FairSpec
CONSTANTS
    NTasks = 4
    NoTask = NoTask
CHECK_DEADLOCK FALSE
INVARIANTS
    TypeOK
    SlotListSound
    RunningIsCurrent
    UserRunsCurrent
    ResumeSafe
PROPERTIES
    ReadyIsForever
    
