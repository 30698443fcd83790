SPECIFICATION MSpec
CONSTANTS
    Lines <- MCLines
    Delimiters = {" "}
    LowerOf <- MCLowerOf
    Names <- MCNames
    MaxArgs = 3
    WordBits = 8
    PgSize = 16
    RowSize = 8
    KernBase = 128
    KBytes = 8
    TotalKB = 13
    NoTable = NoTable
    EntryAt <- MCEntryAt
    RefCounts <- MCRefCounts
    Content <- MCContent
    MaxRows = 33
CHECK_DEADLOCK FALSE
INVARIANTS
    CalledAsTyped
    RefusedWithReason
    ShowsRange
    DumpsRange
PROPERTIES
    CommandReturns
