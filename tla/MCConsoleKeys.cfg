SPECIFICATION Spec
CONSTANTS
    Rows = 3
    Cols = 2
    Glyphs = {"a", "b", ">"}
    Readers = {"monitor", "program"}
    Keys = {"a", "BS", "LF", "CR", "UP"}
    Texts <- MCTexts
    LineBufSize = 6
    PrintBufSize = 3
CHECK_DEADLOCK FALSE
INVARIANTS
    NoIllegalInput
