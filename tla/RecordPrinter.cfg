CONSTANTS
    BUFFER_LENGTH = 8192
    RECORD_COUNT_LENGTH = 40
    ColCounts = {1, 2, 3, 8, 20, 450}
    MaxRecords = 400
    Digits <- MC_Digits
SPECIFICATION Spec
INVARIANTS FitsBuffer TruncationMarked
PROPERTY PrefixOnly
CHECK_DEADLOCK FALSE
