CONSTANTS
    FromLists <- MC_Three
    Queries <- MC_Queries
    TabCols <- MC_TabCols
    Databases <- MC_Databases
SPECIFICATION QuerySpec
INVARIANT ResultComplete
CHECK_DEADLOCK FALSE
