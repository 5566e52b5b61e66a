CONSTANTS
    FromLists <- MC_OneToFour
    Queries <- MC_Queries
    TabCols <- MC_TabCols
    Databases <- MC_Databases
SPECIFICATION QuerySpec
INVARIANTS PlanFaithful ResultSound FlatComplete
CHECK_DEADLOCK FALSE
