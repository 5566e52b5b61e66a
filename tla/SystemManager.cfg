CONSTANTS
    PAGE_SIZE = 4096
    SIZEOF_FILE_HDR = 20
    SIZEOF_PAGE_HDR = 8
    OFFSET_PAGE_HDR = 4
    RM_MAX_RECORD_SIZE = 512
    Tables = {t1, t2}
    Schemas <- MC_Schemas
    Fds = {d1, d2}
    Clients = {c1, c2}
    Main = Main
    OpenFaults = TRUE
SPECIFICATION Spec
SYMMETRY Symmetry
INVARIANTS RestartSafe QuietConsistent ListedHaveFiles FileMapsInverse ColumnsFillRecord SlotInPage
CHECK_DEADLOCK FALSE
