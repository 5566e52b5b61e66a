CONSTANTS
    Catalog <- MC_Catalog
    NoTab = ""
    ParseTrees <- MC_ParseTrees
    MaxRows = 2
SPECIFICATION AnalyzeSpec
INVARIANTS AcceptedWellFormed UpdateNotRefused InsertNeverAborts
CHECK_DEADLOCK FALSE
