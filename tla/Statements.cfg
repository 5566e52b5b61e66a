CONSTANTS
    Rids = {1, 2}
    Values <- MC_Values
    NoRecord = NoRecord
    Clients = {c1, c2}
    Requests <- MC_Requests
    MaxStatements = 1
SPECIFICATION StatementSpec
INVARIANTS StatementExact LastingServed
CHECK_DEADLOCK FALSE
