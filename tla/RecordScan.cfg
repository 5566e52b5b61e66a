CONSTANTS
    MaxPages = 3
    N = 2
    Values = {0, 1}
    Zero = 0
    NoRecord = NoRecord
    PoolSize = 1
    MaxPins = 1
SPECIFICATION ScanSpec
INVARIANTS FreeListExact CountsAgree ScanComplete
PROPERTIES ImplementsTable ScanAscends
CHECK_DEADLOCK FALSE
