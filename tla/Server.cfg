CONSTANTS
    Conns = {c1, c2}
    MaxStatements = 2
    AcceptFaults = TRUE
    Interrupts = TRUE
SPECIFICATION LiveSpec
INVARIANTS HandoffExact OwnStatement LockedByParser
PROPERTY Answered
CHECK_DEADLOCK FALSE
