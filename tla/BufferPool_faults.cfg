CONSTANTS
    Clients = {c1, c2}
    Fds = {3}
    MaxPages = 3
    Values = {0, 1}
    Zero = 0
    PoolSize = 2
    DirtyNewPages = FALSE
    WriteFaults = TRUE
SPECIFICATION Spec
SYMMETRY ClientSymmetry
INVARIANTS HeldPagesStay TableMatchesFrames
