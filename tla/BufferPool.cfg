CONSTANTS
    Clients = {c1, c2}
    Fds = {3, 4}
    MaxPages = 2
    Values = {0, 1}
    Zero = 0
    PoolSize = 2
    DirtyNewPages = TRUE
    WriteFaults = FALSE
SPECIFICATION Spec
INVARIANTS TableMatchesFrames NoFrameLost UncachedIsOnDisk
PROPERTY ImplementsPageStore
