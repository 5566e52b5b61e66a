CONSTANTS
    Frames = {f1, f2, f3}
    max_size_ = 2
    MaxOps = 7
SPECIFICATION Spec
INVARIANTS HashMatchesList VictimIsLeastRecent
CHECK_DEADLOCK FALSE
