SPECIFICATION Spec
CONSTANTS
    Instance = {n1, n2}
    Task = {t1, t2}
    Item = {i1}
    Stopper = {s1}
    None = None
    MaxRestarts = 1
    ListenerMayFail = TRUE
INVARIANTS
    SetWithinHash
    RunningListed
    LastOneOut
    StopHolds
SYMMETRY Symmetry
CHECK_DEADLOCK FALSE
