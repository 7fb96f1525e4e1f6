SPECIFICATION FairSpec
CONSTANTS
    Task = {t1, t2, t3}
    Stopper = {s1, s2}
INVARIANTS
    RunningReachable
    GoneForgotten
    FirstStopped
PROPERTIES
    StopReturns
CHECK_DEADLOCK FALSE
