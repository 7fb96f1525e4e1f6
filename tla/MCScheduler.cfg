SPECIFICATION Spec
CONSTANTS
    Deployment <- MCDeployment
    Instance = {i1, i2}
    Worker = {w1, w2}
    Automation = {a1}
    Event = {e1}
    Rule <- MCRule
    Limit = 1
    None = None
    MaxTime = 3
    MaxRequests = 2
INVARIANTS
    ClaimedOnce
    Scheduled
    NotMissed
    RungOnce
PROPERTIES
    NotWhenPaused
SYMMETRY Symmetry
CHECK_DEADLOCK FALSE
