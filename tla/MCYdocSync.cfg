SPECIFICATION DocSpec
CONSTANTS
    Client = {c1, c2, c3}
    Update = {v1, v2, v3}
    Deployment <- Deployments
    None = None
SYMMETRY Symmetry
INVARIANTS
    NothingLost
    CaughtUp
CHECK_DEADLOCK FALSE
