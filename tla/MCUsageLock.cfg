SPECIFICATION FairLockSpec
CONSTANTS
    Node = {n1, n2, n3}
    Unlocked = Unlocked
    Ghost = Ghost
    LockTtl = 4
    SleepTime = 1
    MaxRetries = 2
    Delays = {2, 4}
    SweepMayFail = TRUE
    MaxDeaths = 1
INVARIANTS
    LockTypeOK
    AtMostOneSweeper
PROPERTIES
    SweptForEver
