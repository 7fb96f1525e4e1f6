SPECIFICATION FairLockSpec
CONSTANTS
    Node = {n1, n2}
    Unlocked = Unlocked
    Ghost = Ghost
    LockTtl = 1
    SleepTime = 2
    MaxRetries = 0
    Delays = {1}
    SweepMayFail = FALSE
    MaxDeaths = 0
PROPERTIES
    SweptForEver
