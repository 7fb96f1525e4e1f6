SPECIFICATION Spec
CONSTANTS
    s1 = s1
    s2 = s2
    i1 = i1
    i2 = i2
    Session <- MCSession
    Instance <- MCInstance
    Model = {m1}
    Home <- MCHome
    Sweeper = {i2}
    Keeper = i1
    MaxUses = 2
    MaxLate = 1
INVARIANTS
    NoEmptyUse
PROPERTIES
    TimelyStays
    Reaped
    UsesEnd
CHECK_DEADLOCK FALSE
