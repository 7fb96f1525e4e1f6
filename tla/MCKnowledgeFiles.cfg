SPECIFICATION Spec
CONSTANTS
    File = {f1, f2}
    Base = {k1, k2}
    Content = {x, y}
    Worker = {w1, w2}
    Own = Own
    None = None
    Traffic <- Amounts
    MaxLinked = 1
SYMMETRY Symmetry
INVARIANTS
    Searchable
    Forgotten
    NoDuplicates
    StillProcessed
PROPERTIES
    KeptUsable
CHECK_DEADLOCK FALSE
