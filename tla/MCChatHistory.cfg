SPECIFICATION Spec
CONSTANTS
    Message = {m1, m2, m3, m4}
    None = None
    Same = Same
    Worker = {w1, w2}
    MaxDisturbed = 1
    Crowd = 3
SYMMETRY Symmetry
INVARIANTS
    HistoryWhole
    NothingLost
    NoLoop
