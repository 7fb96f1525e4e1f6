SPECIFICATION Spec
CONSTANTS
    User = {u1, u2}
    Space = {s1, s2}
    Dataset = {d1}
    Agent = {a1}
    Worker = {w1, w2}
    Traffic <- Amounts
SYMMETRY Symmetry
INVARIANTS
    AdmittedOnly
    RetrievedFromSeen
PROPERTIES
    AtomicWhenAlone
