SPECIFICATION Spec
CONSTANTS
    User = {u1, u2, u3}
    Space = {s1, s2}
    Dataset = {d1, d2}
    Agent = {a1}
SYMMETRY Symmetry
INVARIANTS
    TypeOK
    MembershipAgrees
    MemberAccepted
    AgentSpacesVisible
    AgentDatasetsCovered
    RetrievalWithinReach
PROPERTIES
    SeenByInvitation
