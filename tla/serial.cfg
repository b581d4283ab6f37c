CONSTANTS
    m1 = m1
    m2 = m2
    s1 = s1
    s2 = s2
    w1 = w1
    w2 = w2
    Machine = {m1, m2}
    ServerId = {s1, s2}
    Foreign = {}
    Worker = {w1, w2}
    None = None
    Ambiguous = Ambiguous
    AllowLate = TRUE
    Serial = TRUE
SPECIFICATION Spec
SYMMETRY Symmetry
INVARIANTS
    SerialInv
    AtMostOneServer
    NoLeak
    CreateUndisturbed
PROPERTIES
    ImplementsContract
