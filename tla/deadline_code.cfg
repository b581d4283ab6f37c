CONSTANTS
    m1 = m1
    m2 = m2
    s1 = s1
    s2 = s2
    f1 = f1
    w1 = w1
    w2 = w2
    Machine = {m1, m2}
    ServerId = {s1, s2, f1}
    Foreign = {f1}
    Worker = {w1, w2}
    None = None
    Ambiguous = Ambiguous
    AllowLate = FALSE
    Serial = TRUE
SPECIFICATION Spec
SYMMETRY Symmetry
INVARIANTS
    DeadlineMeansTimeout
