CONSTANTS
    t1 = t1
    t2 = t2
    t3 = t3
    k1 = k1
    k2 = k2
    bad = bad
    Thread = {t1, t2, t3}
    Key = {k1, k2, bad}
    Usable = {k1, k2}
    NoKey = NoKey
    HalfClient = HalfClient
SPECIFICATION Spec
INVARIANTS
    RotationIsWarnedOf
SYMMETRY Symmetry
