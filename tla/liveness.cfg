CONSTANTS
    m1 = m1
    s1 = s1
    s2 = s2
    w1 = w1
    w2 = w2
    Machine = {m1}
    ServerId = {s1, s2}
    Foreign = {}
    Worker = {w1, w2}
    None = None
    Ambiguous = Ambiguous
    AllowLate = TRUE
    Serial = TRUE
SPECIFICATION FairSpec
PROPERTIES
    EventuallyForgotten
    CreationSettles
    OrphansCollected
