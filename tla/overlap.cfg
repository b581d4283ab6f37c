CONSTANTS
    m1 = m1
    s1 = s1
    s2 = s2
    f1 = f1
    w1 = w1
    w2 = w2
    Machine = {m1}
    ServerId = {s1, s2, f1}
    Foreign = {f1}
    Worker = {w1, w2}
    None = None
    Ambiguous = Ambiguous
    AllowLate = TRUE
    Serial = FALSE
SPECIFICATION Spec
SYMMETRY Symmetry
INVARIANTS
    TypeOK
    PidNamesOwnServer
    DeletedMeansGone
    NotFoundMeansGone
PROPERTIES
    OnlyUnwantedDeleted
