CONSTANTS
    s1 = s1
    s2 = s2
    m1 = m1
    n1 = n1
    c1 = c1
    p1 = p1
    p2 = p2
    r1 = r1
    ServerId = {s1, s2}
    Machine = {m1}
    Name = {n1}
    Class = {c1}
    Project = {p1, p2}
    Region = {r1}
    None = None
    Blank = Blank
    Editable = {"project"}
    Spoilt <- MCSpoilt
SYMMETRY Symmetry
SPECIFICATION Spec
INVARIANTS
    TypeOK
    DeletedMeansGone
    NotFoundMeansGone
    DeletedByNameMeansGone
