CONSTANTS
    s1 = s1
    s2 = s2
    m1 = m1
    m2 = m2
    n1 = n1
    n2 = n2
    c1 = c1
    c2 = c2
    p1 = p1
    r1 = r1
    ServerId = {s1, s2}
    Machine = {m1, m2}
    Name = {n1, n2}
    Class = {c1, c2}
    Project = {p1}
    Region = {r1}
    None = None
    Blank = Blank
    Editable = {}
    Spoilt = {}
SYMMETRY Symmetry
SPECIFICATION Spec
INVARIANTS
    NoLeak
PROPERTIES
    WantedSpared
    ImplementsContract
