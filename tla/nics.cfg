CONSTANTS
    n1 = n1
    n2 = n2
    netA = netA
    netB = netB
    a1 = a1
    a2 = a2
    w1 = w1
    w2 = w2
    Nic = {n1, n2}
    Network = {netA, netB}
    Address = {a1, a2}
    Worker = {w1, w2}
    NoNetwork = NoNetwork
    Quiet = TRUE
SPECIFICATION Spec
SYMMETRY Symmetry
INVARIANTS
    PatchInv
PROPERTIES
    SuccessMeansPatched
    UpdatesOnlyAdd
    OthersUntouched
