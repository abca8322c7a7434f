CONSTANTS
    n1 = n1
    n2 = n2
    n3 = n3
    n4 = n4
    t1 = t1
    t2 = t2
    None = None
    Skip = Skip
    Nodes <- MCNodes
    Faulty <- NoFaults
    Tasks <- MCOneTask
    MaxHeight = 0
    Window = 1
    Timely = FALSE
    MaxLosses = 2
SPECIFICATION Spec
SYMMETRY SymmAll
INVARIANTS
    OneCertificate
CHECK_DEADLOCK FALSE
