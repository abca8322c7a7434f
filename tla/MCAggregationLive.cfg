CONSTANTS
    n1 = n1
    n2 = n2
    n3 = n3
    n4 = n4
    t1 = t1
    t2 = t2
    None = None
    Skip = Skip
    Nodes <- MCNodes
    Faulty <- MCFaulty
    Tasks <- MCOneTask
    MaxHeight = 1
    Window = 1
    Timely = TRUE
    MaxLosses = 1
SPECIFICATION FairSpec
PROPERTY DrivenCertifies
CHECK_DEADLOCK FALSE
