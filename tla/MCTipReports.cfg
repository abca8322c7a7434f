CONSTANTS
    n1 = n1
    n2 = n2
    n3 = n3
    n4 = n4
    s1 = s1
    Nodes <- MCNodes
    Faulty <- MCFaulty
    Strangers <- MCStrangers
    MaxTip = 2
    MaxRestarts = 1
SPECIFICATION FairSpec
INVARIANTS
    TypeOK
    SafeTipHonest
    SafeTipSorted
PROPERTIES
    SafeTipMonotone
    LeavesDeadHeight
