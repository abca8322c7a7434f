CONSTANTS
    t1 = t1
    t2 = t2
    None = None
    Skip = Skip
    Tasks <- MCTasks
    LeftoverHeights <- MCLeftover
    MaxHeight = 1
    PruneSlack = 1
    ActivityTimeout = 0
    Window = 1
    MaxRetries = 1
    MaxLives = 2
SPECIFICATION Spec
SYMMETRY Symm
INVARIANTS
    TypeOK
    ResolvedExactlyOnce
    ReleasedByQuorum
    SubmitsOnlyCertified
    NoGapOpened
PROPERTY AssignsFreshHeights
CHECK_DEADLOCK FALSE
