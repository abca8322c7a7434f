CONSTANTS
    t1 = t1
    t2 = t2
    None = None
    Skip = Skip
    Tasks <- MCOneTask
    LeftoverHeights <- MCLeftover
    MaxHeight = 1
    PruneSlack = 2
    ActivityTimeout = 1
    Window = 1
    MaxRetries = 0
    MaxLives = 1
SPECIFICATION FairSpec
PROPERTY DrivenHeightEnds
CHECK_DEADLOCK FALSE
