CONSTANTS
    t1 = t1
    t2 = t2
    None = None
    Skip = Skip
    Tasks <- MCTasks
    LeftoverHeights <- MCLeftover
    MaxHeight = 2
    PruneSlack = 2
    ActivityTimeout = 1
    Window = 1
    MaxRetries = 1
    MaxLives = 1
SPECIFICATION Spec
INVARIANT OneOutstanding
CHECK_DEADLOCK FALSE
