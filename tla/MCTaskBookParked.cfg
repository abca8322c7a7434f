CONSTANTS
    t1 = t1
    t2 = t2
    r1 = r1
    r2 = r2
    None = None
    Skip = Skip
    Tasks <- MCTasks
    Requests <- MCOneRequest
    MaxHeight = 2
    PruneSlack = 1
    MailboxBound = 2
SPECIFICATION Spec
INVARIANT ParkedAboveMaxSeen
