CONSTANTS
    t1 = t1
    t2 = t2
    r1 = r1
    r2 = r2
    None = None
    Skip = Skip
    Tasks <- MCTasks
    Requests <- MCRequests
    MaxHeight = 2
    PruneSlack = 1
    MailboxBound = 1
SPECIFICATION Spec
INVARIANTS
    TypeOK
    NoRequestLost
    ParkedUndecided
    FirstAnnouncementWins
PROPERTIES
    ImplementsSkipRules
