SPECIFICATION Spec
CHECK_DEADLOCK FALSE
CONSTANTS
    TopHeight = 3
    SkipHeights <- MCSkipHeights
    PruneSlack = 2
    ActivityTimeout = 1
    Window = 2
    MaxLives = 2
    MaxQueue = 2
    FirstBackoff = 1
    MaxBackoff = 10
    MaxLatency = 2
    Budgets <- MCBudgets
    HealthyTimes <- MCHealthyTimes
    Digests = {d1, d2}
    Garbage = garbage
    Operators <- MCOperators
    Founders <- MCFounders
    FaultyKeys = {4}
    Router = router
    NotSigned = nobody
    MaxChanges = 1
    Greetings = {d1}
    MaxStarts = 3
    Unset = unset
    Malformed = malformed
    Second = 4
    MaxDuration = 200
    MaxU32 = 255
    DefaultRate = 1
    DefaultBacklog = 128
    DefaultWindow = 8
    DefaultTimeout = 16
    DefaultPolling = 8
    DefaultRound = 30
    DefaultInterval = 5
INVARIANTS
    SchemeTypeOK
    CountersExact
    ObservedOnce
    PruneBehindEngine
    AnswersInTime
    GivesUpLate
    SurvivesOutage
    PoolGenuine
    CertificateMeansQuorum
    AssembledVerifies
    StartsUp
    AckQuotaCoversDemand
PROPERTIES
    BlockedOnlyAcrossRegistries
    HeardIsAnswered
