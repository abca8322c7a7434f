SPECIFICATION CounterFairSpec
CONSTANTS
    Keys <- MCKeys
    Quorums <- MCQuorums
    MaxRetries = 1
    LastRound = 2
    Lag = 1
    MaxDisruptions = 1
INVARIANTS
    CounterTypeOK
    OperatorsAligned
    SuccessMeansCounted
PROPERTIES
    Progress
    ImplementsExecution
