SPECIFICATION Spec
CONSTANTS
    Jobs = {j1}
    Nodes = {n1, n2}
    Keys = {k1}
    Operators = {o1}
    MaximumAttempts = 2
    Lease = 1
    RetryDelay = 1
    BackoffCap = 2
    Retention = 1
    FailedRetention = 2
    WorkLimit = 1
    ClockSkew = 1
    Lag = 1
    MaxTime = 3
    MaxRevision = 5
SYMMETRY Symmetry
CHECK_DEADLOCK FALSE
INVARIANT ClaimsMatchJobs
PROPERTY FailureBudget
INVARIANT RevisionIdentifiesRow
INVARIANT CompletionAccepted
PROPERTY LeaseHonoured
PROPERTY ImplementsQueue
