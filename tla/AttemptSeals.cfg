SPECIFICATION FairSpec
CONSTANTS
    Sessions = {s1}
    InitialLease = 1
    Granularity = 2
    Skew = 1
    Ends = {2, 3}
    SealKinds = {"candidate", "manager", "sitting"}
    MaxTime = 4
    Horizon = 3
    MaxGenerations = 1
    MaxConnections = 2
    MaxSequence = 1
CHECK_DEADLOCK FALSE
INVARIANT OneSubmission
INVARIANT AutomaticTargetStable
PROPERTY EveryAttemptSealed
