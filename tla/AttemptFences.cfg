SPECIFICATION Spec
CONSTANTS
    Sessions = {s1, s2}
    InitialLease = 2
    Granularity = 2
    Skew = 1
    Ends = {4}
    SealKinds = {}
    MaxTime = 5
    Horizon = 4
    MaxGenerations = 2
    MaxConnections = 2
    MaxSequence = 1
SYMMETRY Symmetry
CHECK_DEADLOCK FALSE
INVARIANT TransportFenced
INVARIANT SoleSession
INVARIANT RowsRevalidate
PROPERTY FencesAdvance
