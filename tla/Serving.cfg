SPECIFICATION Spec
CONSTANTS
    node = n1
    Processes = {p1, p2}
    Nodes <- AllNodes
    NodeOf <- OneNode
    Lifetime = 8
    RenewalInterval = 2
    OperationLimit = 2
    RetryInterval = 1
    StopMargin = 3
    StartLimit = 4
    StopTime = 1
    MaxTime = 14
SYMMETRY Symmetry
CHECK_DEADLOCK FALSE
INVARIANT ServingProven
INVARIANT OfflineAlone
PROPERTY LiveLeaseKept
