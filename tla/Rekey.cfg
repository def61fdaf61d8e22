SPECIFICATION FairSpec
CONSTANTS
    n1 = n1
    n2 = n2
    k1 = k1
    k2 = k2
    None = None
    Nodes = {n1, n2}
    Keys = {k1, k2}
    Secrets = {1, 2}
    PageSize = 1
    MaximumAttempts = 2
    Mail = TRUE
    MaxJobs = 1
    MaxRestarts = 1
CHECK_DEADLOCK FALSE
INVARIANT ProofStands
INVARIANT ReferencesExact
PROPERTY RekeyEnds
