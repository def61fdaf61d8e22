CONSTANTS
    Uploads <- MCUploads2
    Parts = {p128}
    Holdable = {1}
    Purgers = {j1, j2}
    Page = 1
    Lease = 1
    Grace = 1
    Retention = 1
    Request = 1
    Faults = 1
    MaxTime = 3
SPECIFICATION FairSpec
CHECK_DEADLOCK FALSE
INVARIANT ShownIsWhole
PROPERTY HeldIsKept
PROPERTY PendingSettles
