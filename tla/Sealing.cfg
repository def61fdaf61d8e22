CONSTANTS
    Chain = {1, 2, 3, 4, 5}
    Attempts = {1, 2, 3, 4, 5}
    Workers = {w1, w2}
    Budget = 2
    PageSize = 2
    MaximumAttempts = 3
    MaxTrouble = 2
SPECIFICATION FairSpec
CHECK_DEADLOCK FALSE
INVARIANT ReservationAgrees
INVARIANT CursorBehindSealed
PROPERTY SealingFinishes
