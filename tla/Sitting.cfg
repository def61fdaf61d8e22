CONSTANTS
    Sittings = {1}
    Windows <- MCWindows
    MaxTime = 3
    Day = 3
    MaxRescheduled = 1
    MaxManaged = 2
    MaximumAttempts <- MCAttempts
    WorkLimit = 1
    MaxTrouble = 1
SPECIFICATION FairSpec
CHECK_DEADLOCK FALSE
INVARIANT NextBoundaryCovered
PROPERTY BoundariesRespected
PROPERTY EverySittingSettles
