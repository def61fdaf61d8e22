SPECIFICATION FairSpec
CONSTANTS
    Events = {e1}
    Topics = {e1}
    Publishers = {p1}
    MaxRuntimes = 2
    SendQueueSize = 2
    ReplayQueueSize = 1
    Limit = 1
    MaxPublications = 2
    MaxInvalidations = 1
    MaxShutdowns = 1
CHECK_DEADLOCK FALSE
INVARIANT ClosedNotResumable
INVARIANT InvalidationEndsSubscriptions
PROPERTY HubDrains
