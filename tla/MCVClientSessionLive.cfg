SPECIFICATION FairSpec
CONSTANTS
    s1 = s1
    Sessions = {s1}
    MaxMessages = 2
    MaxQueueSize = 1
    MaxStandbySize = 1
    HasGracePeriod = TRUE
    MayStop = FALSE
    None = None
INVARIANT NothingLost
PROPERTIES RegisteredSessionReleased BroadcastEnds
CHECK_DEADLOCK FALSE
