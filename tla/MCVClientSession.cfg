SPECIFICATION FairSpec
CONSTANTS
    s1 = s1
    Sessions = {s1}
    MaxMessages = 1
    MaxQueueSize = 1
    MaxStandbySize = 1
    HasGracePeriod = TRUE
    MayStop = TRUE
    None = None
INVARIANTS TypeOK PointersLive SocketOutlivesUse LockOrder
PROPERTY RegisteredSessionReleased
CHECK_DEADLOCK FALSE
