SPECIFICATION FairSpec
CONSTANTS
    s1 = s1
    Sessions = {s1}
    MaxMessages = 1
    MaxQueueSize = 1
    MaxStandbySize = 1
    HasGracePeriod = FALSE
    MayStop = TRUE
    None = None
INVARIANT SendIsAtomicWithState
CHECK_DEADLOCK FALSE
