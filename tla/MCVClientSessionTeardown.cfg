SPECIFICATION FairSpec
CONSTANTS
    s1 = s1
    Sessions = {s1}
    MaxMessages = 0
    MaxQueueSize = 1
    MaxStandbySize = 1
    HasGracePeriod = FALSE
    MayStop = TRUE
    None = None
PROPERTY ShutdownTearsDown
CHECK_DEADLOCK FALSE
