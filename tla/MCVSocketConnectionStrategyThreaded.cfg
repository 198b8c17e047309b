SPECIFICATION FairSpec
CONSTANTS
    NumAddresses = 3
    MaxNumThreads = 2
    None = None
INVARIANTS TypeOK RunnerOutlivesCallers SocketsAreOwned ThrowsWhenAllFailed
PROPERTIES ConnectEnds
CHECK_DEADLOCK FALSE
