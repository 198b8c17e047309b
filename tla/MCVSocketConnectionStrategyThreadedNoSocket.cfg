SPECIFICATION FairSpec
CONSTANTS
    NumAddresses = 3
    MaxNumThreads = 2
    None = None
INVARIANT TriesUntilOneSucceeds
CHECK_DEADLOCK FALSE
