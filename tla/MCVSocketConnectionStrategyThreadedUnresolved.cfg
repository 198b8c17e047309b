SPECIFICATION FairSpec
CONSTANTS
    NumAddresses = 3
    MaxNumThreads = 2
    None = None
INVARIANT RunnerWaitsForDetach
CHECK_DEADLOCK FALSE
