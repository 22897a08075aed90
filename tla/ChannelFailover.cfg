SPECIFICATION FairSpec
CONSTANTS
    N = 3
    Sync <- MCSync
    MaxRuns = 2
INVARIANT TypeOK OneKnownLiveOrder SuccessIsReal
PROPERTY GenerationEnds
CHECK_DEADLOCK FALSE
