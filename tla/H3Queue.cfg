SPECIFICATION H3FairSpec
CONSTANTS
    Jobs = {1, 2}
    Workers = {w1}
    Procs = {p1, p2}
    MaxAttempts = 1
    WithReferences = {1}
    Cancellable = {}
    Billed = {}
    MaxFaults = 1
    MayStall = FALSE
    NoJob = 0
    NoWorker = NoWorker
    NoProc = NoProc
INVARIANTS WorkersAreExclusive
PROPERTY SentJobEnds
CHECK_DEADLOCK FALSE
