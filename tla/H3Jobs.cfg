SPECIFICATION H3Spec
CONSTANTS
    Jobs = {1}
    Workers = {w1, w2}
    Procs = {p1, p2}
    MaxAttempts = 2
    WithReferences = {}
    Cancellable = {1}
    Billed = {1}
    MaxFaults = 1
    MayStall = TRUE
    NoJob = 0
    NoWorker = NoWorker
    NoProc = NoProc
SYMMETRY MCSymmetry
INVARIANTS H3TypeOK OneAttemptAtWork HolderHasAttempt SpentHasResult
PROPERTY ImplementsFencedPublication
CHECK_DEADLOCK FALSE
