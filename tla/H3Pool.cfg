SPECIFICATION PoolSpec
CONSTANTS
    Deployments = {d1, d2}
    Loop = r1
    Admins = {a1}
    MinWorkers = 0
    MaxWorkers = 2
    PoolTroubles = 1
    NoDeployment = NoDeployment
SYMMETRY MCPoolSymmetry
INVARIANTS PoolTypeOK OneStartAtATime ClosedMachineHasEnded ActiveIsWatched
CHECK_DEADLOCK FALSE
