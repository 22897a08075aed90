SPECIFICATION OrderedSpec
CONSTANTS
    Owners = {o1, o2, o3}
    Limits = {1, 2}
    CrashPoints <- MCSafeCrashes
    MayStall = FALSE
SYMMETRY MCSymmetry
INVARIANT TypeOK HoldersWithinLimit
CHECK_DEADLOCK FALSE
