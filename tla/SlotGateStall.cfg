SPECIFICATION FairSpec
CONSTANTS
    Owners = {o1, o2}
    Limits = {1, 2}
    CrashPoints <- MCSafeCrashes
    MayStall = TRUE
INVARIANT NoLostTicket
PROPERTY DeadSlotIsReclaimed
CHECK_DEADLOCK FALSE
