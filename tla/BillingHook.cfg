SPECIFICATION HookFairSpec
CONSTANTS
    Requests = {r1, r2}
    Speeches = {s1}
    HookTroubles = 2
    NoJob = NoJob
INVARIANT HookTypeOK AnsweredIsSettled BookedWorkIsReal RefundedSpeechFailed
PROPERTY HoldWithoutJobEnds
CHECK_DEADLOCK FALSE
