SPECIFICATION HookSpec
CONSTANTS
    Requests = {r1, r2}
    Speeches = {s1}
    HookTroubles = 0
    NoJob = NoJob
INVARIANT SpeechIsBookedOnce
CHECK_DEADLOCK FALSE
