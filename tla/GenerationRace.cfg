SPECIFICATION GenSpec
CONSTANTS
    Keys = {}
    Requests = {r1, r2}
    JobIds = {r1, r2}
    Quotes = {1}
    NoLimit = NoLimit
    NoJob = NoJob
    NoKey = NoKey
    LimitChoices <- MCUnlimited
    QuotaChoices = {}
    ExpiryChoices = {}
    Span5h = 1
    Span24h = 2
    MaxTime = 1
    IdemKeys = {i1, i2}
    NoIdem = NoIdem
    StaleAfter = 0
    MaxCrashes = 0
CONSTRAINT MCOneLifeAtATime
SYMMETRY MCSymmetry
INVARIANT TypeOK OneJobPerIdempotencyKey DuplicateIsFree
CHECK_DEADLOCK FALSE
