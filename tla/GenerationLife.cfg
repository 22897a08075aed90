SPECIFICATION GenFairSpec
CONSTANTS
    Keys = {k1}
    Requests = {r1}
    JobIds = {r1}
    Quotes = {1, 2}
    NoLimit = NoLimit
    NoJob = NoJob
    NoKey = NoKey
    LimitChoices <- MCOneUnit
    QuotaChoices = {}
    ExpiryChoices = {}
    Span5h = 1
    Span24h = 2
    MaxTime = 2
    IdemKeys = {}
    NoIdem = NoIdem
    StaleAfter = 1
    MaxCrashes = 2
INVARIANT WorkIsCharged SpentIsPublished
PROPERTY UnlinkedHoldIsRefunded EndedJobIsSettled ImplementsPrepaidOrder
CHECK_DEADLOCK FALSE
