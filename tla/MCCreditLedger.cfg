SPECIFICATION Spec
CONSTANTS
    Keys = {k1}
    Requests = {r1, r2}
    JobIds = {j1}
    Quotes <- MCFewQuotes
    NoLimit = NoLimit
    NoJob = NoJob
    NoKey = NoKey
    LimitChoices <- MCLimitChoices
    QuotaChoices = {1}
    ExpiryChoices = {2}
    Span5h = 1
    Span24h = 2
    MaxTime = 2
INVARIANT LedgerTypeOK
PROPERTY SettledIsFinal SpendRisesWithinLimits
SYMMETRY MCSymmetry
