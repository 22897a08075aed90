SPECIFICATION FairSpec
CONSTANTS
    SourceFrames = 5
    Cuts <- MCCuts
    MaxParts = 3
    Ceiling = 7
    HeadContext = 2
    TailMargin = 3
    Regular <- MCRegular
    Paid <- MCPaid
    Configured <- MCRegular
    MaxEdge <- MCMaxEdge
    Requests <- MCRequests
    MaxAttempts = 2
    Width = 2
    NumKeys = 2
    PerKey = 1
    MaxStrays = 2
INVARIANT UpscaleTypeOK FilmIsTheSource UploadsFit QuietWhenOver
PROPERTY UpscaleEnds
