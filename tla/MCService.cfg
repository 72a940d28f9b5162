SPECIFICATION FairSpec
CONSTANTS
    Launches <- OneLaunch
    PipeCap = 1
    MaxCalls = 2
    MaxAsks = 1
    MaxLines = 2
INVARIANTS NoStrays NothingLeaks
PROPERTIES CallsEnd
