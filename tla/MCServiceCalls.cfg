SPECIFICATION Spec
CONSTANTS
    Launches <- TwoLaunches
    PipeCap = 1
    MaxCalls = 3
    MaxAsks = 1
    MaxLines = 0
INVARIANTS SameLaunch CleanResult ToldOnce
