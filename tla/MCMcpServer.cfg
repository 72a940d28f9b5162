SPECIFICATION FairSpec
CONSTANTS
    i = i
    NoId = NoId
    NullId = NullId
    Lines <- EveryLine
    MaxReceived = 2
    Launches <- TwoLaunches
    PipeCap = 1
    MaxCalls = 3
    MaxAsks = 1
    MaxLines = 0
INVARIANTS EveryRequestAnswered BoundForLife CleanEnd
PROPERTIES ServingEnds
