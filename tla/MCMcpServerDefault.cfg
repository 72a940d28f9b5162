SPECIFICATION Spec
CONSTANTS
    i = i
    NoId = NoId
    NullId = NullId
    Lines <- ServiceCalls
    MaxReceived = 1
    Launches <- OneLaunch
    PipeCap = 1
    MaxCalls = 2
    MaxAsks = 1
    MaxLines = 0
INVARIANTS DocumentedDefault
