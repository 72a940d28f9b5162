SPECIFICATION FairSpec
CONSTANTS
    Symbols <- SmallSymbols
    class_name <- Asked
    Scope = {"a", "b"}
    TheFile = "a"
    Positions = {p1, p2}
    MaxSymbols = 3
    ready_timeout = 3
    retry_interval = 0
    MaxAttempts = 3
INVARIANTS FirstThatFits
PROPERTIES Ends
