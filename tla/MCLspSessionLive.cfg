SPECIFICATION FairSpec
CONSTANTS
    Uris = {u1}
    Texts = {t1, bad}
    NotUtf8 = {bad}
    NoUri = NoUri
    NoText = NoText
    PipeCap = 2
    MaxCalls = 2
    MaxUnprompted = 2
    MaxEdits = 1
PROPERTIES CallsEnd ShutdownEnds
