SPECIFICATION Spec
CONSTANTS
    Uris = {u1, u2}
    Texts = {t1, t2, bad}
    NotUtf8 = {bad}
    NoUri = NoUri
    NoText = NoText
    PipeCap = 2
    MaxCalls = 3
    MaxUnprompted = 1
    MaxEdits = 0
SYMMETRY Symmetry
INVARIANTS TypeOK DocMirror WireLegal HandshakeLegal AsksConserved
PROPERTIES AnswerIsCurrent ImplementsService
