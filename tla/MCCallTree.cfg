SPECIFICATION Spec
CONSTANTS
    a = a
    b = b
    c = c
    d = d
    x = x
    Items = {a, b, c, d, x}
    Root = a
    Pathless = {}
    External = {x}
    SnippetOf <- Places
    MaxDepths <- Depths
    MaxFan = 2
    MaxProbes = 1
INVARIANTS FetchedOnce DepthBound OneAccountPerItem TreeIsTheAnswers ClosedUnlessCut WorkBound SnippetsUnique
SYMMETRY Symmetry
