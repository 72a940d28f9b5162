SPECIFICATION FairSpec
CONSTANTS
    a = a
    b = b
    c = c
    d = d
    x = x
    Items = {a, b, c, x}
    Root = a
    Pathless = {x}
    External = {}
    SnippetOf <- Places
    MaxDepths = {0, 4}
    MaxFan = 2
    MaxProbes = 2
PROPERTIES Ends
