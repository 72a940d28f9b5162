SPECIFICATION PureSpec
CONSTANTS
    Modulus = 16
    MaxLines = 4
    RangeLines <- SmallRangeLines
    Paddings <- SmallPaddings
    Bytes <- SmallBytes
    MaxLength = 4
    Elements <- SmallElements
    MaxChildren = 2
    MaxDepth = 2
    method <- Asked
INVARIANTS InBounds ShowsTheRange NeverEmpty AnySpelling MethodFound
