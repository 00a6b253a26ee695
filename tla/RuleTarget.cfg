SPECIFICATION Spec
CONSTANTS
    root = root
    a = a
    b = b
    c = c
    d = d
    v = v
    w = w
    u = u
    Objects = {root, a, b, c, d}
    Root = root
    Exact = {v, w}
    Similar = {u}
    Other = {}
    Spaces <- MCSpaces
    MaxResults = 2
    MaxDepth = 3
    MaxNodes = 7
    Payloads <- MCPayloads
    Messages <- MCMessages
    MaxInt = 30
    MaxUInt = 60
    None = none
INVARIANTS
    TypeOK
    FoundInReach
    FoundAll
    ResolvedUnambiguously
    WriteTruthful
