SPECIFICATION Spec
CONSTANTS
    p = p
    q = q
    r = r
    short = short
    long = long
    huge = huge
    Pass = {p, q, r}
    Name = {n1, n2, n3}
    Content = {short, long, huge}
    Writer = {w1, w2}
    Anchor <- MCAnchor
    ContentLen <- MCContentLen
    Sizes = {26}
    Placements <- MCPlacements
    MaxKeep = 1
    MaxEntries = 2
    MaxBlocks = 2
    AnchorCap = 2
    MinCap = 2
    SaltLen = 1
    TagLen = 1
    FrameLen = 4
    LenField = 1
    MaxOps = 3
    MaxFaults = 0
    NoVolume = NoVolume
    NoOp = NoOp
    NoName = NoName
    NoContent = NoContent
SYMMETRY NameSymmetry
INVARIANT ReplacedNotLost
CHECK_DEADLOCK FALSE
