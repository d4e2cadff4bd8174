SPECIFICATION Spec
CONSTANTS
    View = {v1, v2}
    v1 = v1
    v2 = v2
    Leaf = {x, y}
    x = x
    y = y
    MaxLeaves = 7
    MaxHeads = 2
SYMMETRY LogSymmetry
INVARIANTS ExtensionsAccepted InclusionExact SplitViewDetected
CHECK_DEADLOCK FALSE
