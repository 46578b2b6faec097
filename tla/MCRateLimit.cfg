CONSTANTS
    c1 = c1
    c2 = c2
    k1 = k1
    k2 = k2
    Callers <- TwoCallers
    Keys <- MCKeys
    Cap = 2
    Lane = "Zan"
    Batch = 1
    Limit = 2
    Window = 2
    MaxTime = 5
    MaxWindows = 2
SPECIFICATION Spec
SYMMETRY Symmetry
CHECK_DEADLOCK FALSE
INVARIANTS WindowBounded NoEarlyWindow RefusalEnds
