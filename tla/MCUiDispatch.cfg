CONSTANTS
    a = a
    b = b
    c = c
    d = d
    w1 = w1
    w2 = w2
    Null = Null
    Handlers <- MCHandlers
    Windows <- MCWindows
    Target <- MCTarget
    Cap0 = 2
    CapMax = 4
    Together = FALSE
SPECIFICATION FairSpec
CHECK_DEADLOCK FALSE
INVARIANTS HoldsTheWaiting DroppedWithItsWindow
PROPERTIES QueuedRuns ImplementsFifo
