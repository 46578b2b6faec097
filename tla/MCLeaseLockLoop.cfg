CONSTANTS
    r1 = r1
    r2 = r2
    r3 = r3
    k1 = k1
    k2 = k2
    m1 = m1
    m2 = m2
    Requests <- MCRequests
    Keys <- MCKeys
    Managers <- OneManager
    Cap = 2
    Lane = "Zan"
    Batch = 1
    AsyncWorkers = FALSE
    Lease = 2
    MaxOwner = 4
    MaxTime = 5
SPECIFICATION Spec
SYMMETRY Symmetry
CHECK_DEADLOCK FALSE
INVARIANTS OneHolder LeaseKept
