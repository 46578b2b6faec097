CONSTANTS
    t1 = t1
    t2 = t2
    t3 = t3
    h1 = h1
    h2 = h2
    h3 = h3
    a = a
    b = b
    c = c
    d = d
    m1 = m1
    m2 = m2
    m3 = m3
    m4 = m4
    Tasks <- MCTasks
    OsThreads <- MCThreads
    Host <- OwnThreads
    Objects <- MCObjects
    Rank <- MCRank
    Stripes <- MCStripes
    MaxNest = 2
SPECIFICATION MonitorSpec
SYMMETRY Symmetry
CHECK_DEADLOCK FALSE
INVARIANT SharingOnlySerializes
