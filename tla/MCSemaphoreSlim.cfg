CONSTANTS
    t1 = t1
    t2 = t2
    t3 = t3
    Threads <- MCThreads
    MaxLimit = 2
SPECIFICATION FairSpec
CHECK_DEADLOCK FALSE
INVARIANTS RegistrationsBalance SlotsBalance NoLostWakeup HoldersCounted
PROPERTIES AdmissionBounded CancelDrains
