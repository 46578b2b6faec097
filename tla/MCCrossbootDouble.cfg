CONSTANTS
    P = 5
    EMax = 6
    Word = 9
    MaxDigits = 6
    ExpClamp = 7
    Far = 9
    Calls <- MCCalls
SPECIFICATION Spec
CHECK_DEADLOCK FALSE
INVARIANTS ReadsNearest ArithmeticExact PrintsNearest RoundTrips
