CONSTANTS
    k1 = k1
    k2 = k2
    k3 = k3
    Keys <- MCKeys
    Vals <- MCVals
    Cap = 2
    Lane = "C"
    Batch = 1
    HashKeys <- MCHashKeys
    MaxVal = 2
    MaxTime = 3
SPECIFICATION Spec
INVARIANT PathsAgree
