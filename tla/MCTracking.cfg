CONSTANTS
    w1 = w1
    w2 = w2
    Workers <- TwoWorkers
    MaxTime = 2
    MaxRows = 4
SPECIFICATION Spec
SYMMETRY Symmetric
INVARIANT AtMostOnePerThread
INVARIANT OneAtATime
CHECK_DEADLOCK FALSE
