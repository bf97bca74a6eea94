\* Two unlocked ida_simple_get callers on one ida.
CONSTANTS
    t1 = t1
    t2 = t2
    t3 = t3
    Threads <- MCThreadsIda
    ApiOf <- MCApiOfIda
    MaxId = 2
    Start = 1
    End = 2

SPECIFICATION Spec

INVARIANT
    DistinctIds
