\* One life of a server that two threads use; it stops for good when destroyed.
SPECIFICATION FairSpec
CONSTANTS
    Callers = {c1, c2}
    Workers = {w1, w2, w3, w4}
    Sockets = {s1, s2}
    MinThreads = 1
    MaxThreads = 2
    ThreadErrors = TRUE
    MaxStarts = 1
    NoOne = NoOne
INVARIANTS
    PoolInv
    QuietWhenStopped
PROPERTY JoinEndsUnlessAdapting
CHECK_DEADLOCK FALSE
