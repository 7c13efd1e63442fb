\* Expected to fail: stop() joins the pool while holding the mutex it needs.
SPECIFICATION FairSpec
CONSTANTS
    Callers = {c1}
    Workers = {w1, w2, w3, w4}
    Sockets = {s1, s2}
    MinThreads = 1
    MaxThreads = 2
    ThreadErrors = FALSE
    MaxStarts = 1
    NoOne = NoOne
PROPERTY StopCompletes
CHECK_DEADLOCK FALSE
