\* Two threads, six requests of any kind, one failing statement, one restart.
SPECIFICATION Spec
CONSTANTS
    Threads = {t1, t2}
    MaxRequests = 6
    MaxFaults = 1
    MaxRestarts = 1
CHECK_DEADLOCK FALSE
SYMMETRY Symm
INVARIANTS
    SuccessInv
    ErrorLeavesNothing
PROPERTIES
    NoSilentOverwrite
