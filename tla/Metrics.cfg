\* Two threads, two tenants, intervals of one minute or two, one report or change of length.
SPECIFICATION MetricsSpec
CONSTANTS
    Threads = {t1, t2}
    Tenants = {x1, x2}
    Minutes = {0, 2}
    DefaultMinutes = 1
    MaxRecords = 3
    MaxReads = 1
    MaxTime = 2
SYMMETRY Symm
CHECK_DEADLOCK FALSE
INVARIANTS
    CountersInv
    IntervalIsFresh
    ReportConsistent
