\* Two threads that may each hold one of two connections and wait for another, with
\* connections that do not open; no symmetry, because of the liveness property.
SPECIFICATION ConnFairSpec
CONSTANTS
    Borrowers = {t1, t2}
    MaxConnections = 2
    IoErrors = TRUE
INVARIANTS
    PoolAccounting
    NoLostWakeup
PROPERTIES
    AcquireReturns
