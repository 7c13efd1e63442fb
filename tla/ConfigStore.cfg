\* Two requests at a time over HTTP and WebSocket, one failing statement, one restart.
SPECIFICATION Spec
CONSTANTS
    Threads = {t1, t2}
    Tenants = {o1}
    Versions = {"1.0.0"}
    Contents = {"bound", "mistyped"}
    Stores <- MCStores
    MaxSnapshots = 3
    MaxAdded = 2
    MaxTime = 2
    WebSockets = TRUE
    MaxFaults = 1
    MaxRestarts = 1
SYMMETRY Symm
INVARIANTS
    StoreInv
    FailureChangesNothing
    LoadedIsActive
PROPERTIES
    StaysConfigured
    RollbackRestoresPrevious
