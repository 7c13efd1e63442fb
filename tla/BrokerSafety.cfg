\* Two threads, sockets, topics and auth sessions and three subscriptions: enough for a
\* swap that moves a record between sessions and topics, under contention.
SPECIFICATION Spec
CONSTANTS
    Threads = {t1, t2}
    Sessions = {s1, s2}
    Topics = {tp1, tp2}
    AuthSessions = {a1, a2}
    MaxSubs = 3
    NoThread = NoThread
    NoSession = NoSession
    NoAuth = NoAuth
SYMMETRY Symm
INVARIANTS
    IndexConsistent
    RevocationHitsItsOwner
PROPERTIES
    ImplementsRegistry
\* The broker stops for good where an exception ends the process.
CHECK_DEADLOCK FALSE
