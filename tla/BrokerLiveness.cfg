\* Liveness: no symmetry, two subscriptions, one topic.
SPECIFICATION FairSpec
CONSTANTS
    Threads = {t1, t2}
    Sessions = {s1, s2}
    Topics = {tp1}
    AuthSessions = {a1}
    MaxSubs = 2
    NoThread = NoThread
    NoSession = NoSession
    NoAuth = NoAuth
PROPERTIES
    LockIsReleased
    RevocationCompletes
\* The broker stops for good where an exception ends the process.
CHECK_DEADLOCK FALSE
