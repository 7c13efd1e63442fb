\* Two threads, an ordinary account and a platform_admin's, two attempts per window.
SPECIFICATION Spec
CONSTANTS
    Threads = {t1, t2}
    Accounts = {user, admin}
    Holders = {admin}
    Window = 1
    MaxAttempts = 2
    Life = 1
    MaxSessions = 2
    MaxLogins = 4
    MaxTime = 2
SYMMETRY Symm
CHECK_DEADLOCK FALSE
INVARIANTS
    LockoutInv
    RevocationIsTold
    SessionsInv
PROPERTIES
    RefusedForGood
