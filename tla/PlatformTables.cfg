\* Two threads and four requests of any kind, one failing statement.
SPECIFICATION Spec
CONSTANTS
    Threads = {t1, t2}
    Emails = {e1, e2, e3}
    BuiltIn = {builtin}
    Custom = {custom}
    Orgs = {o1, o2}
    Asked = {0}
    DefaultMin = 2
    DefaultMax = 3
    Capacity = 2
    Minute = 3
    MaxRequests = 4
    MaxTime = 2
    MaxFaults = 1
    MaxRestarts = 1
CHECK_DEADLOCK FALSE
SYMMETRY Symm
INVARIANTS
    OrganizationsInv
    SeedingIsBounded
    SettingsOrdered
    LimiterHolds
PROPERTIES
    NoLostUpdate
