\* Two threads and connections, three requests of the seventeen kinds, a cache of one
\* parsed query.
SPECIFICATION Spec
CONSTANTS
    Threads = {t1, t2}
    Connections = {k1, k2}
    Texts = {"open", "write", "fixed", "admin", "huge", "mixed", "deep", "wide", "bad"}
    Document <- MCDocument
    Unparsable = Unparsable
    Guarded <- MCGuarded
    Users = {"anonymous", "ada", "root"}
    Tenant <- MCTenant
    Roles <- MCRoles
    Anonymous = "anonymous"
    PlatformAdmin = "platform_admin"
    Resolvers = {"hello", "createUser", "serverMetrics", "users"}
    Required <- MCRequired
    OrgScoped = {"createUser"}
    NotExecutable = "type"
    Written <- MCWritten
    Unreadable <- MCUnreadable
    Requests <- MCRequests
    k_query_cache_max = 1
    max_depth = 2
    max_complexity = 3
    MaxRequests = 3
SYMMETRY Symm
CHECK_DEADLOCK FALSE
INVARIANTS
    CacheInv
    IsolationInv
    
