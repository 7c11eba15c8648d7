SPECIFICATION ControlSpec
CONSTANTS
    \* ControlAccess
    Users = {adm, u1}
    Admin = adm
    Clients = {d1, d2}
    Threads = {t1, t2}
    Sessions = {s1, s2}
    Codes = {c1}
    Limit = 1
    Window = 1
    SessionTtl = 2
    MaxPw = 1
    MaxFailures = 3
    MaxEvents = 2
    None = None
    \* ManagedConfiguration
    Requests = {q1, q2}
    Providers = {t1, t2}
    Profiles = {f1}
    Models = {m1}
    Policies = {s1, s2}
    MaxDrafts = 1
    NoEntry = NoEntry
    \* GatewayConnections
    Tasks = {t1, t2}
    Connections = {k1}
    MaxRequests = 4
    MaxRuns = 2
    NoRow = NoRow
SYMMETRY Symmetry
INVARIANTS ControlTypeOK LoginGuarded DraftIsClosed ChangesAreAudited
PROPERTY NothingRevokedReturns
CHECK_DEADLOCK FALSE
