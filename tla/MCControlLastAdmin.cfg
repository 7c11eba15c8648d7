SPECIFICATION ControlSpec
CONSTANTS
    \* ControlAccess
    Users = {adm, u1}
    Admin = adm
    Clients = {d1}
    Threads = {t1, t2}
    Sessions = {s1, s2}
    Codes = {c1}
    Limit = 1
    Window = 1
    SessionTtl = 2
    MaxPw = 1
    MaxFailures = 4
    MaxEvents = 3
    None = None
    \* ManagedConfiguration
    Requests = {q1}
    Providers = {t1, t2}
    Profiles = {}
    Models = {}
    Policies = {}
    MaxDrafts = 0
    NoEntry = NoEntry
    \* GatewayConnections
    Tasks = {t1, t2}
    Connections = {}
    MaxRequests = 0
    MaxRuns = 0
    NoRow = NoRow
SYMMETRY Symmetry
INVARIANTS LastAdminStays
CHECK_DEADLOCK FALSE
