SPECIFICATION TransactionsSpec
CONSTANTS
    \* GatewayTransaction
    Slots = {s1, s2}
    Clients = {c1, c2}
    mv = mv
    mt = mt
    mu = mu
    Models = {mv, mt, mu}
    MaxGen = 2
    Registry <- MCRegistry
    Unknown = Unknown
    ResponseIds = {r1, r2}
    StateTtl = 1
    MaxStates = 2
    MaxRequests = 3
    MaxTime = 1
    None = None
    \* IdempotentPreparation
    Callers = {s1, s2}
    IdemKeys = {c1, c2}
    Fingerprints = {r1, r2}
    EntryTtl = 2
    MaxEntries = 1
    MaxClock = 3
    MaxCalls = 4
    Absent = Absent
SYMMETRY Symmetry
INVARIANTS TransactionsTypeOK MediaOnlyToCapableTarget ConversationsKeptApart IdempotencyHolds
PROPERTY RetryIsNotRepeated
CHECK_DEADLOCK FALSE
