SPECIFICATION Spec
CONSTANTS
    Tenants = {w1, w2}
    Assets = {a1, a2}
    Threads = {t1, t2}
    Ttl = 1
    MaxTime = 2
    MaxFaults = 1
    None = None
SYMMETRY Symmetry
INVARIANTS TypeOK OneShot DeletedOnceReturned EveryFileAccounted
PROPERTIES ExpiredNeverDelivered KeepsPromise
