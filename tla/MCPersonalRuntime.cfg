CONSTANTS
    Requests = {r1, r2}
    Savers = {s1, s2}
    Ports = {p1, p2}
    DefaultPort = p1
    References = {k1, k2}
    TextReference = k1
    MediaReference = k2
    Assignments <- MCAssignments
    MaxVersions = 2
    NoFile = NoFile
    Nobody = Nobody
SPECIFICATION FairSpec
INVARIANTS TypeOK RuntimeSwapsSafely
PROPERTY LockIsPassedOn
CHECK_DEADLOCK FALSE
