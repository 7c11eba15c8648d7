CONSTANTS
    Requests = {r1}
    Savers = {s1}
    Ports = {p1, p2}
    DefaultPort = p1
    References = {k1, k2}
    TextReference = k1
    MediaReference = k2
    Assignments <- MCAssignments
    MaxVersions = 2
    NoFile = NoFile
    Nobody = Nobody
SPECIFICATION Spec
INVARIANT RestartAccepted
CHECK_DEADLOCK FALSE
