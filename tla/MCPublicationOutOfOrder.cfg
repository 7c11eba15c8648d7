SPECIFICATION Spec
CONSTANTS
    Creds = {c1}
    Publishers = {p1, p2}
    MaxVersions = 2
    MaxDrafts = 1
    MaxRollbacks = 0
    MaxFaults = 0
    MaxReadFaults = 0
    MaxRestarts = 0
    None = None
INVARIANT PublishedIsUsed
CHECK_DEADLOCK FALSE
