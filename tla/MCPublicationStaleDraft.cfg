SPECIFICATION Spec
CONSTANTS
    Creds = {c1}
    Publishers = {p1}
    MaxVersions = 2
    MaxDrafts = 2
    MaxRollbacks = 0
    MaxFaults = 0
    MaxReadFaults = 0
    MaxRestarts = 0
    None = None
INVARIANT BarredStaysOut
CHECK_DEADLOCK FALSE
