SPECIFICATION FairSpec
CONSTANTS
    Creds = {c1}
    Publishers = {p1, p2}
    MaxVersions = 3
    MaxDrafts = 1
    MaxRollbacks = 1
    MaxFaults = 1
    MaxReadFaults = 1
    MaxRestarts = 1
    None = None
INVARIANTS TypeOK OnlyCommittedVisible SignedVersionFree
PROPERTIES NeverBackwards AppliedUnlessReadFails
CHECK_DEADLOCK FALSE
