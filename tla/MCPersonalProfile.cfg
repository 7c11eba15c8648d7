CONSTANTS
    MaxSaves = 2
    MaxFailures = 3
    MaxDelay = 2
    Absent = Absent
    Damaged = Damaged
SPECIFICATION FairProfileSpec
INVARIANTS ProfileTypeOK LastKnownGoodSurvives
PROPERTIES BackoffRespected CrashedIsRelaunched
CHECK_DEADLOCK FALSE
