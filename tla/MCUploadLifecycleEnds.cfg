SPECIFICATION FairSpec
CONSTANTS
    p1 = p1
    Run = {p1}
    UsableTime = 2
    LeaseTime = 1
    RunTime = 1
    MaxTakeovers = 2
    Horizon = 3
    MaxFaults = 2
PROPERTIES
    UnspentIsCleaned
    ClosedUploadGoes
CHECK_DEADLOCK FALSE
