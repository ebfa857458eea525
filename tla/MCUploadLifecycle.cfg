SPECIFICATION Spec
CONSTANTS
    Run = {p1, p2}
    UsableTime = 3
    LeaseTime = 1
    RunTime = 1
    MaxTakeovers = 1
    Horizon = 4
    MaxFaults = 1
SYMMETRY MCSymmetry
INVARIANTS TypeOK WantedBytesKept StagingCleaned
PROPERTIES ImplementsPhases OpenUntilItsTime
CHECK_DEADLOCK FALSE
