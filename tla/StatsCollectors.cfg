SPECIFICATION FairSpec
CONSTANTS
    MaxPids = 3
    MaxSignals = 2
INVARIANTS
    TypeOK
    NoneOutlives
    StatusTellsOutcome
PROPERTIES
    CleanupEnds
CHECK_DEADLOCK FALSE
