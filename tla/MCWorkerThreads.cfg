SPECIFICATION FairSpec
CONSTANTS
    NumThreads = 3
    NumPhases = 3
    Duration <- MCDuration
    Timeouts <- MCTimeouts
INVARIANTS
    TypeOK
    NoPacketRace
    ResultsAreFresh
    JoinsValidHandle
    RegionBeforeUse
    StuckHadTheTimeout
PROPERTIES
    WatchdogEnds
    KeepsBarrier
CHECK_DEADLOCK FALSE
