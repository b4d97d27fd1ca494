SPECIFICATION FairSpec
CONSTANTS
    NumNodes = 3
    MaxValue = 2
    Want = 2
    MaxSignals = 2
    Args <- MCArgs
    Eligible <- MCEligible
INVARIANTS
    TypeOK
    ChangesAreRecorded
    UnrestoredIsReported
    SuccessMeansClean
    BenchmarksSeeWholeConfiguration
PROPERTIES
    RestorationIsNotInterrupted
    RunnerEnds
    KeepsTransaction
