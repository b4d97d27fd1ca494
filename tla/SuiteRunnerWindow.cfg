SPECIFICATION Spec
CONSTANTS
    NumNodes = 1
    MaxValue = 1
    Want = 1
    MaxSignals = 1
    Args <- MCSuiteArgs
    Eligible <- MCWindowEligible
INVARIANT
    RestoresOrReports
