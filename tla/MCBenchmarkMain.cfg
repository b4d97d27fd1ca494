SPECIFICATION Spec
CONSTANTS
    Invocations <- MCInvocations
    AllowedCpus = 4
    U32 = 1073741824
    U64 = 1610612736
    branch_case_count = 2
    Rounds = 2
    Costs = {4, 7}
    Second = 1
    CycleCounts = {3}
    MaxThreads = 2
INVARIANTS
    ParsedAsWritten
    HugePageRegionIsOnePage
    SweepReport
    SweepLastsTarget
CHECK_DEADLOCK FALSE
