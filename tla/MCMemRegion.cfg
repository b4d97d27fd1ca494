SPECIFICATION Spec
CONSTANTS
    Params <- MCParams
    FallbackPage = 4
INVARIANTS
    ShufflePermutes
    SingleCycle
    PageByPage
CHECK_DEADLOCK FALSE
