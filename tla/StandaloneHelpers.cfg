SPECIFICATION HSpec
CONSTANTS
    NumNodes = 3
    MaxValue = 2
    Eligible = {1, 3}
    Want = 2
    MaxSignals = 2
INVARIANTS
    AllOrNothing
CHECK_DEADLOCK FALSE
