SPECIFICATION Spec
CONSTANTS
    Topologies <- GapMachine
    MinMem = 1
    Results <- FastResults
INVARIANT
    CellsUnderTheirHeader
CHECK_DEADLOCK FALSE
