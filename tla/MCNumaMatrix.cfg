SPECIFICATION Spec
CONSTANTS
    Topologies <- Machines
    MinMem = 1
    Results <- AnyResults
INVARIANTS
    PinnedWhereAllowed
    WorkersHaveOwnCpu
    CellMeasuresItsNode
    MatrixIsComplete
CHECK_DEADLOCK FALSE
