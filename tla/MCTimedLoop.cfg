SPECIFICATION FairSpec
CONSTANTS
    Actives <- MCActives
    LoopWork = 2
    Chkpts <- MCChkpts
    Targets <- MCTargets
    Costs <- MCCosts
INVARIANTS
    TimeCoversWork
    EndsAtTarget
    CheckpointsKeepUp
PROPERTIES
    LoopEnds
CHECK_DEADLOCK FALSE
