SPECIFICATION Spec
CONSTANTS
    Mixes <- MCMixes
    Delays <- MCDelays
    Target = 2
    Bandwidths <- MCBandwidths
INVARIANTS
    NearestKernelIsFound
    RowsFollowTheList
    TrafficIsAccounted
    LatencyRunsTheTarget
CHECK_DEADLOCK FALSE
