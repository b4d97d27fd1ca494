SPECIFICATION Spec
CONSTANTS
    Mixes <- MCMixes
    Delays <- MCDelays
    Target = 2
    Bandwidths <- MCBandwidths
INVARIANT
    LoadLastsAsLong
CHECK_DEADLOCK FALSE
