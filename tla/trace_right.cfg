SPECIFICATION Spec
CONSTANTS
    MaxPairs = 1
    MaxPackets = 1
INVARIANT AllPairsTraced
CHECK_DEADLOCK FALSE
