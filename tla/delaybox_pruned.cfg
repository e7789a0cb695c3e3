SPECIFICATION Spec
CONSTANTS
    f1 = f1
    f2 = f2
    f3 = f3
    Flows <- TwoFlows
    Rules <- TwoSimpleRules
    Sizes = {1}
    PruneAbove = 1
    MaxPackets <- TwoPacketsEach
    MaxTime = 1
INVARIANT FinEndsDelay
CHECK_DEADLOCK FALSE
