SPECIFICATION Spec
CONSTANTS
    f1 = f1
    f2 = f2
    f3 = f3
    Flows <- AllFlows
    Rules <- TwoRules
    Sizes = {1, 2}
    PruneAbove = 1
    MaxPackets <- FewPackets
    MaxTime = 1
INVARIANTS
    QueuesArePending
    NoFatal
    SentInOrder
    DelayRespected
    PacketsAccounted
CHECK_DEADLOCK FALSE
