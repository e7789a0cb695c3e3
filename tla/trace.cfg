SPECIFICATION Spec
CONSTANTS
    MaxPairs = 2
    MaxPackets = 2
INVARIANTS
    TypeOK
    NoFalseLine
    LeftPairsTraced
    EndLinksTraced
    LinesIdentifyPair
CHECK_DEADLOCK FALSE
