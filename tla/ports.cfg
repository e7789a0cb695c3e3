SPECIFICATION Spec
CONSTANTS
    p1 = p1
    p2 = p2
    Pairs <- TwoPairs
    Vectors <- TwoVectors
    FirstPort = 1
    LastPort = 3
    MaxAdded = 4
    MaxTime = 1
INVARIANTS
    TypeOK
    RuleOfVector
    PortsDistinct
    ExhaustedByCount
CHECK_DEADLOCK FALSE
