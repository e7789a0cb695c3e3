SPECIFICATION FairSpec
CONSTANTS
    Vectors <- TurnVectors
    MaxRetries = 0
PROPERTY OtherSideCloses
CHECK_DEADLOCK FALSE
