SPECIFICATION Spec
CONSTANTS
    Vectors <- TurnVectors
    MaxRetries = 0
PROPERTY SendWaitRespected
CHECK_DEADLOCK FALSE
