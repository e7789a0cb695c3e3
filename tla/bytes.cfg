SPECIFICATION BytesSpec
CONSTANTS
    Vectors <- ByteVectors
    MaxRetries = 1
    SndBuf = 3
INVARIANTS
    BytesConserved
    NoStrayDoSend
PROPERTIES
    RecvWaitRespected
    ReplaysAdus
    EventuallyReplayed
CHECK_DEADLOCK FALSE
