SPECIFICATION Spec
CONSTANTS
    Vectors <- AnyVectors
    MaxRetries = 1
INVARIANTS
    TypeOK
    NoFatal
    CloseIsGraceful
    RepliesPaid
PROPERTIES
    SentOnSchedule
    ExchangesAdus
CHECK_DEADLOCK FALSE
