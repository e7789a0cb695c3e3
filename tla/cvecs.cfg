SPECIFICATION Spec
CONSTANTS
    Numbers <- Digits
    Files <- AllFiles
INVARIANTS
    SoundAreAdded
    NeverMixedUp
PROPERTY
    EventuallyRead
CHECK_DEADLOCK FALSE
