SPECIFICATION Spec
CONSTANTS
    Patterns <- SomePatterns
    Packets <- SomePackets
    MaxRules = 2
    MaxPackets = 3
INVARIANTS
    LookupIsBestMatch
    FlowsAreConversations
    FlowsGoOn
    PacketsUnderTheirRule
CHECK_DEADLOCK FALSE
