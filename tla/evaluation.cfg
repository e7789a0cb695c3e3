SPECIFICATION FairSpec
CONSTANTS
    TCPs <- TwoTCPs
    RunFiles <- SomeRunFiles
    GraphChoices <- SomeGraphs
    Seconds = 2
    StaleSamples = 1
    Percent = 60
    MaxQueue = 2
    MaxPackets = 3
    MaxChanges = 1
    MaxVariables = 3
INVARIANTS
    TypeOK
    ReportsPartitionRun
    LoggedOnceHooked
    FilesAreComplete
    GraphsShowFiles
PROPERTIES
    PercentileCovers
    EventuallyDone
CHECK_DEADLOCK FALSE
