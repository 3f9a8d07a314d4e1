CONSTANTS
    Settings <- MCSettings
    Found <- MCFound
    NULL = NULL
SPECIFICATION FairSpec
INVARIANTS
    TypeOK
    GapsExplained
    NoExtractionLost
    MissingIsAbsent
    RecordsMatchResults
PROPERTIES
    RescueFillsGaps
    RunsNodeByNode
    OnlyForward
    RunEnds
CHECK_DEADLOCK FALSE
