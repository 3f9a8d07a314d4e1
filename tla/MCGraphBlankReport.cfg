CONSTANTS
    Settings <- MCSettings
    Found <- MCFound
    NULL = NULL
SPECIFICATION FairSpec
INVARIANTS
    NoBlankReportPending
CHECK_DEADLOCK FALSE
