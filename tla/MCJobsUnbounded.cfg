\* Runs may outlive the threshold, rows are deleted in any status.
CONSTANTS
    RunIds = {r1, r2}
    Traces = {t1, t2}
    Crds = {c1, c2}
    DraftCrd <- MCDraftCrd
    Endpoints = {"api", "upload"}
    Threshold = 1
    Timely = FALSE
    Deletable <- MCAllStatuses
    NULL = NULL
SPECIFICATION ReapedSpec
INVARIANTS
    TypeOK
    ReadableOutcome
PROPERTIES
    VerdictIsFinal
    RunningIsLeft
