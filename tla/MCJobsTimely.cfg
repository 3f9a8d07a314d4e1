\* Every run ends within the threshold, only terminal rows are deleted.
CONSTANTS
    RunIds = {r1, r2}
    Traces = {t1, t2}
    Crds = {c1, c2}
    DraftCrd <- MCDraftCrd
    Endpoints = {"api", "ui", "upload"}
    Threshold = 1
    Timely = TRUE
    Deletable = {"complete", "failed"}
    NULL = NULL
SPECIFICATION FairSpec
INVARIANTS
    OutcomeMatchesStatus
    ResultMatchesRow
    ReaperSparesLiveRuns
PROPERTIES
    LifecycleSpec
    ReadersSee
    AcceptedSettles
