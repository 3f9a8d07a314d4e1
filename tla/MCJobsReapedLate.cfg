\* A run that outlives the threshold and the sweep that picked its row.
CONSTANTS
    RunIds = {r1, r2}
    Traces = {t1, t2}
    Crds = {c1}
    DraftCrd <- MCDraftCrd
    Endpoints = {"upload"}
    Threshold = 1
    Timely = FALSE
    Deletable = {"complete"}
    NULL = NULL
SPECIFICATION Spec
PROPERTIES
    ReaperOnlyTouchesRunning
