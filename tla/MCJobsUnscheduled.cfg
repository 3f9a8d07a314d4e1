\* The endpoints FastAPI runs in a worker thread.
CONSTANTS
    RunIds = {r1, r2}
    Traces = {t1, t2}
    Crds = {c1}
    DraftCrd <- MCDraftCrd
    Endpoints = {"api", "ui"}
    Threshold = 1
    Timely = TRUE
    Deletable = {"complete"}
    NULL = NULL
SPECIFICATION Spec
INVARIANTS
    EnqueuedIsScheduled
