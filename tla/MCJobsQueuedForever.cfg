\* Crashes and failed start transactions leave queued rows behind.
CONSTANTS
    RunIds = {r1, r2}
    Traces = {t1, t2}
    Crds = {c1}
    DraftCrd <- MCDraftCrd
    Endpoints = {"upload"}
    Threshold = 1
    Timely = TRUE
    Deletable = {"complete"}
    NULL = NULL
SPECIFICATION FairSpec
PROPERTIES
    AcceptedReachesTerminal
