\* Form and frame of one page, and a row the seed rewrites in between.
CONSTANTS
    RunIds = {r1, r2}
    Traces = {t1}
    SeedTraces = {s1}
    Crds = {c1}
    Reviewers = {page, script}
    ApiUsers = {script}
    Reports = {h1, h2}
    MaxResults = 4
    MaxDecisions = 1
    NULL = NULL
SYMMETRY MCSymmetry
SPECIFICATION Spec
INVARIANTS
    PinnedToWhatWasSeen
CHECK_DEADLOCK FALSE
