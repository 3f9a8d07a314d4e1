\* Rows rewritten by the seed, deleted and run again; one page, one script.
CONSTANTS
    RunIds = {r1, r2}
    Traces = {t1}
    SeedTraces = {s1}
    Crds = {c1}
    Reviewers = {page, script}
    ApiUsers = {script}
    Reports = {h1, h2}
    MaxResults = 3
    MaxDecisions = 2
    NULL = NULL
SYMMETRY MCSymmetry
SPECIFICATION Spec
INVARIANTS
    TypeOK
    ReleasedWasSeen
    SupersedesWhatItSaw
PROPERTIES
    RowsAreShared
CHECK_DEADLOCK FALSE
