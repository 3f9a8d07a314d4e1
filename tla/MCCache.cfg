\* Two tasks of the web process and one CLI on two brochures, uploaded or
\* filed, and a draft of its own.
CONSTANTS
    w1 = w1
    w2 = w2
    c1 = c1
    web = web
    cli = cli
    b1 = b1
    b2 = b2
    d1 = d1
    k1 = k1
    k2 = k2
    Users = {w1, w2, c1}
    Processes = {web, cli}
    Process <- MCProcess
    Web = web
    Jobs <- MCJobs
    Brochures = {b1, b2}
    Drafts = {d1}
    Keys = {k1, k2}
    Key <- MCKey
    MaxFaults = 1
    NULL = NULL
SYMMETRY MCSymmetry
SPECIFICATION Spec
INVARIANTS
    TypeOK
    HashIsOfAnalysed
    AnalysedIsWhole
CHECK_DEADLOCK FALSE
