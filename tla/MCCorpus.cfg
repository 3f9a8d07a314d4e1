CONSTANTS
    f1 = f1
    f2 = f2
    band = band
    Items = {5, 9}
    RescueItems = {5, 9}
    RescueLength = 3
    RescuedLength = 2
    PlaceholderLength = 2
    Seeders = {s1, s2}
    Askers = {a1}
    Firms = {f1, f2}
    Draft = draft
    Versions = {1, 2}
    Filings <- MCFilings
    Bands = {band}
    Populated = {{5, 9}}
    CliQueries <- MCCliQueries
    SpecFiles <- MCSpecFiles
    TextsOf <- MCTextsOf
    Answers <- MCAnswers
    PerItem = 1
    Prefetch = 1
    RerankTop = 2
    MaxBusy = 2
    NULL = NULL
SYMMETRY MCSymmetry
SPECIFICATION Spec
INVARIANTS
    TypeOK
    SuccessMeansSeeded
    PeersAreSections
    PeersFound
PROPERTIES
    ReseedsInPlace
CHECK_DEADLOCK FALSE
