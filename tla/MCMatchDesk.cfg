SPECIFICATION Spec
SYMMETRY Symmetry
CONSTANTS
    m1 = m1
    m2 = m2
    m3 = m3
    c1 = c1
    c2 = c2
    f1 = f1
    NoFolder = NoFolder
    Matches <- ThreeMatches
    Callers <- TwoCallers
    Folders <- OneFolder
    MaxActive = 2
    OverrunsCancel = TRUE
    MaxPly = 2
    MaxFaults = 1
INVARIANTS
    TypeOK
    AdmissionLimit
    TracesAreOrderly
    PliesAreContiguous
    StaleTasksAreTold
    BoardIsTheBook
PROPERTIES
    FinishedIsFrozen
    ImplementsBook
    OnlyFaultsAbandon
