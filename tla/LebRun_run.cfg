SPECIFICATION FairSpec
CONSTANTS
    a1 = a1
    a2 = a2
    eb = eb
    Avant = {a1, a2}
    Task = {a1, a2, eb}
    PipeCap = 1
    MaxBuf = 2
    Share <- Shares
    MaxErrors = 1
    Silent = {a2}
    Consumer = FALSE
INVARIANTS
    TypeOK
    DepthExact
    DropsOnlyLate
PROPERTIES
    ExitTerminates
CHECK_DEADLOCK FALSE
