SPECIFICATION FairSpec
CONSTANTS
    a1 = a1
    a2 = a2
    eb = eb
    Task = {a1, eb}
    TaskSeq <- OneAvant
    MayFail = {a1}
    Program = "leb"
    MaxResets = 1
INVARIANTS
    TypeOK
    InitsBounded
    NoBlindRun
PROPERTIES
    InitCompletes
    JoinsEnd
CHECK_DEADLOCK FALSE
