SPECIFICATION FairSpec
CONSTANTS
    a1 = a1
    a2 = a2
    eb = eb
    Task = {a1, a2, eb}
    TaskSeq <- TwoAvants
    MayFail = {}
    Program = "test"
    MaxResets = 0
PROPERTIES
    TestEnds
CHECK_DEADLOCK FALSE
