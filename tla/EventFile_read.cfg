SPECIFICATION FairSpec
CONSTANTS
    Nodes <- TwoNodes
    Ids = {1, 2, 9}
    Lens = {4, 5}
    Shorts = {0, 12}
    MaxFrags = 3
    RHead = 12
    PHead = 16
    Junk = {0, 28, 6400}
    Half = 32
    BufSize = 30
    MaxEvents = 2
    Cuts = {0, 1, 16, 20, 28, 43}
INVARIANTS
    WalkAligned
    LosesOnlyTinyTail
    ShowsFile
    
PROPERTIES
    ReaderEnds
CHECK_DEADLOCK FALSE
