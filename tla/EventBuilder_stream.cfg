SPECIFICATION FairSpec
CONSTANTS
    N = 3
    MaxDepth = 3
    MaxPend = 2
    TrigMod = 4
    MaxTrig = 9
    MaxSkew = 2
    Lossy = FALSE
    Hangups = FALSE
    MaxErrors = 1
PROPERTIES
    StreamSpec
CHECK_DEADLOCK FALSE
