SPECIFICATION Spec
CONSTANTS
    N = 2
    MaxDepth = 3
    MaxPend = 2
    TrigMod = 8
    MaxTrig = 4
    MaxSkew = 4
    Lossy = TRUE
    Hangups = FALSE
    MaxErrors = 0
INVARIANTS
    SentIsErased
CHECK_DEADLOCK FALSE
