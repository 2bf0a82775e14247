SPECIFICATION Spec
CONSTANTS
    N = 2
    MaxDepth = 4
    MaxPend = 2
    TrigMod = 8
    MaxTrig = 5
    MaxSkew = 5
    Lossy = TRUE
    Hangups = TRUE
    MaxErrors = 1
INVARIANTS
    TypeOK
    BufferBound
    Conservation
    CompleteInOrder
    WholeEvents
    QueueBound
CHECK_DEADLOCK FALSE
