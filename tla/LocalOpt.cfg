CONSTANTS
    NVars = 2
    Consts <- MCConsts
    InputValues <- MCInputValues
    MaxLen = 3
    MaxTemps = 10
    PoolInit = 1
    NodeSize = 1
    ALIGN = 2
    MaxChunks = 3
SPECIFICATION Spec
INVARIANT TypeOK
INVARIANT TempsWrittenBeforeRead
INVARIANT Local2PreservesMeaning
INVARIANT GraphPoolSound
CHECK_DEADLOCK FALSE
