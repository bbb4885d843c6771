CONSTANTS
    NVars = 2
    Consts <- MCConsts
    Conds <- MCConds
    MaxStmts = 3
    MaxDepth = 2
    PoolInit = 4
    BlockSize = 1
    ALIGN = 2
    AssignConds <- MCAssignConds
    EmptyLoops = TRUE
SPECIFICATION Spec
CHECK_DEADLOCK FALSE
INVARIANT GeneratedCodeMatchesSource
