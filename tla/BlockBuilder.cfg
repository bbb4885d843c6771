CONSTANTS
    NVars = 2
    Consts <- MCConsts
    Conds <- MCCmpConds
    MaxStmts = 3
    MaxDepth = 2
    PoolInit = 4
    BlockSize = 1
    ALIGN = 2
    AssignConds <- MCAssignConds
    EmptyLoops = FALSE
SPECIFICATION Spec
INVARIANT TypeOK
INVARIANT NoAssertionFailure
INVARIANT BlocksAccounted
CHECK_DEADLOCK FALSE
INVARIANT JumpTargetsOnList
INVARIANT GeneratedCodeMatchesSource
