CONSTANTS
    x = x
    y = y
    none = none
    Vars <- MCVars
    None <- none
    N = 3
    Programs <- MCPrograms
SPECIFICATION Spec
INVARIANT TypeOK
INVARIANT LiveSetsExact
INVARIANT NearestUseNotUnderestimated
PROPERTY Terminates
CHECK_DEADLOCK FALSE
