CONSTANTS
    x = x
    y = y
    none = none
    Vars <- MCVars
    None <- none
    N = 3
    Programs <- MCPrograms
SPECIFICATION Spec
INVARIANT NearestUseIsMinimal
CHECK_DEADLOCK FALSE
