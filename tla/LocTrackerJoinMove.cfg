CONSTANTS
    a = a
    b = b
    c = c
    Vars <- MCVars2
    Params <- MCParams
    Consts <- MCConsts
    Dists <- MCDists2
    NumRegs = 1
    MaxSlots = 3
    MaxDefs = 1
    SelfCopies = FALSE
SPECIFICATION Spec
INVARIANTS
    Coherence
