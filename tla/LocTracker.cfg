CONSTANTS
    a = a
    b = b
    c = c
    Vars <- MCVars
    Params <- MCParams
    Consts <- MCConsts
    Dists <- MCDists
    NumRegs = 2
    MaxSlots = 3
    MaxDefs = 1
    SelfCopies = FALSE
SPECIFICATION InBlockSpec
INVARIANTS
    TypeOK
    NoAssertionFailure
    ResidentsListed
    ResidentsExact
    LiveHasLocation
    Coherence
    FirstFreeSlot
