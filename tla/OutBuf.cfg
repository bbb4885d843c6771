CONSTANTS
    Nodes <- MCNodes
    Code <- MCCode
    Sizes <- MCSizes
    TMPBUF_SIZE = 3
    MaxOut = 4
SPECIFICATION Spec
INVARIANTS
    TypeOK
    ListWellFormed
    NoMarkerPrinted
PROPERTY Implements
