CONSTANTS
    Keys <- MCKeys
    MaxNodes = 6
    MaxStack = 7
SPECIFICATION Spec
INVARIANT TypeOK
INVARIANT NoAssertionFailure
INVARIANT SearchTree
INVARIANT RedBlack
PROPERTY Implements
PROPERTY Terminates
