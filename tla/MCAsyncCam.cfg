CONSTANTS
    A = 2
    F = 2
    L = 2
    Passes <- PassSets
SPECIFICATION FairSpec
INVARIANTS
    TypeOK
    CombinesItsOwn
    OneOutstanding
PROPERTIES
    CallsImplemented
    Completes
